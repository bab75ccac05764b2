------------------------- MODULE SdTransfer_proof -------------------------
(***************************************************************************)
(* Proofs about SdTransfer for every number of blocks, attempts, polls and *)
(* faults.  1: the type invariant, that a DATAEND is never stale, and that *)
(* a request answered "ok" has been carried out.  2: it implements         *)
(* BlockDevice (the answer "ok" is given only when the request is carried  *)
(* out, blocks outside a request never change, and nothing changes between *)
(* requests).  3: a success leaves nothing behind.  4: the retries absorb  *)
(* the data faults they are for.                                           *)
(***************************************************************************)
EXTENDS SdTransfer, TLAPS

-----------------------------------------------------------------------------
(* 1. The inductive invariant.                                             *)

Transfers == {"attempt", "command", "transfer", "stop", "flags"}
Erases == {"prepare", "abort", "class"} \cup EraseCommands

(* What is served where; an erase has no attempt left to return to.        *)
ServesWhere ==
  /\ pc \in Transfers => req.op # "erase"
  /\ pc \in Erases => req.op = "erase"
  /\ pc = "wait" /\ caller = "write" => req.op = "write"
  /\ pc = "wait" /\ caller = "stop" => req.op # "erase"
  /\ pc = "wait" /\ caller \in {"abort", "erase"} => req.op = "erase"
  /\ req.op = "erase" => attempts = 0
  /\ pc = "attempt" => attempts # 0
  /\ result # "none" => pc = "idle"

(* Where the transfer is, for the driver and for the card.                 *)
InStep ==
  /\ pc = "command" \/ (pc = "wait" /\ caller = "write") => moved = 0
  /\ req.op # "erase" => moved <= Count(req)
  /\ pc = "transfer" => card.at = req.start + moved
  /\ pc = "transfer" /\ moved = Count(req) => "DATAEND" \in sta
  /\ pc = "stop" \/ (pc = "wait" /\ caller = "stop") => "DATAEND" \in sta
  /\ pc = "flags" => sta \cap ExitFlags(req.op) # {}
  /\ pc = "wait" => polls # 0

(* A write that leaves its loop on a stale STBITERR finds its card waiting *)
(* for data, and never gets past wait_card_ready.                          *)
StuckInRcv ==
  /\ pc \in {"transfer", "flags"} /\ req.op = "write"
       /\ sta \cap (FailureFlags("write") \cup {"DATAEND"}) = {}
     => card.state = "rcv"
  /\ pc = "wait" /\ caller = "done" /\ req.op # "erase"
     => moved = Count(req) \/ (req.op = "write" /\ card.state = "rcv")

(* The blocks moved so far have arrived.                                   *)
Arrived(b) ==
  IF req.op = "read" THEN buf[b - req.start] = mem[b]
                     ELSE mem[b] = Target(req, b) \/ b \in lost

MovedHasArrived ==
  pc \in {"transfer", "stop", "flags", "wait"} /\ req.op # "erase"
  => \A b \in Block : req.start <= b /\ b < req.start + moved => Arrived(b)

(* The erase sequence names the request's range, then the range is erased. *)
EraseInStep ==
  /\ pc = "CMD33" => card.lo = Lo(req)
  /\ pc = "CMD38" => card.lo = Lo(req) /\ card.hi = Hi(req)
  /\ pc = "wait" /\ caller = "done" /\ req.op = "erase"
     => \A b \in Extent(req) : mem[b] = Erased

IInv ==
  /\ TypeOK
  /\ ServesWhere
  /\ InStep
  /\ EndMeansAllMoved
  /\ StuckInRcv
  /\ MovedHasArrived
  /\ EraseInStep
  /\ OkMeansCarriedOut

-----------------------------------------------------------------------------
(* Requests and what they ask for.                                         *)

LEMMA RequestType ==
  ASSUME NEW r \in Request
  PROVE  /\ r.op \in {"read", "write", "erase"}
         /\ r.start \in Block /\ r.last \in Block /\ r.val \in Values
         /\ r.op # "erase" => r.start <= r.last
         /\ r.op # "erase" => Count(r) \in 1 .. MaxCount
<1>1. r \in [op : Ops, start : Block, last : Block, val : Values]
  BY DEF Request
<1>2. r.op \in {"read", "write", "erase"} /\ r.start \in Block
      /\ r.last \in Block /\ r.val \in Values
  BY <1>1, SdBlocksAssumption
<1>3. r.op # "erase" => r.start <= r.last /\ r.last < r.start + MaxCount
  BY DEF Request
<1>4. r.start \in Int /\ r.last \in Int /\ MaxCount \in Nat
  BY <1>2, SdBlocksAssumption DEF Block
<1>5. r.op # "erase" => Count(r) \in 1 .. MaxCount
  BY <1>3, <1>4 DEF Count
<1> QED
  BY <1>2, <1>3, <1>5

LEMMA ExtentType ==
  ASSUME NEW r \in Request
  PROVE  /\ Lo(r) \in Block /\ Hi(r) \in Block
         /\ Extent(r) \subseteq Block
         /\ Extent(r) = Lo(r) .. Hi(r)
         /\ r.op # "erase" => Lo(r) = r.start /\ Hi(r) = r.last
<1>1. r.start \in Block /\ r.last \in Block
  BY RequestType
<1>2. r.op # "erase" => r.start <= r.last
  BY RequestType
<1>3. NBlocks \in Int /\ r.start \in Int /\ r.last \in Int
  BY <1>1, SdBlocksAssumption DEF Block
<1>4. Lo(r) \in Block /\ Hi(r) \in Block
  BY <1>1 DEF Lo, Hi
<1>5. Lo(r) .. Hi(r) \subseteq Block
  BY <1>3, <1>4 DEF Block
<1> QED
  BY <1>2, <1>3, <1>4, <1>5 DEF Lo, Hi, Extent

LEMMA TargetType ==
  ASSUME NEW r \in Request, NEW b \in Block
  PROVE  Target(r, b) \in Content
BY RequestType DEF Target, Content, Piece

-----------------------------------------------------------------------------
(* One command and its answer.                                             *)

LEMMA ZeroIsABlock == 0 \in Block
BY SdBlocksAssumption DEF Block

LEMMA ExecutedType ==
  ASSUME TypeOK, NEW cmd, NEW arg \in Block
  PROVE  /\ Executed(cmd, arg) \in Card
         /\ cmd = "CMD13" =>
              /\ Executed(cmd, arg).state = card.state
              /\ Executed(cmd, arg).at = card.at
         /\ cmd = "CMD32" => Executed(cmd, arg).lo = arg
         /\ cmd = "CMD33" => Executed(cmd, arg).lo = card.lo
                              /\ Executed(cmd, arg).hi = arg
         /\ cmd \in {"CMD17", "CMD18", "CMD24", "CMD25"} =>
              Executed(cmd, arg).at = arg
         /\ cmd \in {"CMD24", "CMD25"} => Executed(cmd, arg).state = "rcv"
<1> DEFINE c == [card EXCEPT !.err = {},
                             !.erase = IF Interrupts(cmd) THEN "none" ELSE @]
<1>1. card \in Card
  BY DEF TypeOK
<1>2. c \in Card /\ c.state = card.state /\ c.at = card.at /\ c.lo = card.lo
  BY <1>1 DEF Card
<1>3. arg \in 0 .. (NBlocks + MaxCount) /\ 0 \in 0 .. (NBlocks + MaxCount)
  BY SdBlocksAssumption DEF Block
<1>4. 0 \in Block
  BY ZeroIsABlock
<1> HIDE DEF c
<1>6. CASE cmd = "CMD17"
  <2>1. Executed(cmd, arg) = [c EXCEPT !.state = "data", !.multi = FALSE, !.at = arg]
    BY <1>6 DEF Executed, c
  <2> QED
    BY <1>2, <1>3, <1>4, <1>6, <2>1 DEF Card
<1>7. CASE cmd = "CMD18"
  <2>1. Executed(cmd, arg) = [c EXCEPT !.state = "data", !.multi = TRUE, !.at = arg]
    BY <1>7 DEF Executed, c
  <2> QED
    BY <1>2, <1>3, <1>4, <1>7, <2>1 DEF Card
<1>8. CASE cmd = "CMD24"
  <2>1. Executed(cmd, arg) = [c EXCEPT !.state = "rcv", !.multi = FALSE, !.at = arg]
    BY <1>8 DEF Executed, c
  <2> QED
    BY <1>2, <1>3, <1>4, <1>8, <2>1 DEF Card
<1>9. CASE cmd = "CMD25"
  <2>1. Executed(cmd, arg) = [c EXCEPT !.state = "rcv", !.multi = TRUE, !.at = arg]
    BY <1>9 DEF Executed, c
  <2> QED
    BY <1>2, <1>3, <1>4, <1>9, <2>1 DEF Card
<1>10. CASE cmd = "CMD12"
  <2>1. Executed(cmd, arg) = [c EXCEPT !.state = IF @ = "rcv" THEN "prg" ELSE "tran",
                                      !.at = 0]
    BY <1>10 DEF Executed, c
  <2> QED
    BY <1>2, <1>3, <1>4, <1>10, <2>1 DEF Card
<1>11. CASE cmd = "CMD32"
  <2>1. Executed(cmd, arg) = [c EXCEPT !.erase = "start", !.lo = arg]
    BY <1>11 DEF Executed, c
  <2> QED
    BY <1>2, <1>3, <1>4, <1>11, <2>1 DEF Card
<1>12. CASE cmd = "CMD33"
  <2>1. Executed(cmd, arg) = [c EXCEPT !.erase = "both", !.hi = arg]
    BY <1>12 DEF Executed, c
  <2> QED
    BY <1>2, <1>3, <1>4, <1>12, <2>1 DEF Card
<1>13. CASE cmd = "CMD38"
  <2>1. Executed(cmd, arg) = [c EXCEPT !.erase = "none", !.state = "prg",
                                      !.lo = 0, !.hi = 0]
    BY <1>13 DEF Executed, c
  <2> QED
    BY <1>2, <1>3, <1>4, <1>13, <2>1 DEF Card
<1>14. CASE cmd \notin {"CMD17", "CMD18", "CMD24", "CMD25", "CMD12", "CMD32", "CMD33", "CMD38"}
  <2>1. Executed(cmd, arg) = c
    BY <1>14 DEF Executed, c
  <2> QED
    BY <1>2, <1>14, <2>1
<1> QED
  BY <1>6, <1>7, <1>8, <1>9, <1>10, <1>11, <1>12, <1>13, <1>14

LEMMA PerformsType ==
  ASSUME TypeOK, NEW cmd, NEW arg \in Block, Performs(cmd, arg)
  PROVE  /\ card' \in Card
         /\ mem' \in [Block -> Content]
         /\ lost' \subseteq Block
         /\ cmd # "CMD38" => mem' = mem /\ lost' = lost
         /\ cmd = "CMD13" => card'.state = card.state /\ card'.at = card.at
         /\ cmd = "CMD38" => lost' \subseteq lost
<1>1. card' \in Card
      /\ (cmd = "CMD13" => card'.state = card.state /\ card'.at = card.at)
  BY ExecutedType DEF Performs
<1>2. mem' = [b \in Block |-> IF b \in Cleared(cmd) THEN Erased ELSE mem[b]]
      /\ lost' = lost \ Cleared(cmd)
  BY DEF Performs
<1>3. mem \in [Block -> Content] /\ lost \subseteq Block /\ Erased \in Content
  BY DEF TypeOK, Content
<1>4. cmd # "CMD38" => Cleared(cmd) = {}
  BY DEF Cleared
<1> QED
  BY <1>1, <1>2, <1>3, <1>4

LEMMA IgnoresType ==
  ASSUME TypeOK, NEW errors \in SUBSET CardErrors, Ignores(errors)
  PROVE  /\ card' \in Card
         /\ mem' = mem /\ lost' = lost
         /\ card'.state = card.state /\ card'.at = card.at
         /\ card'.lo = card.lo /\ card'.hi = card.hi
<1>1. card \in Card
  BY DEF TypeOK
<1> QED
  BY <1>1 DEF Ignores, Card

LEMMA NoFaultType ==
  ASSUME TypeOK, NoFault
  PROVE  faults' \in 0 .. MaxFaults /\ clean' \in BOOLEAN
BY DEF TypeOK, NoFault

LEMMA FaultType ==
  ASSUME TypeOK, NEW recoverable \in BOOLEAN, Fault(recoverable)
  PROVE  faults' \in 0 .. MaxFaults /\ clean' \in BOOLEAN
BY SdTransferAssumption DEF TypeOK, Fault

(* What the driver knows of the world after any exchange.                  *)
LEMMA ExchangeType ==
  ASSUME TypeOK, NEW cmd, NEW arg \in Block, NEW st, CmdResp1Error(cmd, arg, st)
  PROVE  /\ faults' \in 0 .. MaxFaults
         /\ clean' \in BOOLEAN
         /\ card' \in Card
         /\ mem' \in [Block -> Content]
         /\ lost' \subseteq Block
         /\ cmd # "CMD38" => mem' = mem /\ lost' = lost
         /\ cmd = "CMD13" => card'.state = card.state /\ card'.at = card.at
         /\ st = "ok" => Performs(cmd, arg)
<1>1. faults \in 0 .. MaxFaults /\ clean \in BOOLEAN
      /\ card.state \in CardStates /\ MaxFaults \in Nat
      /\ mem \in [Block -> Content] /\ lost \subseteq Block
  BY SdTransferAssumption DEF TypeOK, Card, CardStates
<1>4. CASE /\ Performs(cmd, arg)
           /\ st = Status(Reported(cmd))
           /\ NoFault
  BY <1>1, <1>4, NoFaultType, PerformsType
<1>5. CASE /\ Performs(cmd, arg)
           /\ st \in {"timeout", "crc"}
           /\ Fault(FALSE)
  BY <1>1, <1>5, FaultType, PerformsType
<1>6. CASE /\ st = "timeout"
           /\ Ignores({"ILLEGAL"})
           /\ NoFault
  BY <1>1, <1>6, NoFaultType, IgnoresType DEF CardErrors
<1>7. CASE /\ st = "timeout"
           /\ Ignores({}) \/ Ignores({"COM_CRC"})
           /\ Fault(FALSE)
  BY <1>1, <1>7, FaultType, IgnoresType DEF CardErrors
<1> QED
  BY <1>4, <1>5, <1>6, <1>7 DEF CmdResp1Error

-----------------------------------------------------------------------------
(* Every step preserves the inductive invariant, one lemma per action.     *)

LEMMA InitIInv == Init => IInv
<1> SUFFICES ASSUME Init PROVE IInv
  OBVIOUS
<1>1. TypeOK
  <2>1. card \in Card
    BY SdBlocksAssumption, ZeroIsABlock DEF Init, Card
  <2>2. 0 \in 0 .. (ReadAttempts + WriteAttempts) /\ 0 \in 0 .. MaxPolls
        /\ 0 \in 0 .. MaxCount /\ MaxFaults \in 0 .. MaxFaults
    BY SdBlocksAssumption, SdTransferAssumption
  <2>3. buf \in [0 .. (MaxCount - 1) -> Content] /\ mem \in [Block -> Content]
    BY DEF Init, EmptyBuffer, Content
  <2> QED
    BY <2>1, <2>2, <2>3 DEF Init, TypeOK, Locations, CardStates
<1>2. pc = "idle" /\ result = "none" /\ sta = {} /\ attempts = 0 /\ moved = 0
  BY DEF Init
<1>3. req.op # "erase" => moved <= Count(req)
  BY <1>1, <1>2, RequestType DEF TypeOK
<1>4. ServesWhere /\ InStep
  BY <1>2, <1>3 DEF ServesWhere, InStep, Transfers, Erases, EraseCommands
<1>5. EndMeansAllMoved /\ StuckInRcv /\ MovedHasArrived /\ EraseInStep /\ OkMeansCarriedOut
  BY <1>2 DEF EndMeansAllMoved, StuckInRcv, MovedHasArrived, EraseInStep, OkMeansCarriedOut
<1> QED
  BY <1>1, <1>4, <1>5 DEF IInv

LEMMA SubmitIInv ==
  ASSUME IInv, NEW r \in Request, Submit(r)
  PROVE  IInv'
<1>1. TypeOK /\ EndMeansAllMoved
  BY DEF IInv
<1>2. "DATAEND" \notin sta
  BY <1>1 DEF EndMeansAllMoved, Submit
<1>3. Attempts(r.op) \in 0 .. (ReadAttempts + WriteAttempts)
  BY SdTransferAssumption DEF Attempts
<1>4. TypeOK'
  BY <1>1, <1>3, SdBlocksAssumption
  DEF TypeOK, Submit, Locations, CardStates, EmptyBuffer, Content, NothingPending, flags
<1>5. ServesWhere'
  BY <1>1, RequestType, SdTransferAssumption
  DEF ServesWhere, Submit, Transfers, Erases, EraseCommands, Attempts
<1>6. InStep' /\ EndMeansAllMoved'
  BY <1>2, RequestType, SdBlocksAssumption DEF InStep, EndMeansAllMoved, Submit, flags
<1>7. StuckInRcv' /\ MovedHasArrived' /\ EraseInStep' /\ OkMeansCarriedOut'
  BY DEF StuckInRcv, MovedHasArrived, EraseInStep, OkMeansCarriedOut, Submit
<1> QED
  BY <1>4, <1>5, <1>6, <1>7 DEF IInv

(* The variables other than those that Goto and Return determine.          *)
RestTypeOK ==
  /\ caller \in {"write", "stop", "done", "abort", "erase"}
  /\ polls \in 0 .. MaxPolls
  /\ sta \subseteq AllFlags
  /\ rxArmed \in BOOLEAN
  /\ card \in Card
  /\ mem \in [Block -> Content]
  /\ lost \subseteq Block
  /\ faults \in 0 .. MaxFaults
  /\ clean \in BOOLEAN

LEMMA RestType == TypeOK => RestTypeOK
BY DEF TypeOK, RestTypeOK

LEMMA GotoType ==
  ASSUME TypeOK, NEW label \in Locations, Goto(label), UNCHANGED <<req, buf>>, RestTypeOK'
  PROVE  TypeOK'
BY DEF TypeOK, RestTypeOK, Goto

(* A request or an attempt that fails with no DATAEND left over.           *)
LEMMA ReturnErrIInv ==
  ASSUME IInv, pc # "idle", Return("err"), UNCHANGED <<req, buf>>, RestTypeOK',
         "DATAEND" \notin sta'
  PROVE  IInv'
<1>1. TypeOK /\ ServesWhere /\ InStep
  BY DEF IInv
<1>2. result = "none" /\ (req.op = "erase" => attempts = 0)
  BY <1>1 DEF TypeOK, ServesWhere
<1>3. \/ pc' = "idle" /\ result' = "err" /\ attempts' = 0 /\ moved' = 0
      \/ /\ pc' = "attempt" /\ attempts # 0
         /\ UNCHANGED <<result, attempts, moved>>
  BY DEF Return, Goto
<1>4. TypeOK'
  <2>1. attempts' \in 0 .. (ReadAttempts + WriteAttempts) /\ moved' \in 0 .. MaxCount
    BY <1>1, <1>3, SdTransferAssumption, SdBlocksAssumption DEF TypeOK
  <2> QED
    BY <1>1, <1>3, <2>1 DEF TypeOK, RestTypeOK, Locations
<1>5. ServesWhere'
  BY <1>2, <1>3 DEF ServesWhere, Transfers, Erases, EraseCommands
<1>6. InStep'
  <2>1. req.op # "erase" => moved' <= Count(req)
    BY <1>1, <1>3, RequestType DEF TypeOK, InStep
  <2> QED
    BY <1>3, <2>1 DEF InStep
<1>7. EndMeansAllMoved' /\ StuckInRcv' /\ MovedHasArrived' /\ EraseInStep'
  BY <1>3 DEF EndMeansAllMoved, StuckInRcv, MovedHasArrived, EraseInStep
<1>8. OkMeansCarriedOut'
  BY <1>2, <1>3 DEF OkMeansCarriedOut
<1> QED
  BY <1>4, <1>5, <1>6, <1>7, <1>8 DEF IInv

LEMMA AttemptIInv ==
  ASSUME IInv, Attempt
  PROVE  IInv'
<1>1. TypeOK /\ EndMeansAllMoved /\ ServesWhere
  BY DEF IInv
<1>2. pc = "attempt" /\ attempts # 0 /\ "DATAEND" \notin sta /\ req.op # "erase"
  BY <1>1 DEF EndMeansAllMoved, Attempt, ServesWhere, Transfers
<1>3. result = "none"
  BY <1>1, <1>2 DEF TypeOK, ServesWhere
<1>4. \/ pc' = "wait" /\ caller' = "write" /\ polls' = MaxPolls /\ req.op = "write"
      \/ pc' = "command" /\ UNCHANGED <<caller, polls>>
  BY DEF Attempt
<1>5. /\ attempts' = attempts - 1 /\ moved' = 0 /\ rxArmed' = FALSE
      /\ UNCHANGED <<req, buf, result, sta, card, mem, lost, faults, clean>>
  BY DEF Attempt
<1>6. TypeOK'
  <2>1. attempts' \in 0 .. (ReadAttempts + WriteAttempts)
    BY <1>1, <1>2, <1>5, SdTransferAssumption DEF TypeOK
  <2>2. polls' \in 0 .. MaxPolls /\ moved' \in 0 .. MaxCount
    BY <1>1, <1>4, <1>5, SdTransferAssumption, SdBlocksAssumption DEF TypeOK
  <2> QED
    BY <1>1, <1>4, <1>5, <2>1, <2>2 DEF TypeOK, Locations
<1>7. ServesWhere'
  BY <1>1, <1>2, <1>3, <1>4, <1>5 DEF ServesWhere, Transfers, Erases, EraseCommands
<1>8. InStep' /\ EndMeansAllMoved'
  <2>1. req.op # "erase" => moved' <= Count(req)
    BY <1>1, <1>5, RequestType DEF TypeOK
  <2> QED
    BY <1>2, <1>4, <1>5, <2>1, SdTransferAssumption DEF InStep, EndMeansAllMoved
<1>9. StuckInRcv' /\ EraseInStep' /\ OkMeansCarriedOut'
  BY <1>2, <1>4, <1>5 DEF StuckInRcv, EraseInStep, OkMeansCarriedOut
<1>10. MovedHasArrived'
  <2>1. req \in Request /\ req.start \in Int
    BY <1>1, RequestType DEF TypeOK, Block
  <2> QED
    BY <1>5, <2>1 DEF MovedHasArrived, Block
<1> QED
  BY <1>6, <1>7, <1>8, <1>9, <1>10 DEF IInv

LEMMA SendTransferCommandIInv ==
  ASSUME IInv, NEW st \in Statuses, SendTransferCommand(st)
  PROVE  IInv'
<1>1. TypeOK /\ ServesWhere /\ InStep /\ EndMeansAllMoved
  BY DEF IInv
<1>2. /\ pc = "command" /\ moved = 0 /\ req.op # "erase" /\ "DATAEND" \notin sta
      /\ req \in Request
  BY <1>1
  DEF SendTransferCommand, ServesWhere, Transfers, InStep, EndMeansAllMoved, TypeOK
<1> DEFINE cmd == TransferCommand(req)
<1>3. cmd \in {"CMD17", "CMD18", "CMD24", "CMD25"}
      /\ (req.op = "write" => cmd \in {"CMD24", "CMD25"})
  BY DEF TransferCommand
<1>4. CmdResp1Error(cmd, req.start, st) /\ req.start \in Block
  BY <1>2, RequestType DEF SendTransferCommand
<1> HIDE DEF cmd
<1>5. RestTypeOK'
  <2>1. rxArmed' \in BOOLEAN /\ UNCHANGED <<caller, polls, sta>>
    BY DEF SendTransferCommand
  <2> QED
    BY <1>1, <1>4, <2>1, ExchangeType DEF TypeOK, RestTypeOK
<1>6. UNCHANGED <<caller, req, polls, buf, sta>>
  BY DEF SendTransferCommand
<1>7. CASE st # "ok"
  <2>1. Return("err")
    BY <1>7 DEF SendTransferCommand
  <2> QED
    BY <1>2, <1>5, <1>6, <2>1, ReturnErrIInv
<1>8. CASE st = "ok"
  <2>1. Goto("transfer")
    BY <1>8 DEF SendTransferCommand
  <2>2. card' = Executed(cmd, req.start)
    BY <1>1, <1>4, <1>8, ExchangeType DEF Performs
  <2>3. card'.at = req.start /\ (req.op = "write" => card'.state = "rcv")
    BY <1>1, <1>3, <1>4, <2>2, ExecutedType
  <2>4. TypeOK'
    BY <1>1, <1>5, <1>6, <2>1, GotoType DEF Locations
  <2>5. ServesWhere'
    BY <1>1, <1>2, <1>6, <2>1 DEF ServesWhere, Goto, Transfers, Erases, EraseCommands, TypeOK
  <2>6. InStep' /\ EndMeansAllMoved'
    <3>1. req.start + 0 = req.start /\ Count(req) \in 1 .. MaxCount
      BY <1>2, <1>4, RequestType DEF Block
    <3> QED
      BY <1>2, <1>6, <2>1, <2>3, <3>1 DEF InStep, EndMeansAllMoved, Goto
  <2>7. StuckInRcv' /\ EraseInStep'
    BY <1>2, <1>6, <2>1, <2>3 DEF StuckInRcv, EraseInStep, Goto
  <2>8. MovedHasArrived'
    BY <1>2, <1>4, <1>6, <2>1 DEF MovedHasArrived, Goto, Block
  <2>9. OkMeansCarriedOut'
    BY <2>1 DEF OkMeansCarriedOut, Goto
  <2> QED
    BY <2>4, <2>5, <2>6, <2>7, <2>8, <2>9 DEF IInv
<1> QED
  BY <1>7, <1>8

(* What the data phase starts from: the block to move exists, on the card  *)
(* and in the buffer.                                                      *)
LEMMA PollingFacts ==
  ASSUME IInv, Polling
  PROVE  /\ TypeOK /\ pc = "transfer" /\ result = "none"
         /\ req \in Request /\ req.op \in {"read", "write"}
         /\ req.start \in Nat /\ moved \in Nat /\ Count(req) \in Nat
         /\ moved < Count(req) /\ moved \in 0 .. (MaxCount - 1)
         /\ Count(req) <= MaxCount
         /\ card.at = req.start + moved /\ card.at \in Block
         /\ "DATAEND" \notin sta
<1>1. TypeOK /\ ServesWhere /\ InStep /\ pc = "transfer"
  BY DEF IInv, Polling
<1>2. req \in Request /\ result = "none" /\ req.op # "erase"
  BY <1>1 DEF TypeOK, ServesWhere, Transfers
<1>3. /\ req.op \in {"read", "write"} /\ req.start \in Block /\ req.last \in Block
      /\ Count(req) \in 1 .. MaxCount
  BY <1>2, RequestType
<1>4. "DATAEND" \notin sta
  BY <1>3 DEF Polling, ExitFlags, ReadExitFlags, WriteExitFlags, AllFlags
<1>5. moved <= Count(req) /\ moved # Count(req) /\ card.at = req.start + moved
  BY <1>1, <1>2, <1>4 DEF InStep
<1>6. /\ req.start \in Nat /\ req.last \in Nat /\ moved \in Nat
      /\ MaxCount \in Nat /\ NBlocks \in Nat /\ req.last < NBlocks
  BY <1>1, <1>3, SdBlocksAssumption DEF TypeOK, Block
<1>7. moved < Count(req) /\ moved \in 0 .. (MaxCount - 1) /\ card.at \in Block
      /\ Count(req) \in Nat /\ Count(req) <= MaxCount
  BY <1>3, <1>5, <1>6 DEF Count, Block
<1> QED
  BY <1>1, <1>2, <1>3, <1>4, <1>5, <1>6, <1>7

LEMMA ReceiveBlockIInv ==
  ASSUME IInv, ReceiveBlock
  PROVE  IInv'
<1>1. Polling /\ req.op = "read"
  BY DEF ReceiveBlock
<1>2. /\ TypeOK /\ pc = "transfer" /\ result = "none" /\ req \in Request
      /\ req.start \in Nat /\ moved \in Nat /\ Count(req) \in Nat
      /\ moved < Count(req) /\ moved \in 0 .. (MaxCount - 1)
      /\ Count(req) <= MaxCount
      /\ card.at = req.start + moved /\ card.at \in Block
      /\ "DATAEND" \notin sta
  BY <1>1, PollingFacts
<1>3. /\ ServesWhere /\ MovedHasArrived
      /\ UNCHANGED <<pc, caller, req, attempts, polls, result, mem, lost,
                     faults, clean>>
      /\ moved' = moved + 1 /\ buf' = [buf EXCEPT ![moved] = mem[card.at]]
      /\ sta' = IF LastBlock THEN sta \cup {"DATAEND"} ELSE sta
  BY DEF IInv, ReceiveBlock
<1>4. card' \in Card /\ card'.at = card.at + 1
  <2>1. card \in Card /\ card.at + 1 \in 0 .. (NBlocks + MaxCount)
    <3>1. card \in Card
      BY <1>2 DEF TypeOK
    <3>2. card.at + 1 \in 0 .. (NBlocks + MaxCount)
      BY <1>2, SdBlocksAssumption DEF Block
    <3> QED
      BY <3>1, <3>2
  <2>2. card' = [card EXCEPT !.at = card.at + 1,
                             !.state = IF Multi(req) THEN card.state ELSE "tran"]
    BY DEF ReceiveBlock
  <2> QED
    BY <2>1, <2>2 DEF Card
<1>5. TypeOK'
  <2>1. buf' \in [0 .. (MaxCount - 1) -> Content]
    BY <1>2, <1>3 DEF TypeOK
  <2>2. sta' \subseteq AllFlags /\ rxArmed' \in BOOLEAN
    BY <1>2, <1>3 DEF TypeOK, ReceiveBlock, AllFlags
  <2>3. moved' \in 0 .. MaxCount
    BY <1>2, <1>3, SdBlocksAssumption
  <2> QED
    BY <1>2, <1>3, <1>4, <2>1, <2>2, <2>3 DEF TypeOK
<1>6. ServesWhere'
  BY <1>3 DEF ServesWhere, Transfers, Erases, EraseCommands
<1>7. moved' <= Count(req) /\ (moved' = Count(req) <=> LastBlock)
  BY <1>2, <1>3 DEF LastBlock
<1>8. InStep' /\ EndMeansAllMoved'
  <2>1. card'.at = req.start + moved'
    BY <1>2, <1>3, <1>4
  <2>2. "DATAEND" \in sta' <=> LastBlock
    BY <1>2, <1>3
  <2> QED
    BY <1>2, <1>3, <1>7, <2>1, <2>2 DEF InStep, EndMeansAllMoved
<1>9. StuckInRcv' /\ EraseInStep' /\ OkMeansCarriedOut'
  BY <1>1, <1>2, <1>3 DEF StuckInRcv, EraseInStep, OkMeansCarriedOut
<1>10. MovedHasArrived'
  <2> SUFFICES ASSUME NEW b \in Block, req.start <= b, b < req.start + (moved + 1)
               PROVE  buf'[b - req.start] = mem[b]
    BY <1>1, <1>3 DEF MovedHasArrived, Arrived
  <2>1. b \in Nat /\ buf \in [0 .. (MaxCount - 1) -> Content]
    BY <1>2 DEF TypeOK, Block
  <2>2. CASE b = req.start + moved
    BY <1>2, <1>3, <2>1, <2>2
  <2>3. CASE b < req.start + moved
    <3>1. buf[b - req.start] = mem[b]
      BY <1>1, <1>2, <1>3, <2>3 DEF MovedHasArrived, Arrived
    <3> QED
      BY <1>2, <1>3, <2>1, <2>3, <3>1
  <2> QED
    BY <1>2, <2>1, <2>2, <2>3
<1> QED
  BY <1>5, <1>6, <1>8, <1>9, <1>10 DEF IInv

(* Storing block card.at = start + moved, or failing to, leaves the blocks *)
(* moved before it as they were.                                           *)
LEMMA StoreKeepsMoved ==
  ASSUME IInv, Polling, req.op = "write", UNCHANGED <<req, buf>>,
         \/ Programmed \/ NotProgrammed \/ UNCHANGED <<mem, lost>>
  PROVE  /\ mem' \in [Block -> Content] /\ lost' \subseteq Block
         /\ \A b \in Block : req.start <= b /\ b < req.start + moved => Arrived(b)'
         /\ Programmed \/ NotProgrammed =>
              (mem'[card.at] = Target(req, card.at) \/ card.at \in lost')
<1>1. /\ TypeOK /\ pc = "transfer" /\ req \in Request
      /\ req.start \in Nat /\ moved \in Nat
      /\ card.at = req.start + moved /\ card.at \in Block
  BY PollingFacts
<1>2. mem \in [Block -> Content] /\ lost \subseteq Block
      /\ Piece(req.val, req.start + moved) \in Content
      /\ Target(req, card.at) = Piece(req.val, req.start + moved)
  BY <1>1, TargetType DEF TypeOK, Target
<1>3. \A b \in Block : req.start <= b /\ b < req.start + moved
        => mem[b] = Target(req, b) \/ b \in lost
  BY <1>1 DEF IInv, MovedHasArrived, Arrived
<1>4. \A b \in Block : b < req.start + moved => b # card.at
  BY <1>1 DEF Block
<1>6. \A b : Arrived(b)' <=> mem'[b] = Target(req, b) \/ b \in lost'
  BY DEF Arrived, Target, Piece
<1>7. CASE Programmed
  BY <1>1, <1>2, <1>3, <1>4, <1>6, <1>7 DEF Programmed
<1>8. CASE NotProgrammed
  BY <1>1, <1>2, <1>3, <1>4, <1>6, <1>8 DEF NotProgrammed
<1>9. CASE UNCHANGED <<mem, lost>> /\ ~Programmed /\ ~NotProgrammed
  BY <1>2, <1>3, <1>6, <1>9
<1> QED
  BY <1>7, <1>8, <1>9

LEMMA SendBlockIInv ==
  ASSUME IInv, SendBlock
  PROVE  IInv'
<1>1. Polling /\ req.op = "write" /\ card.state = "rcv"
  BY DEF SendBlock
<1>2. /\ TypeOK /\ pc = "transfer" /\ result = "none" /\ req \in Request
      /\ req.start \in Nat /\ moved \in Nat /\ Count(req) \in Nat
      /\ moved < Count(req) /\ moved \in 0 .. (MaxCount - 1)
      /\ Count(req) <= MaxCount
      /\ card.at = req.start + moved /\ card.at \in Block
      /\ "DATAEND" \notin sta
  BY <1>1, PollingFacts
<1>3. /\ ServesWhere
      /\ UNCHANGED <<pc, caller, req, attempts, polls, buf, result, rxArmed>>
      /\ moved' = moved + 1
      /\ sta' = IF LastBlock THEN sta \cup {"DATAEND"} ELSE sta
  BY DEF IInv, SendBlock
<1>4. PICK failed \in BOOLEAN :
        /\ IF failed THEN NotProgrammed /\ Fault(FALSE) ELSE Programmed /\ NoFault
        /\ card' = [card EXCEPT !.at = card.at + 1,
                                !.state = IF Multi(req) THEN card.state ELSE "prg",
                                !.err = IF failed THEN card.err \cup {"ERROR"} ELSE card.err]
  BY DEF SendBlock
<1>5. card' \in Card /\ card'.at = card.at + 1 /\ (Multi(req) => card'.state = "rcv")
  <2>1. card \in Card /\ card.at + 1 \in 0 .. (NBlocks + MaxCount)
    <3>1. card \in Card
      BY <1>2 DEF TypeOK
    <3>2. card.at + 1 \in 0 .. (NBlocks + MaxCount)
      BY <1>2, SdBlocksAssumption DEF Block
    <3> QED
      BY <3>1, <3>2
  <2> QED
    BY <1>1, <1>4, <2>1 DEF Card, CardErrors
<1>6. faults' \in 0 .. MaxFaults /\ clean' \in BOOLEAN
  BY <1>2, <1>4, FaultType, NoFaultType
<1>7. /\ mem' \in [Block -> Content] /\ lost' \subseteq Block
      /\ \A b \in Block : req.start <= b /\ b < req.start + moved => Arrived(b)'
      /\ mem'[card.at] = Target(req, card.at) \/ card.at \in lost'
  BY <1>1, <1>3, <1>4, StoreKeepsMoved
<1>8. TypeOK'
  <2>1. sta' \subseteq AllFlags
    BY <1>2, <1>3 DEF TypeOK, AllFlags
  <2>2. moved' \in 0 .. MaxCount
    BY <1>2, <1>3, SdBlocksAssumption
  <2> QED
    BY <1>2, <1>3, <1>5, <1>6, <1>7, <2>1, <2>2 DEF TypeOK
<1>9. ServesWhere'
  BY <1>3 DEF ServesWhere, Transfers, Erases, EraseCommands
<1>10. moved' <= Count(req) /\ (moved' = Count(req) <=> LastBlock)
  BY <1>2, <1>3 DEF LastBlock
<1>11. InStep' /\ EndMeansAllMoved'
  <2>1. card'.at = req.start + moved'
    BY <1>2, <1>3, <1>5
  <2>2. "DATAEND" \in sta' <=> LastBlock
    BY <1>2, <1>3
  <2> QED
    BY <1>2, <1>3, <1>10, <2>1, <2>2 DEF InStep, EndMeansAllMoved
<1>12. StuckInRcv' /\ EraseInStep' /\ OkMeansCarriedOut'
  <2>1. ~Multi(req) => LastBlock
    <3>1. req.start \in Int /\ req.last \in Int /\ req.start <= req.last
      BY <1>1, <1>2, RequestType DEF Block
    <3> QED
      BY <1>2, <3>1 DEF Multi, LastBlock, Count
  <2> QED
    BY <1>1, <1>2, <1>3, <1>5, <2>1 DEF StuckInRcv, EraseInStep, OkMeansCarriedOut
<1>13. MovedHasArrived'
  <2> SUFFICES ASSUME NEW b \in Block, req.start <= b, b < req.start + (moved + 1)
               PROVE  Arrived(b)'
    BY <1>3 DEF MovedHasArrived
  <2>1. b \in Nat
    BY DEF Block
  <2>2. CASE b = card.at
    BY <1>1, <1>3, <1>7, <2>2 DEF Arrived, Target, Piece
  <2>3. CASE b < req.start + moved
    BY <1>7, <2>3
  <2> QED
    BY <1>2, <2>1, <2>2, <2>3
<1> QED
  BY <1>8, <1>9, <1>11, <1>12, <1>13 DEF IInv

LEMMA DataFaultIInv ==
  ASSUME IInv, NEW f \in AllFlags, DataFault(f)
  PROVE  IInv'
<1>1. Polling /\ f \in DataFaults(req.op)
  BY DEF DataFault
<1>2. /\ TypeOK /\ pc = "transfer" /\ result = "none" /\ req \in Request
      /\ req.op \in {"read", "write"} /\ req.start \in Nat /\ moved \in Nat
      /\ "DATAEND" \notin sta
  BY <1>1, PollingFacts
<1>3. /\ ServesWhere /\ InStep /\ MovedHasArrived
      /\ UNCHANGED driver
      /\ sta' = sta \cup {f} /\ rxArmed' = FALSE
      /\ Fault(~Multi(req) /\ f \in {"DCRCFAIL", "TXUNDERR", "RXOVERR"})
      /\ UNCHANGED <<mem, lost>> \/ (req.op = "write" /\ Programmed)
  BY DEF IInv, DataFault
<1>4. f # "DATAEND" /\ (req.op = "write" => f \in FailureFlags("write"))
  BY <1>1, <1>2 DEF DataFaults, FailureFlags, ReadFailureFlags, WriteFailureFlags
<1>5. card' \in Card /\ card'.at = card.at
  <2>1. card \in Card
    BY <1>2 DEF TypeOK
  <2>2. \E s \in {"tran", "data", "rcv", "prg"} : card' = [card EXCEPT !.state = s]
    <3>1. card.state \in {"tran", "data", "rcv", "prg"}
      BY <2>1 DEF Card
    <3> QED
      BY <3>1 DEF DataFault
  <2> QED
    BY <2>1, <2>2 DEF Card
<1>6. faults' \in 0 .. MaxFaults /\ clean' \in BOOLEAN
  BY <1>2, <1>3, SdTransferAssumption DEF TypeOK, Fault
<1>7. /\ mem' \in [Block -> Content] /\ lost' \subseteq Block
      /\ \A b \in Block : req.start <= b /\ b < req.start + moved => Arrived(b)'
  <2>1. UNCHANGED <<req, buf>>
    BY <1>3 DEF driver
  <2>2. CASE req.op = "write"
    BY <1>1, <1>3, <2>1, <2>2, StoreKeepsMoved
  <2>3. CASE req.op = "read"
    BY <1>2, <1>3, <2>1, <2>3 DEF TypeOK, MovedHasArrived, Arrived
  <2> QED
    BY <1>2, <2>2, <2>3
<1>8. TypeOK'
  BY <1>2, <1>3, <1>5, <1>6, <1>7 DEF TypeOK, driver
<1>9. ServesWhere'
  BY <1>3 DEF ServesWhere, Transfers, Erases, EraseCommands, driver
<1>10. InStep' /\ EndMeansAllMoved'
  BY <1>2, <1>3, <1>4, <1>5 DEF InStep, EndMeansAllMoved, driver
<1>11. StuckInRcv' /\ EraseInStep' /\ OkMeansCarriedOut' /\ MovedHasArrived'
  BY <1>2, <1>3, <1>4, <1>7
  DEF StuckInRcv, EraseInStep, OkMeansCarriedOut, MovedHasArrived, driver
<1> QED
  BY <1>8, <1>9, <1>10, <1>11 DEF IInv

LEMMA EndOfLoopIInv ==
  ASSUME IInv, EndOfLoop
  PROVE  IInv'
<1>1. /\ TypeOK /\ ServesWhere /\ InStep /\ EndMeansAllMoved /\ StuckInRcv
      /\ MovedHasArrived /\ OkMeansCarriedOut
      /\ pc = "transfer" /\ sta \cap ExitFlags(req.op) # {}
  BY DEF IInv, EndOfLoop
<1>2. /\ UNCHANGED <<caller, req, polls, buf, sta, rxArmed, card, mem, lost, faults,
                     clean, result, attempts, moved>>
      /\ pc' = IF Multi(req) /\ "DATAEND" \in sta THEN "stop" ELSE "flags"
  BY DEF EndOfLoop, Goto, flags, card_and_faults
<1>3. (pc' = "stop" /\ "DATAEND" \in sta) \/ pc' = "flags"
  BY <1>2
<1>4. TypeOK'
  BY <1>1, <1>2, <1>3 DEF TypeOK, Locations
<1>5. ServesWhere' /\ InStep' /\ EndMeansAllMoved'
  BY <1>1, <1>2, <1>3
  DEF ServesWhere, InStep, EndMeansAllMoved, Transfers, Erases, EraseCommands
<1>6. MovedHasArrived'
  BY <1>1, <1>2, <1>3 DEF MovedHasArrived, Arrived
<1>7. StuckInRcv' /\ EraseInStep' /\ OkMeansCarriedOut'
  BY <1>1, <1>2, <1>3 DEF StuckInRcv, EraseInStep, OkMeansCarriedOut
<1> QED
  BY <1>4, <1>5, <1>6, <1>7 DEF IInv

(* CMD12 and CMD13 change nothing that the invariant says of the blocks.   *)
LEMMA StopTransmissionIInv ==
  ASSUME IInv, NEW st \in Statuses, StopTransmission(st)
  PROVE  IInv'
<1>1. /\ TypeOK /\ ServesWhere /\ InStep /\ EndMeansAllMoved /\ MovedHasArrived
      /\ pc = "stop" /\ req.op # "erase" /\ "DATAEND" \in sta
      /\ moved = Count(req)
  BY DEF IInv, StopTransmission, ServesWhere, InStep, EndMeansAllMoved, Transfers
<1>2. CmdResp1Error("CMD12", 0, st) /\ UNCHANGED <<req, buf, rxArmed>>
  BY DEF StopTransmission
<1>3. \/ Goto("flags") /\ UNCHANGED <<caller, polls, sta>>
      \/ WaitFor("stop") /\ UNCHANGED sta
      \/ Return("err") /\ sta' = sta \ DataFlags /\ UNCHANGED <<caller, polls>>
  BY DEF StopTransmission
<1>4. mem' = mem /\ lost' = lost
  <2>1. "CMD12" # "CMD38" => mem' = mem /\ lost' = lost
    BY <1>1, <1>2, ExchangeType, ZeroIsABlock, Zenon
  <2> QED
    BY <2>1
<1>5. RestTypeOK'
  <2>1. caller' \in {"write", "stop", "done", "abort", "erase"} /\ polls' \in 0 .. MaxPolls
    BY <1>1, <1>3, SdTransferAssumption DEF TypeOK, WaitFor
  <2>2. sta' \subseteq AllFlags /\ rxArmed' \in BOOLEAN
    BY <1>1, <1>2, <1>3 DEF TypeOK
  <2> QED
    BY <1>1, <1>2, <2>1, <2>2, ExchangeType, ZeroIsABlock DEF RestTypeOK
<1>6. CASE Return("err") /\ sta' = sta \ DataFlags
  BY <1>1, <1>2, <1>5, <1>6, ReturnErrIInv DEF DataFlags, AllFlags
<1>7. CASE \/ Goto("flags") /\ UNCHANGED <<caller, polls, sta>>
           \/ WaitFor("stop") /\ UNCHANGED sta
  <2>1. /\ pc' = "flags" \/ (pc' = "wait" /\ caller' = "stop" /\ polls' = MaxPolls)
        /\ UNCHANGED <<req, buf, result, attempts, moved, sta>>
    BY <1>2, <1>7 DEF Goto, WaitFor
  <2>2. TypeOK'
    BY <1>1, <1>5, <2>1 DEF TypeOK, RestTypeOK, Locations
  <2>3. ServesWhere'
    BY <1>1, <2>1 DEF ServesWhere, Transfers, Erases, EraseCommands, TypeOK
  <2>4. "DATAEND" \in ExitFlags(req.op)
    BY DEF ExitFlags, ReadExitFlags, WriteExitFlags, AllFlags
  <2>5. InStep' /\ EndMeansAllMoved'
    BY <1>1, <2>1, <2>4, SdTransferAssumption DEF InStep, EndMeansAllMoved
  <2>6. MovedHasArrived'
    BY <1>1, <1>4, <2>1 DEF MovedHasArrived, Arrived
  <2>7. StuckInRcv' /\ EraseInStep' /\ OkMeansCarriedOut'
    BY <1>1, <2>1 DEF StuckInRcv, EraseInStep, OkMeansCarriedOut, ServesWhere
  <2> QED
    BY <2>2, <2>3, <2>5, <2>6, <2>7 DEF IInv
<1> QED
  BY <1>3, <1>6, <1>7

LEMMA CheckFlagsIInv ==
  ASSUME IInv, CheckFlags
  PROVE  IInv'
<1>1. /\ TypeOK /\ ServesWhere /\ InStep /\ EndMeansAllMoved /\ MovedHasArrived
      /\ StuckInRcv
      /\ pc = "flags" /\ req.op \in {"read", "write"} /\ req \in Request
      /\ sta \cap ExitFlags(req.op) # {}
  <2>1. /\ TypeOK /\ ServesWhere /\ InStep /\ EndMeansAllMoved /\ MovedHasArrived
        /\ StuckInRcv /\ pc = "flags"
    BY DEF IInv, CheckFlags
  <2>2. req \in Request /\ req.op # "erase" /\ sta \cap ExitFlags(req.op) # {}
    BY <2>1 DEF TypeOK, ServesWhere, InStep, Transfers
  <2> QED
    BY <2>1, <2>2, RequestType
<1>2. /\ UNCHANGED <<req, buf, rxArmed, card, mem, lost, faults, clean>>
      /\ sta' = sta \ DataFlags
  BY DEF CheckFlags, card_and_faults
<1>3. "DATAEND" \notin sta'
  BY <1>2 DEF DataFlags, AllFlags
<1>4. RestTypeOK'
  <2>1. caller' \in {"write", "stop", "done", "abort", "erase"} /\ polls' \in 0 .. MaxPolls
    BY <1>1, SdTransferAssumption DEF TypeOK, WaitFor, CheckFlags
  <2> QED
    BY <1>1, <1>2, <2>1 DEF RestTypeOK, TypeOK
<1>5. CASE sta \cap FailureFlags(req.op) # {}
  BY <1>1, <1>2, <1>3, <1>4, <1>5, ReturnErrIInv DEF CheckFlags
<1>6. CASE sta \cap FailureFlags(req.op) = {}
  <2>1. /\ pc' = "wait" /\ caller' = "done" /\ polls' = MaxPolls
        /\ UNCHANGED <<req, buf, result, attempts, moved>>
    BY <1>2, <1>6 DEF Goto, WaitFor, CheckFlags
  <2>2. TypeOK'
    BY <1>1, <1>4, <2>1 DEF TypeOK, RestTypeOK, Locations
  <2>3. ServesWhere'
    BY <1>1, <2>1 DEF ServesWhere, Transfers, Erases, EraseCommands, TypeOK
  <2>4. InStep' /\ EndMeansAllMoved'
    BY <1>1, <1>3, <2>1, SdTransferAssumption DEF InStep, EndMeansAllMoved
  <2>5. moved = Count(req) \/ (req.op = "write" /\ card.state = "rcv")
    <3>1. CASE "DATAEND" \in sta
      BY <1>1, <3>1 DEF EndMeansAllMoved
    <3>2. CASE "DATAEND" \notin sta
      <4>1. req.op = "write"
        BY <1>1, <1>6, <3>2 DEF ExitFlags, ReadExitFlags, WriteExitFlags, FailureFlags,
                                ReadFailureFlags, WriteFailureFlags, AllFlags
      <4> QED
        BY <1>1, <1>6, <3>2, <4>1 DEF StuckInRcv
    <3> QED
      BY <3>1, <3>2
  <2>6. MovedHasArrived'
    BY <1>1, <1>2, <2>1 DEF MovedHasArrived, Arrived
  <2>7. StuckInRcv' /\ EraseInStep' /\ OkMeansCarriedOut'
    BY <1>1, <1>2, <2>1, <2>5 DEF StuckInRcv, EraseInStep, OkMeansCarriedOut
  <2> QED
    BY <2>2, <2>3, <2>4, <2>6, <2>7 DEF IInv
<1> QED
  BY <1>5, <1>6

LEMMA PollCardIInv ==
  ASSUME IInv, NEW st \in Statuses, PollCard(st)
  PROVE  IInv'
<1>1. /\ TypeOK /\ ServesWhere /\ InStep /\ EndMeansAllMoved /\ StuckInRcv
      /\ MovedHasArrived /\ EraseInStep
      /\ pc = "wait" /\ polls # 0
  BY DEF IInv, PollCard, InStep
<1>2. /\ CmdResp1Error("CMD13", 0, st) /\ UNCHANGED <<req, buf, rxArmed>>
      /\ polls' = IF pc' = "wait" THEN polls - 1 ELSE 0
      /\ caller' = IF pc' = "wait" THEN caller ELSE "done"
  BY DEF PollCard, PollsLeft
<1>3. mem' = mem /\ lost' = lost /\ card'.state = card.state
  <2>1. /\ "CMD13" # "CMD38" => mem' = mem /\ lost' = lost
        /\ "CMD13" = "CMD13" => card'.state = card.state /\ card'.at = card.at
    BY <1>1, <1>2, ExchangeType, ZeroIsABlock, Zenon
  <2> QED
    BY <2>1
<1>4. /\ req \in Request /\ result = "none" /\ MaxPolls \in Nat /\ polls \in 0 .. MaxPolls
      /\ caller \in {"write", "stop", "done", "abort", "erase"}
  BY <1>1, SdTransferAssumption DEF TypeOK, ServesWhere
<1>5. ASSUME sta' \subseteq sta
      PROVE  RestTypeOK'
  <2>1. polls' \in 0 .. MaxPolls
    BY <1>1, <1>2, <1>4
  <2>2. sta' \subseteq AllFlags /\ rxArmed' \in BOOLEAN
        /\ caller' \in {"write", "stop", "done", "abort", "erase"}
    BY <1>1, <1>2, <1>4, <1>5 DEF TypeOK
  <2> QED
    BY <1>1, <1>2, <2>1, <2>2, ExchangeType, ZeroIsABlock DEF RestTypeOK
<1>6. caller # "stop" => "DATAEND" \notin sta
  BY <1>1 DEF EndMeansAllMoved
<1>7. CASE WaitEnds("err")
  <2>1. Return("err") /\ sta' = IF caller = "stop" THEN sta \ DataFlags ELSE sta
    BY <1>4, <1>7 DEF WaitEnds
  <2> QED
    BY <1>1, <1>2, <1>5, <1>6, <2>1, ReturnErrIInv DEF DataFlags, AllFlags
<1>8. CASE Goto("wait") /\ UNCHANGED sta /\ polls # 1
  <2>1. /\ UNCHANGED <<pc, caller, req, buf, result, attempts, moved, sta>>
        /\ pc' = "wait" /\ polls' # 0
    BY <1>1, <1>2, <1>4, <1>8 DEF Goto
  <2>2. TypeOK'
    BY <1>1, <1>5, <2>1 DEF TypeOK, RestTypeOK
  <2>3. ServesWhere' /\ InStep' /\ EndMeansAllMoved'
    BY <1>1, <2>1
    DEF ServesWhere, InStep, EndMeansAllMoved, Transfers, Erases, EraseCommands
  <2>4. MovedHasArrived'
    BY <1>1, <1>3, <2>1 DEF MovedHasArrived, Arrived
  <2>5. StuckInRcv' /\ EraseInStep' /\ OkMeansCarriedOut'
    BY <1>1, <1>3, <1>4, <2>1 DEF StuckInRcv, EraseInStep, OkMeansCarriedOut
  <2> QED
    BY <2>2, <2>3, <2>4, <2>5 DEF IInv
<1>9. CASE WaitEnds("ok") /\ card.state = "tran"
  <2>1. UNCHANGED sta
    BY <1>4, <1>9 DEF WaitEnds
  <2>2. CASE caller # "done"
    <3>1. /\ \/ caller = "write" /\ pc' = "command"
             \/ caller = "stop" /\ pc' = "flags"
             \/ caller = "abort" /\ pc' = "class"
             \/ caller = "erase" /\ pc' = "CMD32"
          /\ UNCHANGED <<req, buf, result, attempts, moved, sta>>
      BY <1>2, <1>4, <1>9, <2>1, <2>2 DEF WaitEnds, Goto
    <3>2. TypeOK'
      BY <1>1, <1>5, <3>1 DEF TypeOK, RestTypeOK, Locations, EraseCommands
    <3>3. ServesWhere'
      BY <1>1, <1>4, <3>1 DEF ServesWhere, Transfers, Erases, EraseCommands
    <3>4. "DATAEND" \in ExitFlags(req.op)
      BY DEF ExitFlags, ReadExitFlags, WriteExitFlags, AllFlags
    <3>5. InStep' /\ EndMeansAllMoved'
      BY <1>1, <3>1, <3>4 DEF InStep, EndMeansAllMoved
    <3>6. MovedHasArrived'
      BY <1>1, <1>3, <3>1 DEF MovedHasArrived, Arrived
    <3>7. caller = "stop" => "DATAEND" \in sta
      BY <1>1 DEF InStep
    <3>8. StuckInRcv' /\ EraseInStep' /\ OkMeansCarriedOut'
      BY <1>4, <3>1, <3>7 DEF StuckInRcv, EraseInStep, OkMeansCarriedOut
    <3> QED
      BY <3>2, <3>3, <3>5, <3>6, <3>8 DEF IInv
  <2>3. CASE caller = "done"
    <3>1. /\ pc' = "idle" /\ result' = "ok" /\ attempts' = 0 /\ moved' = 0
      BY <1>9, <2>3 DEF WaitEnds, Return
    <3>2. TypeOK'
      <4>1. attempts' \in 0 .. (ReadAttempts + WriteAttempts) /\ moved' \in 0 .. MaxCount
        BY <3>1, SdTransferAssumption, SdBlocksAssumption
      <4> QED
        BY <1>1, <1>2, <1>5, <2>1, <3>1, <4>1 DEF TypeOK, RestTypeOK, Locations
    <3>3. ServesWhere'
      BY <3>1 DEF ServesWhere, Transfers, Erases, EraseCommands
    <3>4. InStep' /\ EndMeansAllMoved' /\ StuckInRcv' /\ MovedHasArrived' /\ EraseInStep'
      <4>1. req.op # "erase" => 0 <= Count(req)
        BY <1>4, RequestType
      <4> QED
        BY <1>2, <1>6, <2>1, <2>3, <3>1, <4>1
        DEF InStep, EndMeansAllMoved, StuckInRcv, MovedHasArrived, EraseInStep
    <3>5. \A b \in Extent(req) : Arrived(b)
      <4>1. CASE req.op = "erase"
        <5>1. \A b \in Extent(req) : mem[b] = Erased
          BY <1>1, <2>3, <4>1 DEF EraseInStep
        <5> QED
          BY <4>1, <5>1 DEF Arrived, Target
      <4>2. CASE req.op # "erase"
        <5>1. moved = Count(req)
          BY <1>1, <1>9, <2>3, <4>2 DEF StuckInRcv
        <5>2. /\ Extent(req) \subseteq Block /\ Extent(req) = req.start .. req.last
              /\ req.start \in Int /\ req.last \in Int
          BY <1>4, <4>2, RequestType, ExtentType DEF Block
        <5>3. \A b \in Block : req.start <= b /\ b < req.start + moved => Arrived(b)
          BY <1>1, <4>2 DEF MovedHasArrived
        <5>4. \A b \in Extent(req) : req.start <= b /\ b < req.start + moved
          BY <5>1, <5>2 DEF Count
        <5> QED
          BY <5>2, <5>3, <5>4
      <4> QED
        BY <4>1, <4>2
    <3>6. OkMeansCarriedOut'
      BY <1>2, <1>3, <3>5 DEF OkMeansCarriedOut, Arrived, Extent, Lo, Hi, Target, Piece
    <3> QED
      BY <3>2, <3>3, <3>4, <3>6 DEF IInv
  <2> QED
    BY <2>2, <2>3
<1> QED
  <2>1. CASE st \in {"timeout", "crc"}
    BY <1>7, <2>1 DEF PollCard
  <2>2. CASE Ready(st)
    <3>1. st = "ok" /\ card.state = "tran"
      BY <1>3, <2>2 DEF Ready
    <3>2. WaitEnds("ok")
      BY <2>2, <3>1 DEF PollCard
    <3> QED
      BY <1>9, <3>1, <3>2
  <2>3. CASE st \notin {"timeout", "crc"} /\ ~Ready(st)
    BY <1>7, <1>8, <2>3 DEF PollCard
  <2> QED
    BY <2>1, <2>2, <2>3

-----------------------------------------------------------------------------
(* The steps of an erase.                                                  *)

LEMMA PrepareForEraseIInv ==
  ASSUME IInv, NEW st \in Statuses, PrepareForErase(st)
  PROVE  IInv'
<1>1. /\ TypeOK /\ ServesWhere /\ EndMeansAllMoved /\ pc = "prepare" /\ req.op = "erase"
  BY DEF IInv, PrepareForErase, ServesWhere, Erases
<1>2. /\ CmdResp1Error("CMD13", 0, st)
      /\ UNCHANGED <<caller, req, polls, buf, sta, rxArmed>>
      /\ "DATAEND" \notin sta
  BY <1>1 DEF PrepareForErase, flags, EndMeansAllMoved
<1>3. RestTypeOK'
  BY <1>1, <1>2, ExchangeType, ZeroIsABlock DEF RestTypeOK, TypeOK
<1>4. CASE Return("err")
  BY <1>1, <1>2, <1>3, <1>4, ReturnErrIInv
<1>5. CASE Goto("class") \/ Goto("abort")
  <2>1. pc' \in {"class", "abort"} /\ UNCHANGED <<result, attempts, moved>>
    BY <1>5 DEF Goto
  <2>2. TypeOK'
    BY <1>1, <1>2, <1>3, <2>1 DEF TypeOK, RestTypeOK, Locations
  <2>3. ServesWhere'
    BY <1>1, <1>2, <2>1 DEF ServesWhere, Transfers, Erases, EraseCommands, TypeOK
  <2>4. InStep' /\ EndMeansAllMoved' /\ StuckInRcv' /\ MovedHasArrived' /\ EraseInStep'
        /\ OkMeansCarriedOut'
    BY <1>1, <1>2, <2>1
    DEF InStep, EndMeansAllMoved, StuckInRcv, MovedHasArrived, EraseInStep, OkMeansCarriedOut
  <2> QED
    BY <2>2, <2>3, <2>4 DEF IInv
<1> QED
  BY <1>4, <1>5 DEF PrepareForErase

LEMMA AbortTransmissionIInv ==
  ASSUME IInv, AbortTransmission
  PROVE  IInv'
<1>1. /\ TypeOK /\ ServesWhere /\ EndMeansAllMoved /\ pc = "abort" /\ req.op = "erase"
  BY DEF IInv, AbortTransmission, ServesWhere, Erases
<1>2. /\ UNCHANGED <<req, buf, sta, rxArmed, faults, clean>>
      /\ "DATAEND" \notin sta
      /\ pc' = "wait" /\ caller' = "abort" /\ polls' = MaxPolls
      /\ UNCHANGED <<result, attempts, moved>>
  BY <1>1 DEF AbortTransmission, flags, EndMeansAllMoved, WaitFor, Goto
<1>3. card' \in Card /\ mem' \in [Block -> Content] /\ lost' \subseteq Block
  <2>1. CASE Performs("CMD12", 0)
    BY <1>1, <2>1, PerformsType, ZeroIsABlock
  <2>2. CASE Ignores({"ILLEGAL"}) \/ Ignores({})
    BY <1>1, <2>2, IgnoresType DEF CardErrors, TypeOK
  <2> QED
    BY <2>1, <2>2 DEF AbortTransmission
<1>4. TypeOK'
  <2>1. polls' \in 0 .. MaxPolls
    BY <1>2, SdTransferAssumption
  <2> QED
    BY <1>1, <1>2, <1>3, <2>1 DEF TypeOK, Locations
<1>5. ServesWhere'
  BY <1>1, <1>2 DEF ServesWhere, Transfers, Erases, EraseCommands, TypeOK
<1>6. InStep' /\ EndMeansAllMoved' /\ StuckInRcv' /\ MovedHasArrived' /\ EraseInStep'
      /\ OkMeansCarriedOut'
  BY <1>1, <1>2, SdTransferAssumption
  DEF InStep, EndMeansAllMoved, StuckInRcv, MovedHasArrived, EraseInStep, OkMeansCarriedOut
<1> QED
  BY <1>4, <1>5, <1>6 DEF IInv

LEMMA CheckClassIInv ==
  ASSUME IInv, CheckClass
  PROVE  IInv'
<1>1. /\ TypeOK /\ ServesWhere /\ EndMeansAllMoved /\ pc = "class" /\ req.op = "erase"
  BY DEF IInv, CheckClass, ServesWhere, Erases
<1>2. /\ UNCHANGED <<req, buf, sta, card, mem, lost, faults, clean>>
      /\ rxArmed' = FALSE /\ "DATAEND" \notin sta
      /\ \/ WaitFor("erase")
         \/ Return("err") /\ UNCHANGED <<caller, polls>>
  BY <1>1 DEF CheckClass, card_and_faults, EndMeansAllMoved
<1>3. RestTypeOK'
  <2>1. polls' \in 0 .. MaxPolls
        /\ caller' \in {"write", "stop", "done", "abort", "erase"}
    BY <1>1, <1>2, SdTransferAssumption DEF WaitFor, TypeOK
  <2> QED
    BY <1>1, <1>2, <2>1 DEF TypeOK, RestTypeOK
<1>4. CASE Return("err")
  BY <1>1, <1>2, <1>3, <1>4, ReturnErrIInv
<1>5. CASE WaitFor("erase")
  <2>1. /\ pc' = "wait" /\ caller' = "erase" /\ polls' = MaxPolls
        /\ UNCHANGED <<result, attempts, moved>>
    BY <1>5 DEF WaitFor, Goto
  <2>2. TypeOK'
    BY <1>1, <1>2, <1>3, <2>1 DEF TypeOK, RestTypeOK, Locations
  <2>3. ServesWhere'
    BY <1>1, <1>2, <2>1 DEF ServesWhere, Transfers, Erases, EraseCommands, TypeOK
  <2>4. InStep' /\ EndMeansAllMoved' /\ StuckInRcv' /\ MovedHasArrived' /\ EraseInStep'
        /\ OkMeansCarriedOut'
    BY <1>1, <1>2, <2>1, SdTransferAssumption
    DEF InStep, EndMeansAllMoved, StuckInRcv, MovedHasArrived, EraseInStep, OkMeansCarriedOut
  <2> QED
    BY <2>2, <2>3, <2>4 DEF IInv
<1> QED
  BY <1>2, <1>4, <1>5

LEMMA SendEraseCommandIInv ==
  ASSUME IInv, NEW st \in Statuses, SendEraseCommand(st)
  PROVE  IInv'
<1>1. /\ TypeOK /\ ServesWhere /\ EndMeansAllMoved /\ EraseInStep
      /\ pc \in EraseCommands /\ pc \in {"CMD32", "CMD33", "CMD38"} /\ req.op = "erase"
      /\ req \in Request
  BY DEF IInv, SendEraseCommand, ServesWhere, Erases, TypeOK, EraseCommands
<1>2. /\ UNCHANGED <<req, buf, rxArmed>> /\ "DATAEND" \notin sta
      /\ CmdResp1Error(pc, EraseArgument(pc), st)
      /\ sta' \in {sta, sta \ DataFlags}
  BY <1>1 DEF SendEraseCommand, EndMeansAllMoved, EraseCommands
<1>3. EraseArgument(pc) \in Block
  BY <1>1, ExtentType, ZeroIsABlock DEF EraseArgument
<1>4. \/ st # "ok" /\ Return("err") /\ UNCHANGED <<caller, polls>>
      \/ st = "ok" /\ pc = "CMD32" /\ Goto("CMD33") /\ UNCHANGED <<caller, polls>>
      \/ st = "ok" /\ pc = "CMD33" /\ Goto("CMD38") /\ UNCHANGED <<caller, polls>>
      \/ st = "ok" /\ pc = "CMD38" /\ WaitFor("done")
  BY <1>1 DEF SendEraseCommand, NextErase
<1>5. RestTypeOK'
  <2>1. polls' \in 0 .. MaxPolls
        /\ caller' \in {"write", "stop", "done", "abort", "erase"}
    BY <1>1, <1>4, SdTransferAssumption DEF WaitFor, TypeOK
  <2>2. sta' \subseteq AllFlags /\ rxArmed' \in BOOLEAN
    BY <1>1, <1>2 DEF TypeOK
  <2> QED
    BY <1>1, <1>2, <1>3, <2>1, <2>2, ExchangeType DEF RestTypeOK
<1>6. CASE st # "ok" /\ Return("err")
  BY <1>1, <1>2, <1>5, <1>6, ReturnErrIInv DEF EraseCommands
<1>7. CASE st = "ok"
  <2>1. /\ card' = Executed(pc, EraseArgument(pc))
        /\ mem' = [b \in Block |-> IF b \in Cleared(pc) THEN Erased ELSE mem[b]]
    BY <1>1, <1>2, <1>3, <1>7, ExchangeType DEF Performs
  <2>2. /\ pc = "CMD32" => card'.lo = Lo(req)
        /\ pc = "CMD33" => card'.lo = card.lo /\ card'.hi = Hi(req)
    BY <1>1, <1>3, <2>1, ExecutedType DEF EraseArgument
  <2>3. /\ \/ pc = "CMD32" /\ pc' = "CMD33"
           \/ pc = "CMD33" /\ pc' = "CMD38"
           \/ pc = "CMD38" /\ pc' = "wait" /\ caller' = "done" /\ polls' = MaxPolls
        /\ UNCHANGED <<result, attempts, moved>>
    BY <1>4, <1>7 DEF Goto, WaitFor
  <2>4. TypeOK'
    BY <1>1, <1>2, <1>5, <2>3 DEF TypeOK, RestTypeOK, Locations, EraseCommands
  <2>5. ServesWhere'
    BY <1>1, <1>2, <2>3 DEF ServesWhere, Transfers, Erases, EraseCommands, TypeOK
  <2>6. EraseInStep'
    <3>1. CASE pc # "CMD38"
      BY <1>1, <1>2, <2>2, <2>3, <3>1 DEF EraseInStep, Lo, Hi
    <3>2. CASE pc = "CMD38"
      <4>1. Cleared(pc) = Extent(req) /\ Extent(req) \subseteq Block
        BY <1>1, <3>2, ExtentType DEF EraseInStep, Cleared
      <4>2. \A b \in Extent(req) : mem'[b] = Erased
        BY <2>1, <4>1
      <4> QED
        BY <1>2, <2>3, <3>2, <4>2 DEF EraseInStep, Extent, Lo, Hi
    <3> QED
      BY <3>1, <3>2
  <2>7. InStep' /\ EndMeansAllMoved' /\ StuckInRcv' /\ MovedHasArrived' /\ OkMeansCarriedOut'
    BY <1>1, <1>2, <2>3, SdTransferAssumption
    DEF InStep, EndMeansAllMoved, StuckInRcv, MovedHasArrived, OkMeansCarriedOut
  <2> QED
    BY <2>4, <2>5, <2>6, <2>7 DEF IInv
<1> QED
  BY <1>4, <1>6, <1>7

-----------------------------------------------------------------------------
(* The card and the controller on their own, and steps of neither.         *)

LEMMA EnvironmentIInv ==
  ASSUME IInv, Environment
  PROVE  IInv'
<1>1. /\ TypeOK /\ ServesWhere /\ InStep /\ EndMeansAllMoved /\ StuckInRcv
      /\ MovedHasArrived /\ EraseInStep /\ OkMeansCarriedOut
  BY DEF IInv
<1>2. UNCHANGED <<pc, caller, req, attempts, polls, moved, buf, result,
                  mem, lost, faults, clean>>
  BY DEF Environment, CardProgrammed, CardSent, LateFlag, driver
<1>3. card' \in Card /\ card'.at = card.at /\ card'.lo = card.lo /\ card'.hi = card.hi
      /\ (card.state = "rcv" => card'.state = "rcv")
  <2>1. card \in Card
    BY <1>1 DEF TypeOK
  <2>2. UNCHANGED card \/ (card.state # "rcv" /\ card' = [card EXCEPT !.state = "tran"])
    BY DEF Environment, CardProgrammed, CardSent, LateFlag
  <2> QED
    BY <2>1, <2>2 DEF Card
<1>4. \/ UNCHANGED <<sta, rxArmed>>
      \/ /\ pc # "transfer" /\ rxArmed' = FALSE
         /\ \E f \in {"RXOVERR", "DTIMEOUT"} : sta' = sta \cup {f}
  BY DEF Environment, CardProgrammed, CardSent, LateFlag, flags
<1>5. /\ sta \subseteq sta' /\ sta' \subseteq AllFlags
      /\ "DATAEND" \in sta' <=> "DATAEND" \in sta
  BY <1>1, <1>4 DEF AllFlags, TypeOK
<1>6. TypeOK'
  BY <1>1, <1>2, <1>3, <1>4, <1>5 DEF TypeOK
<1>7. ServesWhere' /\ InStep' /\ EndMeansAllMoved'
  BY <1>1, <1>2, <1>3, <1>5
  DEF ServesWhere, InStep, EndMeansAllMoved, Transfers, Erases, EraseCommands
<1>8. StuckInRcv' /\ EraseInStep'
  BY <1>1, <1>2, <1>3, <1>5 DEF StuckInRcv, EraseInStep
<1>9. MovedHasArrived' /\ OkMeansCarriedOut'
  BY <1>1, <1>2
  DEF MovedHasArrived, OkMeansCarriedOut, Arrived, Extent, Lo, Hi, Target, Piece
<1> QED
  BY <1>6, <1>7, <1>8, <1>9 DEF IInv

LEMMA StutterIInv ==
  ASSUME IInv, UNCHANGED vars
  PROVE  IInv'
BY DEF IInv, vars, driver, TypeOK, ServesWhere, InStep, EndMeansAllMoved, StuckInRcv,
       MovedHasArrived, EraseInStep, OkMeansCarriedOut, Arrived, Target, Piece,
       Transfers, Erases, EraseCommands, Extent, Lo, Hi

LEMMA NextIInv ==
  ASSUME IInv, [Next]_vars
  PROVE  IInv'
<1>1. ASSUME NEW r \in Request, Submit(r) PROVE IInv'
  BY <1>1, SubmitIInv
<1>2. ASSUME Exchange PROVE IInv'
  <2>1. PICK st \in Statuses :
          \/ SendTransferCommand(st) \/ StopTransmission(st) \/ PollCard(st)
          \/ PrepareForErase(st) \/ SendEraseCommand(st)
    BY <1>2 DEF Exchange
  <2> QED
    BY <2>1, SendTransferCommandIInv, StopTransmissionIInv, PollCardIInv,
       PrepareForEraseIInv, SendEraseCommandIInv
<1>3. ASSUME Step PROVE IInv'
  BY <1>3, AttemptIInv, EndOfLoopIInv, CheckFlagsIInv, AbortTransmissionIInv, CheckClassIInv
  DEF Step
<1>4. ASSUME DataPhase PROVE IInv'
  BY <1>4, ReceiveBlockIInv, SendBlockIInv, DataFaultIInv DEF DataPhase
<1> QED
  BY <1>1, <1>2, <1>3, <1>4, EnvironmentIInv, StutterIInv DEF Next

THEOREM Invariance == Spec => []IInv
BY InitIInv, NextIInv, PTL DEF Spec

-----------------------------------------------------------------------------
(* The driver, the controller and the card keep their types; in particular *)
(* no attempt and no poll beyond the limits of the code is ever made.      *)
THEOREM TypeCorrect == Spec => []TypeOK
<1>1. IInv => TypeOK
  BY DEF IInv
<1> QED
  BY Invariance, <1>1, PTL

(* DATAEND stands for the transfer in progress, complete to its last       *)
(* block: no transfer ends on the flag of another.                         *)
THEOREM EndIsNeverStale == Spec => []EndMeansAllMoved
<1>1. IInv => EndMeansAllMoved
  BY DEF IInv
<1> QED
  BY Invariance, <1>1, PTL

(* Whatever the bus and the card do, a request that was answered "ok" has  *)
(* been carried out on every block of it, short of the blocks that the     *)
(* card failed to program.                                                 *)
THEOREM OkIsCarriedOut == Spec => []OkMeansCarriedOut
<1>1. IInv => OkMeansCarriedOut
  BY DEF IInv
<1> QED
  BY Invariance, <1>1, PTL

-----------------------------------------------------------------------------
(* 2. The refinement.                                                      *)

(* A step of BlockDevice, or a stutter.                                    *)
Simulates == BD!Next \/ UNCHANGED BD!vars

(* BlockDevice speaks of the same blocks and requests.                     *)
LEMMA SameVocabulary ==
  /\ BD!Block = Block
  /\ BD!Request = Request
  /\ \A r : BD!Extent(r) = Extent(r)
  /\ \A r, b : BD!Target(r, b) = Target(r, b)
<1>1. BD!Block = Block
  BY DEF Block, BD!Block
<1>2. BD!Request = Request
  BY <1>1 DEF Request, BD!Request, AnyValue, BD!AnyValue
<1>3. \A r : BD!Extent(r) = Extent(r)
  BY DEF Extent, BD!Extent, Lo, Hi, BD!Lo, BD!Hi
<1>4. \A r, b : BD!Target(r, b) = Target(r, b)
  BY DEF Target, BD!Target, Piece, BD!Piece
<1> QED
  BY <1>1, <1>2, <1>3, <1>4

LEMMA InitRefines == Init => BD!Init
BY SameVocabulary DEF Init, BD!Init, Phase, EmptyBuffer, BD!EmptyBuffer

(* What a function of the driver does to the answer when it returns.       *)
LEMMA ReturnFacts ==
  ASSUME NEW st, Return(st)
  PROVE  \/ pc' = "attempt" /\ result' = result
         \/ pc' = "idle" /\ result' = st
BY DEF Return, Goto

LEMMA GotoFacts ==
  ASSUME NEW label, Goto(label)
  PROVE  pc' = label /\ result' = result
BY DEF Goto

(* Steps that move no data: the request goes on or is answered.            *)
LEMMA QuietRefines ==
  ASSUME IInv, IInv', pc # "idle", UNCHANGED <<req, mem, buf, lost>>,
         \/ pc' # "idle" /\ result' = result
         \/ pc' = "idle" /\ result' \in {"ok", "err"}
  PROVE  Simulates
<1>1. CASE pc' # "idle" /\ result' = result
  BY <1>1 DEF Simulates, BD!vars, Phase
<1>2. CASE pc' = "idle" /\ result' = "ok"
  <2>1. OkMeansCarriedOut'
    BY DEF IInv
  <2>2. BD!CarriedOut
    <3>1. /\ result' = "ok" /\ pc' = "idle"
          /\ req' = req /\ buf' = buf /\ mem' = mem /\ lost' = lost
      BY <1>2
    <3>2. \A b \in Extent(req) :
            IF req.op = "read" THEN buf[b - req.start] = mem[b]
                               ELSE mem[b] = Target(req, b) \/ b \in lost
      BY <2>1, <3>1 DEF OkMeansCarriedOut, Extent, Lo, Hi, Target, Piece
    <3> QED
      BY <3>2, SameVocabulary DEF BD!CarriedOut
  <2>3. BD!Succeed
    BY <1>2, <2>2 DEF BD!Succeed, Phase
  <2> QED
    BY <2>3 DEF Simulates, BD!Next
<1>3. CASE pc' = "idle" /\ result' = "err"
  <2>1. BD!Fail
    BY <1>3 DEF BD!Fail, Phase
  <2> QED
    BY <2>1 DEF Simulates, BD!Next
<1> QED
  BY <1>1, <1>2, <1>3

(* Any command but CMD38 leaves the blocks of the card alone.              *)
LEMMA ExchangeKeeps ==
  ASSUME IInv, NEW cmd, cmd # "CMD38", NEW arg \in Block, NEW st, CmdResp1Error(cmd, arg, st)
  PROVE  UNCHANGED <<mem, lost>>
BY ExchangeType DEF IInv

LEMMA SubmitRefines ==
  ASSUME NEW r \in Request, Submit(r)
  PROVE  Simulates
<1>1. BD!Submit(r)
  BY DEF Submit, BD!Submit, Phase, EmptyBuffer, BD!EmptyBuffer
<1> QED
  BY <1>1, SameVocabulary DEF Simulates, BD!Next

LEMMA StepRefines ==
  ASSUME IInv, IInv', Step
  PROVE  Simulates
<1> USE QuietRefines
<1>1. CASE Attempt
  BY <1>1 DEF Attempt
<1>2. CASE EndOfLoop
  BY <1>2 DEF EndOfLoop, Goto, card_and_faults
<1>3. CASE CheckFlags
  BY <1>3, ReturnFacts DEF CheckFlags, WaitFor, Goto, card_and_faults
<1>4. CASE AbortTransmission
  <2>1. TypeOK /\ 0 \in Block
    BY ZeroIsABlock DEF IInv
  <2>2. UNCHANGED <<mem, lost>>
    <3>1. CASE Performs("CMD12", 0)
      BY <2>1, <3>1, PerformsType
    <3>2. CASE Ignores({"ILLEGAL"}) \/ Ignores({})
      BY <3>2 DEF Ignores
    <3> QED
      BY <1>4, <3>1, <3>2 DEF AbortTransmission
  <2> QED
    BY <1>4, <2>2 DEF AbortTransmission, WaitFor, Goto
<1>5. CASE CheckClass
  BY <1>5, ReturnFacts DEF CheckClass, WaitFor, Goto, card_and_faults
<1> QED
  BY <1>1, <1>2, <1>3, <1>4, <1>5 DEF Step

(* CMD38 erases the extent of the request, whether or not its answer       *)
(* arrives; a request that fails over it has been carried out for all that. *)
LEMMA SendEraseCommandRefines ==
  ASSUME IInv, IInv', NEW st \in Statuses, SendEraseCommand(st)
  PROVE  Simulates
<1>1. /\ pc \in EraseCommands /\ pc # "idle" /\ req.op = "erase" /\ req \in Request
      /\ UNCHANGED <<req, buf>>
      /\ CmdResp1Error(pc, EraseArgument(pc), st)
      /\ mem \in [Block -> Content] /\ lost \subseteq Block
  BY DEF SendEraseCommand, IInv, ServesWhere, Erases, EraseCommands, TypeOK
<1>2. EraseArgument(pc) \in Block
  BY <1>1, ExtentType, ZeroIsABlock DEF EraseArgument
<1>3. \/ pc' # "idle" /\ result' = result
      \/ pc' = "idle" /\ result' = "err"
  BY ReturnFacts DEF SendEraseCommand, WaitFor, Goto, NextErase
<1>4. CASE UNCHANGED <<mem, lost>>
  BY <1>1, <1>3, <1>4, QuietRefines
<1>5. CASE ~UNCHANGED <<mem, lost>>
  <2>1. pc = "CMD38"
    BY <1>1, <1>2, <1>5, ExchangeKeeps
  <2>2. Performs("CMD38", EraseArgument(pc))
    BY <1>1, <1>5, <2>1 DEF CmdResp1Error, Ignores
  <2>3. Cleared("CMD38") = Extent(req) /\ Extent(req) \subseteq Block
    BY <1>1, <2>1, ExtentType DEF Cleared, IInv, EraseInStep
  <2>4. /\ mem' = [b \in Block |-> IF b \in Extent(req) THEN Target(req, b) ELSE mem[b]]
        /\ lost' = lost \ Extent(req)
    BY <1>1, <2>2, <2>3 DEF Performs, Target
  <2>5. BD!Apply(Extent(req))
    BY <1>1, <2>4, SameVocabulary DEF BD!Apply
  <2>6. CASE pc' # "idle" /\ result' = result
    <3>1. BD!Store(Extent(req))
      BY <1>1, <2>5, <2>6 DEF BD!Store, Phase
    <3> QED
      BY <3>1, SameVocabulary DEF Simulates, BD!Next
  <2>7. CASE pc' = "idle" /\ result' = "err"
    <3>1. BD!Fail
      BY <1>1, <2>5, <2>7, SameVocabulary DEF BD!Fail, Phase
    <3> QED
      BY <3>1 DEF Simulates, BD!Next
  <2> QED
    BY <1>3, <2>6, <2>7
<1> QED
  BY <1>4, <1>5

LEMMA ExchangeRefines ==
  ASSUME IInv, IInv', Exchange
  PROVE  Simulates
<1> USE QuietRefines
<1>1. ASSUME NEW st \in Statuses, SendTransferCommand(st)
      PROVE  Simulates
  <2>1. TransferCommand(req) # "CMD38" /\ req.start \in Block
    BY RequestType DEF TransferCommand, IInv, TypeOK
  <2>2. UNCHANGED <<mem, lost>>
    BY <1>1, <2>1, ExchangeKeeps DEF SendTransferCommand
  <2> QED
    BY <1>1, <2>2, ReturnFacts DEF SendTransferCommand, Goto
<1>2. ASSUME NEW st \in Statuses, StopTransmission(st)
      PROVE  Simulates
  <2>1. UNCHANGED <<mem, lost>>
    BY <1>2, ExchangeKeeps, ZeroIsABlock DEF StopTransmission
  <2>2. Goto("flags") \/ WaitFor("stop") \/ Return("err")
    BY <1>2 DEF StopTransmission
  <2> QED
    BY <1>2, <2>1, <2>2, ReturnFacts DEF StopTransmission, WaitFor, Goto
<1>3. ASSUME NEW st \in Statuses, PollCard(st)
      PROVE  Simulates
  <2>1. UNCHANGED <<mem, lost>>
    BY <1>3, ExchangeKeeps, ZeroIsABlock DEF PollCard
  <2>2. WaitEnds("err") \/ WaitEnds("ok") \/ Goto("wait")
    BY <1>3 DEF PollCard
  <2>3. \/ \E label \in {"command", "flags", "class", "CMD32", "wait"} : Goto(label)
        \/ \E r \in {"ok", "err"} : Return(r)
    BY <2>2 DEF WaitEnds
  <2> QED
    BY <1>3, <2>1, <2>3, ReturnFacts DEF PollCard, Goto
<1>4. ASSUME NEW st \in Statuses, PrepareForErase(st)
      PROVE  Simulates
  <2>1. UNCHANGED <<mem, lost>>
    BY <1>4, ExchangeKeeps, ZeroIsABlock DEF PrepareForErase
  <2>2. Return("err") \/ Goto("class") \/ Goto("abort")
    BY <1>4 DEF PrepareForErase
  <2> QED
    BY <1>4, <2>1, <2>2, ReturnFacts DEF PrepareForErase, Goto
<1>5. ASSUME NEW st \in Statuses, SendEraseCommand(st)
      PROVE  Simulates
  BY <1>5, SendEraseCommandRefines
<1> QED
  BY <1>1, <1>2, <1>3, <1>4, <1>5 DEF Exchange

(* The blocks move one at a time.                                          *)
LEMMA MovingFacts ==
  ASSUME IInv, Polling
  PROVE  /\ pc = "transfer" /\ req.start + moved \in Extent(req)
         /\ card.at = req.start + moved
         /\ Extent(req) \subseteq Block
<1>1. /\ TypeOK /\ pc = "transfer" /\ req \in Request /\ req.op \in {"read", "write"}
      /\ req.start \in Nat /\ moved \in Nat /\ moved < Count(req)
      /\ card.at = req.start + moved
  BY PollingFacts
<1>2. req.last \in Int
  BY <1>1, RequestType, SdBlocksAssumption DEF Block
<1>3. Extent(req) = req.start .. req.last /\ Extent(req) \subseteq Block
  BY <1>1, ExtentType
<1> QED
  BY <1>1, <1>2, <1>3 DEF Count

LEMMA ReceiveBlockRefines ==
  ASSUME IInv, ReceiveBlock
  PROVE  Simulates
<1>1. Polling /\ req.op = "read"
  BY DEF ReceiveBlock
<1> DEFINE b == req.start + moved
<1>2. /\ pc = "transfer" /\ b \in Extent(req) /\ card.at = b
      /\ moved \in Nat /\ req.start \in Nat
  BY <1>1, MovingFacts, PollingFacts
<1>3. buf \in [0 .. (MaxCount - 1) -> Content] /\ MaxCount \in Nat
  BY SdBlocksAssumption DEF IInv, TypeOK
<1>4. buf' = [i \in DOMAIN buf |-> IF req.start + i \in {b} THEN mem[req.start + i] ELSE buf[i]]
  <2>1. buf' = [buf EXCEPT ![moved] = mem[b]] /\ DOMAIN buf = 0 .. (MaxCount - 1)
    BY <1>2, <1>3 DEF ReceiveBlock
  <2>2. \A i \in 0 .. (MaxCount - 1) : req.start + i \in {b} <=> i = moved
    BY <1>2, <1>3
  <2>3. buf' = [i \in 0 .. (MaxCount - 1) |-> IF i = moved THEN mem[b] ELSE buf[i]]
    BY <2>1, <1>2, <1>3
  <2> QED
    BY <2>1, <2>2, <2>3, <1>2
<1>5. BD!Fetch({b})
  BY <1>1, <1>2, <1>4, SameVocabulary DEF BD!Fetch, ReceiveBlock, Phase
<1> QED
  BY <1>2, <1>5, SameVocabulary DEF Simulates, BD!Next

LEMMA ProgrammedRefines ==
  ASSUME IInv, Polling, req.op = "write", Programmed, UNCHANGED <<pc, req, buf, result>>
  PROVE  Simulates
<1> DEFINE b == req.start + moved
<1>1. pc = "transfer" /\ b \in Extent(req) /\ card.at = b /\ Extent(req) \subseteq Block
  BY MovingFacts
<1>2. mem \in [Block -> Content] /\ lost' = lost \ {b} /\ Target(req, b) = Piece(req.val, b)
  BY <1>1 DEF IInv, TypeOK, Programmed, Target
<1>3. mem' = [c \in Block |-> IF c \in {b} THEN Target(req, c) ELSE mem[c]]
  BY <1>1, <1>2 DEF Programmed
<1>4. BD!Store({b})
  BY <1>1, <1>2, <1>3, SameVocabulary DEF BD!Store, BD!Apply, Phase
<1> QED
  BY <1>1, <1>4, SameVocabulary DEF Simulates, BD!Next

LEMMA SendBlockRefines ==
  ASSUME IInv, SendBlock
  PROVE  Simulates
<1> DEFINE b == req.start + moved
<1>1. Polling /\ req.op = "write" /\ UNCHANGED <<pc, req, buf, result>>
      /\ (Programmed \/ NotProgrammed)
  BY DEF SendBlock
<1>2. CASE NotProgrammed
  <2>1. pc = "transfer" /\ b \in Extent(req) /\ card.at = b
    BY <1>1, MovingFacts
  <2>2. BD!Lose({b})
    BY <1>1, <1>2, <2>1, SameVocabulary DEF BD!Lose, NotProgrammed, Phase
  <2> QED
    BY <2>1, <2>2, SameVocabulary DEF Simulates, BD!Next
<1> QED
  BY <1>1, <1>2, ProgrammedRefines

LEMMA DataFaultRefines ==
  ASSUME IInv, NEW f \in AllFlags, DataFault(f)
  PROVE  Simulates
<1>1. Polling /\ UNCHANGED <<pc, req, buf, result>>
  BY DEF DataFault, driver
<1>2. CASE UNCHANGED <<mem, lost>>
  BY <1>1, <1>2 DEF Simulates, BD!vars, Phase
<1>3. CASE req.op = "write" /\ Programmed
  BY <1>1, <1>3, ProgrammedRefines
<1> QED
  BY <1>2, <1>3 DEF DataFault

LEMMA NextRefines ==
  ASSUME IInv, IInv', [Next]_vars
  PROVE  [BD!Next]_BD!vars
<1> SUFFICES Simulates
  BY DEF Simulates
<1>1. ASSUME NEW r \in Request, Submit(r)
      PROVE  Simulates
  BY <1>1, SubmitRefines
<1>2. CASE DataPhase
  BY <1>2, ReceiveBlockRefines, SendBlockRefines, DataFaultRefines DEF DataPhase
<1>3. CASE Environment
  BY <1>3 DEF Environment, CardProgrammed, CardSent, LateFlag, driver, Simulates, BD!vars, Phase
<1>4. CASE UNCHANGED vars
  BY <1>4 DEF vars, driver, Simulates, BD!vars, Phase
<1>5. CASE Exchange \/ Step
  BY <1>5, ExchangeRefines, StepRefines
<1> QED
  BY <1>1, <1>2, <1>3, <1>4, <1>5 DEF Next

(* The driver implements the abstract block device, whatever the numbers   *)
(* of blocks, attempts, polls and faults: what BlockAdapter relies on when *)
(* it calls read_safe_sd, write_safe_sd and erase_sd (sd_fat32.c:116-188). *)
THEOREM Refinement == Spec => ImplementsBlockDevice
<1>1. Init => BD!Init
  BY InitRefines
<1>2. IInv /\ IInv' /\ [Next]_vars => [BD!Next]_BD!vars
  BY NextRefines
<1>3. Spec => []IInv
  BY Invariance
<1> QED
  BY <1>1, <1>2, <1>3, PTL DEF Spec, ImplementsBlockDevice, BD!Spec

-----------------------------------------------------------------------------
(* 3. A success is clean.                                                  *)

(* From a command that was executed to the end of the request.             *)
Serving == pc \in {"transfer", "stop", "flags"} \/ (pc = "wait" /\ caller \in {"stop", "done"})

NoEraseBegun == Serving => card.erase = "none"

EndDisarms == "DATAEND" \in sta => ~rxArmed

EndOfWriteIsNotStale == "DATAEND" \in sta /\ req.op = "write" => "STBITERR" \notin sta

NotArmed ==
  /\ Serving /\ req.op = "write" => ~rxArmed
  /\ pc \in EraseCommands \/ (pc = "wait" /\ caller \in {"erase", "done"}) => ~rxArmed

FlagsCleared ==
  pc = "wait" /\ caller = "done" =>
    \/ req.op = "erase" /\ sta \subseteq {"STBITERR"}
    \/ req.op # "erase" /\ sta = {}
    \/ req.op = "write" /\ card.state = "rcv"

QInv ==
  /\ NoEraseBegun
  /\ EndDisarms
  /\ EndOfWriteIsNotStale
  /\ NotArmed
  /\ FlagsCleared
  /\ SuccessLeavesNothingPending

LEMMA InitQInv == Init => QInv
BY DEF Init, QInv, Serving, NoEraseBegun, EndDisarms, EndOfWriteIsNotStale, NotArmed,
       EraseCommands, FlagsCleared, SuccessLeavesNothingPending

(* Where nothing is served and no flag of an earlier transfer is left, all *)
(* of it holds.                                                            *)
LEMMA NotServing ==
  ASSUME "DATAEND" \notin sta', pc' \in {"idle", "attempt", "command", "prepare", "abort", "class"}
                                \/ (pc' = "wait" /\ caller' \in {"write", "abort"}),
         pc' = "idle" => result' # "ok"
  PROVE  QInv'
BY DEF QInv, Serving, NoEraseBegun, EndDisarms, EndOfWriteIsNotStale, NotArmed,
       EraseCommands, FlagsCleared, SuccessLeavesNothingPending

LEMMA ReturnErrQInv ==
  ASSUME IInv, pc # "idle", Return("err"), "DATAEND" \notin sta'
  PROVE  QInv'
<1>1. (pc' = "idle" /\ result' = "err") \/ pc' = "attempt"
  BY DEF Return, Goto
<1> QED
  BY <1>1, NotServing

(* An erase sequence is begun by CMD32 and CMD33 only; an exchange that    *)
(* executes any other command but CMD13 ends it.                           *)
LEMMA EraseFacts ==
  ASSUME IInv, NEW cmd, cmd \notin {"CMD32", "CMD33"}, NEW arg \in Block, NEW st,
         CmdResp1Error(cmd, arg, st)
  PROVE  /\ card.erase = "none" => card'.erase = "none"
         /\ st = "ok" /\ cmd # "CMD13" => card'.erase = "none"
         /\ st = "ok" => card'.err = {}
<1> DEFINE c == [card EXCEPT !.err = {},
                             !.erase = IF Interrupts(cmd) THEN "none" ELSE @]
<1>1. card \in Card
  BY DEF IInv, TypeOK
<1>2. CASE Performs(cmd, arg)
  <2>1. c.err = {} /\ c.erase = IF Interrupts(cmd) THEN "none" ELSE card.erase
    BY <1>1 DEF Card
  <2>2. cmd = "CMD38" => Executed(cmd, arg).erase = "none" /\ Executed(cmd, arg).err = {}
    BY <1>1 DEF Card, Executed
  <2>3. cmd # "CMD38" => Executed(cmd, arg).erase = c.erase /\ Executed(cmd, arg).err = {}
    BY <1>1, <2>1 DEF Card, Executed
  <2>4. cmd \notin {"CMD13", "CMD38"} => c.erase = "none"
    BY <2>1, <1>1 DEF Interrupts, EraseCommands
  <2> QED
    BY <1>2, <2>1, <2>2, <2>3, <2>4 DEF Performs
<1>3. CASE ~Performs(cmd, arg)
  BY <1>1, <1>3 DEF CmdResp1Error, Ignores, Card
<1> QED
  BY <1>2, <1>3

LEMMA StepQInv ==
  ASSUME IInv, QInv, Step
  PROVE  QInv'
<1> USE DEF QInv, Serving, NoEraseBegun, EndDisarms, EndOfWriteIsNotStale, NotArmed, EraseCommands,
            FlagsCleared, SuccessLeavesNothingPending
<1>0. EndMeansAllMoved /\ ServesWhere /\ TypeOK
  BY DEF IInv
<1>1. CASE Attempt
  <2>1. "DATAEND" \notin sta'
    BY <1>0, <1>1 DEF Attempt, EndMeansAllMoved
  <2>2. (pc' = "wait" /\ caller' = "write") \/ pc' = "command"
    BY <1>1 DEF Attempt
  <2> QED
    BY <2>1, <2>2, NotServing
<1>2. CASE EndOfLoop
  BY <1>0, <1>2 DEF EndOfLoop, Goto, card_and_faults, flags
<1>3. CASE CheckFlags
  <2>1. /\ pc = "flags" /\ sta' = sta \ DataFlags /\ "DATAEND" \in DataFlags
        /\ UNCHANGED <<req, rxArmed, card>> /\ sta \subseteq AllFlags
    BY <1>0, <1>3 DEF CheckFlags, card_and_faults, DataFlags, AllFlags, TypeOK
  <2>2. CASE sta \cap FailureFlags(req.op) # {}
    BY <1>3, <2>1, <2>2, ReturnErrQInv DEF CheckFlags
  <2>3. CASE sta \cap FailureFlags(req.op) = {}
    <3>1. pc' = "wait" /\ caller' = "done"
      BY <1>3, <2>3 DEF CheckFlags, WaitFor, Goto
    <3>2. sta \cap ExitFlags(req.op) # {} /\ req \in Request /\ req.op # "erase"
      BY <1>0, <2>1 DEF IInv, InStep, TypeOK, ServesWhere, Transfers
    <3>3. req.op = "read" => "DATAEND" \in sta /\ sta' = {}
      BY <2>1, <2>3, <3>2 DEF FailureFlags, ReadFailureFlags, ExitFlags, ReadExitFlags, DataFlags, AllFlags
    <3>4. req.op = "write" => sta' = {} \/ card.state = "rcv"
      <4>1. SUFFICES ASSUME req.op = "write" PROVE sta' = {} \/ card.state = "rcv"
        OBVIOUS
      <4>2. CASE "DATAEND" \in sta
        BY <2>1, <4>1, <4>2 DEF DataFlags, AllFlags
      <4>3. CASE "DATAEND" \notin sta
        BY <2>1, <2>3, <4>1, <4>3 DEF IInv, StuckInRcv, FailureFlags, WriteFailureFlags
      <4> QED
        BY <4>2, <4>3
    <3>5. req.op \in {"read", "write"}
      BY <3>2, RequestType
    <3>6. "DATAEND" \notin sta' /\ card.erase = "none" /\ ~rxArmed
      BY <2>1, <3>2, <3>3, <3>5
    <3> QED
      BY <2>1, <3>1, <3>3, <3>4, <3>5, <3>6
  <2> QED
    BY <2>2, <2>3
<1>4. CASE AbortTransmission
  <2>1. "DATAEND" \notin sta' /\ pc' = "wait" /\ caller' = "abort"
    BY <1>0, <1>4 DEF AbortTransmission, EndMeansAllMoved, WaitFor, Goto, flags
  <2> QED
    BY <2>1, NotServing
<1>5. CASE CheckClass
  <2>1. "DATAEND" \notin sta' /\ ~rxArmed' /\ pc = "class"
    BY <1>0, <1>5 DEF CheckClass, EndMeansAllMoved
  <2>2. (pc' = "wait" /\ caller' = "erase") \/ Return("err")
    BY <1>5 DEF CheckClass, WaitFor, Goto
  <2> QED
    BY <2>1, <2>2, ReturnErrQInv
<1> QED
  BY <1>1, <1>2, <1>3, <1>4, <1>5 DEF Step

LEMMA DataPhaseQInv ==
  ASSUME IInv, QInv, DataPhase
  PROVE  QInv'
<1> USE DEF QInv, Serving, NoEraseBegun, EndDisarms, EndOfWriteIsNotStale, NotArmed, EraseCommands,
            FlagsCleared, SuccessLeavesNothingPending
<1>1. Polling /\ pc = "transfer" /\ "DATAEND" \notin sta /\ card \in Card
  BY PollingFacts DEF DataPhase, ReceiveBlock, SendBlock, DataFault, IInv, TypeOK
<1>2. CASE ReceiveBlock
  <2>1. /\ req.op = "read" /\ UNCHANGED <<pc, caller, req>> /\ card'.erase = card.erase
        /\ sta' = (IF LastBlock THEN sta \cup {"DATAEND"} ELSE sta)
        /\ rxArmed' = (rxArmed /\ ~LastBlock)
    BY <1>1, <1>2 DEF ReceiveBlock, Card
  <2> QED
    BY <1>1, <2>1
<1>3. CASE SendBlock
  <2>1. /\ req.op = "write" /\ UNCHANGED <<pc, caller, req, rxArmed>> /\ card'.erase = card.erase
        /\ sta' \subseteq sta \cup {"DATAEND"}
    BY <1>1, <1>3 DEF SendBlock, Card
  <2>2. "STBITERR" \notin sta
    BY <1>1, <2>1 DEF Polling, ExitFlags, WriteExitFlags
  <2> QED
    BY <1>1, <2>1, <2>2
<1>4. ASSUME NEW f \in AllFlags, DataFault(f)
      PROVE  QInv'
  <2>1. /\ UNCHANGED <<pc, caller, req>> /\ card'.erase = card.erase /\ ~rxArmed'
        /\ "DATAEND" \notin sta'
    BY <1>1, <1>4 DEF DataFault, driver, DataFaults, Card
  <2> QED
    BY <1>1, <2>1
<1> QED
  BY <1>2, <1>3, <1>4 DEF DataPhase

(* CMD13 asks and changes nothing else; what wait_card_ready learns from   *)
(* an answer without an error bit is so.                                   *)
LEMMA PollCardQInv ==
  ASSUME IInv, QInv, NEW st \in Statuses, PollCard(st)
  PROVE  QInv'
<1> USE DEF QInv, Serving, NoEraseBegun, EndDisarms, EndOfWriteIsNotStale, NotArmed, EraseCommands,
            FlagsCleared, SuccessLeavesNothingPending
<1>1. /\ pc = "wait" /\ CmdResp1Error("CMD13", 0, st) /\ UNCHANGED <<req, buf, rxArmed>>
      /\ caller' = IF pc' = "wait" THEN caller ELSE "done"
      /\ caller \in {"write", "stop", "done", "abort", "erase"}
      /\ sta \subseteq AllFlags
  BY DEF PollCard, IInv, TypeOK
<1>2. /\ card.erase = "none" => card'.erase = "none"
      /\ st = "ok" => card'.err = {}
      /\ card'.state = card.state
  BY <1>1, EraseFacts, ExchangeType, ZeroIsABlock DEF IInv
<1>3. CASE Goto("wait") /\ UNCHANGED sta
  <2>1. pc' = "wait" /\ caller' = caller /\ sta' = sta
    BY <1>1, <1>3 DEF Goto
  <2> QED
    BY <1>1, <1>2, <2>1
<1>4. CASE st = "ok" /\ card.state = "tran" /\ WaitEnds("ok")
  <2>1. CASE caller \in {"write", "stop", "abort", "erase"}
    <3>1. /\ caller = "write" => pc' = "command"
          /\ caller = "stop" => pc' = "flags"
          /\ caller = "abort" => pc' = "class"
          /\ caller = "erase" => pc' = "CMD32"
          /\ sta' = sta /\ result' = result
      BY <1>4, <2>1 DEF WaitEnds, Goto
    <3> QED
      BY <1>1, <1>2, <2>1, <3>1
  <2>2. CASE caller = "done"
    <3>1. pc' = "idle" /\ sta' = sta
      BY <1>4, <2>2 DEF WaitEnds, Return
    <3>2. "DATAEND" \notin sta
      BY <1>1, <2>2 DEF IInv, EndMeansAllMoved
    <3> QED
      BY <1>1, <1>2, <1>4, <2>2, <3>1, <3>2
  <2> QED
    BY <1>1, <2>1, <2>2
<1>5. CASE WaitEnds("err")
  <2>1. Return("err") /\ sta' \in {sta, sta \ DataFlags}
        /\ (caller = "stop" => sta' = sta \ DataFlags)
    BY <1>5, <1>1 DEF WaitEnds
  <2>2. "DATAEND" \notin sta'
    BY <1>1, <2>1 DEF IInv, EndMeansAllMoved, DataFlags, AllFlags
  <2> QED
    BY <1>1, <2>1, <2>2, ReturnErrQInv
<1> QED
  BY <1>3, <1>4, <1>5 DEF PollCard, Ready

LEMMA SendEraseCommandQInv ==
  ASSUME IInv, QInv, NEW st \in Statuses, SendEraseCommand(st)
  PROVE  QInv'
<1> USE DEF QInv, Serving, NoEraseBegun, EndDisarms, EndOfWriteIsNotStale, NotArmed, EraseCommands,
            FlagsCleared, SuccessLeavesNothingPending
<1>1. /\ pc \in {"CMD32", "CMD33", "CMD38"} /\ req.op = "erase" /\ req \in Request
      /\ UNCHANGED <<req, buf, rxArmed>> /\ "DATAEND" \notin sta /\ ~rxArmed
      /\ CmdResp1Error(pc, EraseArgument(pc), st)
      /\ sta \subseteq AllFlags /\ sta' \in {sta, sta \ DataFlags}
      /\ pc = "CMD38" => sta' = sta \ DataFlags
  BY DEF SendEraseCommand, IInv, TypeOK, ServesWhere, Erases, EndMeansAllMoved
<1>2. "DATAEND" \notin sta' /\ ~rxArmed'
  BY <1>1
<1>3. CASE Return("err")
  BY <1>1, <1>2, <1>3, ReturnErrQInv
<1>4. CASE pc' \in {"CMD33", "CMD38"}
  BY <1>1, <1>2, <1>4
<1>5. CASE st = "ok" /\ pc = "CMD38" /\ WaitFor("done")
  <2>1. pc' = "wait" /\ caller' = "done"
    BY <1>5 DEF WaitFor, Goto
  <2>2. EraseArgument("CMD38") \in Block
    BY ZeroIsABlock DEF EraseArgument
  <2>3. card'.erase = "none"
    BY <1>1, <1>5, <2>2, EraseFacts
  <2>4. sta' \subseteq {"STBITERR"}
    BY <1>1, <1>5 DEF AllFlags, DataFlags
  <2> QED
    BY <1>1, <1>2, <2>1, <2>3, <2>4
<1> QED
  BY <1>1, <1>3, <1>4, <1>5 DEF SendEraseCommand, Goto, NextErase

LEMMA ExchangeQInv ==
  ASSUME IInv, QInv, Exchange
  PROVE  QInv'
<1> USE DEF QInv, Serving, NoEraseBegun, EndDisarms, EndOfWriteIsNotStale, NotArmed, EraseCommands,
            FlagsCleared, SuccessLeavesNothingPending
<1>0. 0 \in Block /\ TypeOK /\ EndMeansAllMoved
  BY ZeroIsABlock DEF IInv
<1>1. ASSUME NEW st \in Statuses, SendTransferCommand(st)
      PROVE  QInv'
  <2>1. /\ pc = "command" /\ "DATAEND" \notin sta /\ sta' = sta /\ req' = req
        /\ rxArmed' = (req.op = "read" /\ (Multi(req) \/ st = "ok"))
        /\ req \in Request
    BY <1>0, <1>1 DEF SendTransferCommand, EndMeansAllMoved, TypeOK
  <2>2. CASE st = "ok"
    <3>1. TransferCommand(req) \in {"CMD17", "CMD18", "CMD24", "CMD25"} /\ req.start \in Block
      BY <2>1, RequestType DEF TransferCommand
    <3>2. card'.erase = "none"
      BY <1>1, <2>2, <3>1, EraseFacts DEF SendTransferCommand
    <3>3. pc' = "transfer"
      BY <1>1, <2>2 DEF SendTransferCommand, Goto
    <3> QED
      BY <2>1, <3>2, <3>3
  <2>3. CASE st # "ok"
    BY <1>1, <2>1, <2>3, ReturnErrQInv DEF SendTransferCommand
  <2> QED
    BY <2>2, <2>3
<1>2. ASSUME NEW st \in Statuses, StopTransmission(st)
      PROVE  QInv'
  <2>1. /\ pc = "stop" /\ UNCHANGED <<req, rxArmed>> /\ sta \subseteq AllFlags
        /\ CmdResp1Error("CMD12", 0, st)
    BY <1>0, <1>2 DEF StopTransmission, TypeOK
  <2>2. card'.erase = "none"
    BY <1>0, <2>1, EraseFacts
  <2>3. \/ pc' = "flags" /\ UNCHANGED sta
        \/ pc' = "wait" /\ caller' = "stop" /\ UNCHANGED sta
        \/ Return("err") /\ sta' = sta \ DataFlags
    BY <1>2 DEF StopTransmission, WaitFor, Goto
  <2>4. CASE Return("err") /\ sta' = sta \ DataFlags
    <3>1. "DATAEND" \notin sta'
      BY <2>4 DEF DataFlags, AllFlags
    <3> QED
      BY <2>1, <2>4, <3>1, ReturnErrQInv
  <2>5. CASE (pc' = "flags" \/ (pc' = "wait" /\ caller' = "stop")) /\ UNCHANGED sta
    BY <2>1, <2>2, <2>5
  <2> QED
    BY <2>3, <2>4, <2>5
<1>3. ASSUME NEW st \in Statuses, PrepareForErase(st)
      PROVE  QInv'
  <2>1. pc = "prepare" /\ "DATAEND" \notin sta'
    BY <1>0, <1>3 DEF PrepareForErase, EndMeansAllMoved, flags
  <2>2. Return("err") \/ pc' \in {"class", "abort"}
    BY <1>3 DEF PrepareForErase, Goto
  <2> QED
    BY <2>1, <2>2, NotServing, ReturnErrQInv
<1> QED
  BY <1>1, <1>2, <1>3, PollCardQInv, SendEraseCommandQInv DEF Exchange

LEMMA EnvironmentQInv ==
  ASSUME IInv, QInv, Environment
  PROVE  QInv'
<1> USE DEF QInv, Serving, NoEraseBegun, EndDisarms, EndOfWriteIsNotStale, NotArmed, EraseCommands,
            FlagsCleared, SuccessLeavesNothingPending
<1>1. card \in Card
  BY DEF IInv, TypeOK
<1>2. CASE CardProgrammed \/ CardSent
  <2>1. /\ UNCHANGED <<pc, caller, req, result, sta, rxArmed>>
        /\ card'.erase = card.erase /\ card.state \notin {"tran", "rcv"}
    BY <1>1, <1>2 DEF CardProgrammed, CardSent, driver, flags, Card
  <2> QED
    BY <2>1
<1>3. CASE LateFlag
  <2>1. UNCHANGED <<pc, caller, req, result, card>> /\ rxArmed /\ ~rxArmed'
    BY <1>3 DEF LateFlag, driver
  <2>2. "DATAEND" \notin sta'
    BY <1>3, <2>1 DEF LateFlag
  <2> QED
    BY <2>1, <2>2
<1> QED
  BY <1>2, <1>3 DEF Environment

LEMMA NextQInv ==
  ASSUME IInv, QInv, [Next]_vars
  PROVE  QInv'
<1>1. ASSUME NEW r \in Request, Submit(r)
      PROVE  QInv'
  <2>1. pc' \in {"prepare", "attempt"} /\ "DATAEND" \notin sta'
    BY <1>1 DEF Submit, IInv, EndMeansAllMoved, flags
  <2> QED
    BY <2>1, NotServing
<1>2. CASE UNCHANGED vars
  BY <1>2 DEF vars, driver, QInv, Serving, NoEraseBegun, EndDisarms, EndOfWriteIsNotStale, NotArmed,
     FlagsCleared, SuccessLeavesNothingPending
<1> QED
  BY <1>1, <1>2, ExchangeQInv, StepQInv, DataPhaseQInv, EnvironmentQInv DEF Next

(* A success leaves the bus as the next transfer needs it, whatever faults *)
(* and retries it took: nothing armed, latched, pending or half-given.     *)
THEOREM SuccessIsClean == Spec => []SuccessLeavesNothingPending
<1>1. Init => QInv
  BY InitQInv
<1>2. IInv /\ QInv /\ [Next]_vars => QInv'
  BY NextQInv
<1>3. Spec => []IInv
  BY Invariance
<1>4. QInv => SuccessLeavesNothingPending
  BY DEF QInv
<1> QED
  BY <1>1, <1>2, <1>3, <1>4, PTL DEF Spec

-----------------------------------------------------------------------------
(* 4. The retries suffice.                                                 *)

(* What the bus and the card look like while a request meets nothing but   *)
(* recoverable data faults.                                                *)
Recoverable == {"DCRCFAIL", "TXUNDERR", "RXOVERR"}

Broken == sta # {} /\ sta \subseteq Recoverable \cap DataFaults(req.op) /\ ~Multi(req)

Quiet == card.err = {} /\ result = "none" /\ (pc # "transfer" => ~rxArmed)

ReadyWhere ==
  pc \in {"attempt", "command", "prepare", "class"} \cup EraseCommands
    \/ (pc = "wait" /\ caller \in {"write", "erase"})
  => card.state = "tran" /\ sta = {}

NeverWhere == pc # "abort" /\ (pc = "wait" => caller \in {"write", "done", "erase"})

NoEraseWhere ==
  /\ req.op # "erase" \/ pc \in {"prepare", "class", "CMD32"}
       \/ (pc = "wait" /\ caller \in {"done", "erase"}) => card.erase = "none"
  /\ pc = "CMD33" => card.erase = "start"
  /\ pc = "CMD38" => card.erase = "both"

InData ==
  pc \in {"transfer", "stop"} =>
    /\ card.multi = Multi(req)
    /\ \/ sta = {} /\ card.state = (IF req.op = "read" THEN "data" ELSE "rcv")
       \/ sta = {"DATAEND"} /\ Multi(req) /\ card.state = (IF req.op = "read" THEN "data" ELSE "rcv")
       \/ sta = {"DATAEND"} /\ ~Multi(req) /\ (card.state = "tran" \/ (req.op = "write" /\ card.state = "prg"))
       \/ Broken /\ card.state = "tran"
    /\ pc = "stop" => Multi(req) /\ sta = {"DATAEND"}
    /\ sta # {} \/ req.op = "write" => ~rxArmed

AtTheEnd ==
  /\ pc = "flags" =>
       \/ sta = {"DATAEND"} /\ card.state \in {"tran", "prg"}
       \/ Broken /\ card.state = "tran"
  /\ pc = "wait" /\ caller = "done" => sta = {} /\ card.state \in {"tran", "prg"}

(* Every failed attempt has cost a fault.                                  *)
AttemptsSuffice ==
  req.op # "erase" =>
    /\ attempts >= faults
    /\ pc = "attempt" \/ (pc \in {"transfer", "flags"} /\ Broken) => attempts > faults

Fit == MaxFaults < ReadAttempts /\ MaxFaults < WriteAttempts

Good ==
  /\ Quiet /\ ReadyWhere /\ NeverWhere /\ NoEraseWhere
  /\ InData /\ AtTheEnd /\ AttemptsSuffice

(* What is to be shown of the state after a step.                          *)
Promised ==
  /\ pc # "idle" => Good
  /\ pc = "idle" => result # "err"

CInv == Fit /\ clean /\ (req.op = "erase" => CanErase) => Promised

(* Under these a command is answered as it should be.                      *)
LEMMA CleanExchange ==
  ASSUME TypeOK, card.err = {}, NEW cmd, NEW arg \in Block, NEW st, Legal(cmd), ~Interrupts(cmd),
         CmdResp1Error(cmd, arg, st), clean'
  PROVE  /\ st = "ok" /\ Performs(cmd, arg) /\ clean /\ ~GivesUp /\ faults' = faults
<1>1. ~Fault(FALSE)
  BY DEF Fault
<1>2. Reported(cmd) = {}
  BY DEF Reported
<1> QED
  BY <1>1, <1>2 DEF CmdResp1Error, NoFault, Status

(* What each command does to a card.                                       *)
LEMMA ExecutedFacts ==
  ASSUME TypeOK, NEW cmd, NEW arg \in Block, ~Interrupts(cmd), Performs(cmd, arg)
  PROVE  /\ card'.err = {}
         /\ cmd = "CMD13" => UNCHANGED <<card.state, card.multi, card.erase>>
         /\ cmd \in {"CMD17", "CMD18", "CMD24", "CMD25"} =>
              /\ card'.state = IF cmd \in {"CMD17", "CMD18"} THEN "data" ELSE "rcv"
              /\ cmd \in {"CMD18", "CMD25"} => card'.multi = TRUE
              /\ cmd \in {"CMD17", "CMD24"} => card'.multi = FALSE
              /\ card'.erase = card.erase
         /\ cmd = "CMD12" =>
              /\ card'.state = IF card.state = "rcv" THEN "prg" ELSE "tran"
              /\ card'.erase = card.erase
         /\ cmd = "CMD32" => card'.state = card.state /\ card'.erase = "start"
         /\ cmd = "CMD33" => card'.state = card.state /\ card'.erase = "both"
         /\ cmd = "CMD38" => card'.state = "prg" /\ card'.erase = "none"
<1>1. card \in Card /\ card' = Executed(cmd, arg)
  BY DEF TypeOK, Performs
<1> DEFINE c == [card EXCEPT !.err = {}]
<1>2. c \in Card /\ c.err = {} /\ c.state = card.state /\ c.multi = card.multi /\ c.erase = card.erase
  BY <1>1 DEF Card
<1>3. c = [card EXCEPT !.err = {}, !.erase = IF Interrupts(cmd) THEN "none" ELSE @]
  BY <1>1 DEF Card
<1> HIDE DEF c
<1>4. /\ cmd = "CMD17" => card' = [c EXCEPT !.state = "data", !.multi = FALSE, !.at = arg]
      /\ cmd = "CMD18" => card' = [c EXCEPT !.state = "data", !.multi = TRUE, !.at = arg]
      /\ cmd = "CMD24" => card' = [c EXCEPT !.state = "rcv", !.multi = FALSE, !.at = arg]
      /\ cmd = "CMD25" => card' = [c EXCEPT !.state = "rcv", !.multi = TRUE, !.at = arg]
      /\ cmd = "CMD12" => card' = [c EXCEPT !.state = IF @ = "rcv" THEN "prg" ELSE "tran", !.at = 0]
      /\ cmd = "CMD32" => card' = [c EXCEPT !.erase = "start", !.lo = arg]
      /\ cmd = "CMD33" => card' = [c EXCEPT !.erase = "both", !.hi = arg]
      /\ cmd = "CMD38" => card' = [c EXCEPT !.erase = "none", !.state = "prg", !.lo = 0, !.hi = 0]
      /\ cmd \notin {"CMD17", "CMD18", "CMD24", "CMD25", "CMD12", "CMD32", "CMD33", "CMD38"} => card' = c
  BY <1>1, <1>3 DEF Executed
<1>5. CASE cmd = "CMD17"
  <2>1. card' = [c EXCEPT !.state = "data", !.multi = FALSE, !.at = arg]
    BY <1>4, <1>5
  <2>2. card'.err = {} /\ card'.state = "data" /\ card'.erase = card.erase /\ card'.multi = FALSE
    BY <1>2, <2>1 DEF Card
  <2> QED
    BY <1>5, <2>2
<1>6. CASE cmd = "CMD18"
  <2>1. card' = [c EXCEPT !.state = "data", !.multi = TRUE, !.at = arg]
    BY <1>4, <1>6
  <2>2. card'.err = {} /\ card'.state = "data" /\ card'.erase = card.erase /\ card'.multi = TRUE
    BY <1>2, <2>1 DEF Card
  <2> QED
    BY <1>6, <2>2
<1>7. CASE cmd = "CMD24"
  <2>1. card' = [c EXCEPT !.state = "rcv", !.multi = FALSE, !.at = arg]
    BY <1>4, <1>7
  <2>2. card'.err = {} /\ card'.state = "rcv" /\ card'.erase = card.erase /\ card'.multi = FALSE
    BY <1>2, <2>1 DEF Card
  <2> QED
    BY <1>7, <2>2
<1>8. CASE cmd = "CMD25"
  <2>1. card' = [c EXCEPT !.state = "rcv", !.multi = TRUE, !.at = arg]
    BY <1>4, <1>8
  <2>2. card'.err = {} /\ card'.state = "rcv" /\ card'.erase = card.erase /\ card'.multi = TRUE
    BY <1>2, <2>1 DEF Card
  <2> QED
    BY <1>8, <2>2
<1>9. CASE cmd = "CMD12"
  <2>1. card' = [c EXCEPT !.state = IF @ = "rcv" THEN "prg" ELSE "tran", !.at = 0]
    BY <1>4, <1>9
  <2>2. card'.err = {} /\ card'.state = (IF card.state = "rcv" THEN "prg" ELSE "tran") /\ card'.erase = card.erase
    BY <1>2, <2>1 DEF Card
  <2> QED
    BY <1>9, <2>2
<1>10. CASE cmd = "CMD32"
  <2>1. card' = [c EXCEPT !.erase = "start", !.lo = arg]
    BY <1>4, <1>10
  <2>2. card'.err = {} /\ card'.state = card.state /\ card'.erase = "start"
    BY <1>2, <2>1 DEF Card
  <2> QED
    BY <1>10, <2>2
<1>11. CASE cmd = "CMD33"
  <2>1. card' = [c EXCEPT !.erase = "both", !.hi = arg]
    BY <1>4, <1>11
  <2>2. card'.err = {} /\ card'.state = card.state /\ card'.erase = "both"
    BY <1>2, <2>1 DEF Card
  <2> QED
    BY <1>11, <2>2
<1>12. CASE cmd = "CMD38"
  <2>1. card' = [c EXCEPT !.erase = "none", !.state = "prg", !.lo = 0, !.hi = 0]
    BY <1>4, <1>12
  <2>2. card'.err = {} /\ card'.state = "prg" /\ card'.erase = "none"
    BY <1>2, <2>1 DEF Card
  <2> QED
    BY <1>12, <2>2
<1>13. CASE cmd \notin {"CMD17", "CMD18", "CMD24", "CMD25", "CMD12", "CMD32", "CMD33", "CMD38"}
  <2>1. card' = c
    BY <1>4, <1>13
  <2> QED
    BY <1>1, <1>2, <1>13, <2>1
<1> QED
  BY <1>5, <1>6, <1>7, <1>8, <1>9, <1>10, <1>11, <1>12, <1>13

(* A request in progress that has met nothing else.                        *)
Going == IInv /\ Good /\ pc # "idle" /\ (req.op = "erase" => CanErase)

LEMMA OpIsNot ==
  ASSUME IInv
  PROVE  req \in Request /\ req.op \in {"read", "write", "erase"}
BY RequestType DEF IInv, TypeOK

LEMMA SubmitGood ==
  ASSUME IInv, Fit, NEW r \in Request, Submit(r), clean'
  PROVE  Promised'
<1>1. NothingPending /\ r.op \in {"read", "write", "erase"}
  BY RequestType DEF Submit
<1>2. /\ pc' = IF r.op = "erase" THEN "prepare" ELSE "attempt"
      /\ req' = r /\ result' = "none" /\ UNCHANGED <<sta, rxArmed, card, faults>>
      /\ attempts' = Attempts(r.op)
  BY DEF Submit, flags
<1>3. faults \in 0 .. MaxFaults
  BY DEF IInv, TypeOK
<1>4. r.op # "erase" => attempts' > faults
  BY <1>1, <1>2, <1>3, SdTransferAssumption DEF Attempts, Fit
<1> QED
  <2>1. r.op # "erase" => attempts' >= faults'
    BY <1>1, <1>2, <1>3, <1>4, SdTransferAssumption DEF Attempts
  <2> QED
    BY <1>1, <1>2, <1>4, <2>1
       DEF Promised, Good, Quiet, ReadyWhere, NeverWhere, NoEraseWhere, InData, AtTheEnd,
           AttemptsSuffice, NothingPending, EraseCommands

LEMMA AttemptGood ==
  ASSUME Going, Attempt
  PROVE  Promised'
<1>1. /\ pc = "attempt" /\ ~rxArmed' /\ attempts' = attempts - 1
      /\ UNCHANGED <<req, result, sta, card, faults>>
      /\ (pc' = "wait" /\ caller' = "write") \/ pc' = "command"
  BY DEF Attempt
<1>2. /\ attempts \in Nat /\ faults \in Nat /\ req.op # "erase"
      /\ attempts > faults
  BY <1>1, SdTransferAssumption DEF Going, IInv, TypeOK, ServesWhere, Transfers, Good, AttemptsSuffice
<1>3. attempts' >= faults'
  BY <1>1, <1>2
<1> QED
  BY <1>1, <1>2, <1>3
     DEF Going, Promised, Good, Quiet, ReadyWhere, NeverWhere, NoEraseWhere, InData, AtTheEnd,
         AttemptsSuffice, EraseCommands

LEMMA SendTransferCommandGood ==
  ASSUME Going, NEW st \in Statuses, SendTransferCommand(st), clean'
  PROVE  Promised'
<1> DEFINE cmd == TransferCommand(req)
<1>1. /\ pc = "command" /\ req.op \in {"read", "write"} /\ req \in Request
      /\ TypeOK /\ card.err = {} /\ card.state = "tran" /\ card.erase = "none" /\ sta = {}
      /\ result = "none" /\ attempts >= faults
  BY OpIsNot DEF Going, SendTransferCommand, IInv, ServesWhere, Transfers, Good, Quiet, ReadyWhere,
     NoEraseWhere, AttemptsSuffice
<1>2. /\ cmd \in {"CMD17", "CMD18", "CMD24", "CMD25"} /\ req.start \in Block
      /\ IF req.op = "read" THEN cmd \in {"CMD17", "CMD18"} ELSE cmd \in {"CMD24", "CMD25"}
      /\ IF Multi(req) THEN cmd \in {"CMD18", "CMD25"} ELSE cmd \in {"CMD17", "CMD24"}
      /\ Multi(req) \in BOOLEAN
  BY <1>1, RequestType DEF TransferCommand, Multi
<1>3. CmdResp1Error(cmd, req.start, st)
  BY DEF SendTransferCommand
<1> HIDE DEF cmd
<1>7. Legal(cmd) /\ ~Interrupts(cmd)
  BY <1>1, <1>2 DEF Legal, Interrupts, EraseCommands
<1>4. st = "ok" /\ Performs(cmd, req.start) /\ faults' = faults
  BY <1>1, <1>2, <1>3, <1>7, CleanExchange
<1>5. /\ card'.err = {} /\ card'.erase = "none"
      /\ card'.state = (IF req.op = "read" THEN "data" ELSE "rcv")
      /\ card'.multi = Multi(req)
  BY <1>1, <1>2, <1>7, <1>4, ExecutedFacts
<1>6. pc' = "transfer" /\ UNCHANGED <<req, result, attempts, sta>> /\ (req.op = "write" => ~rxArmed')
  BY <1>1, <1>4 DEF SendTransferCommand, Goto
<1> QED
  BY <1>1, <1>4, <1>5, <1>6
     DEF Promised, Good, Quiet, ReadyWhere, NeverWhere, NoEraseWhere, InData, AtTheEnd,
         AttemptsSuffice, EraseCommands, Broken

(* While the loop polls no flag is latched yet.                            *)
LEMMA PollingGood ==
  ASSUME Going, Polling
  PROVE  /\ pc = "transfer" /\ sta = {} /\ TypeOK /\ result = "none" /\ card.err = {}
         /\ req.op \in {"read", "write"} /\ card.erase = "none" /\ card.multi = Multi(req)
         /\ card.state = (IF req.op = "read" THEN "data" ELSE "rcv")
         /\ attempts >= faults /\ moved < Count(req)
         /\ ~Multi(req) => LastBlock
<1>1. /\ pc = "transfer" /\ sta \cap ExitFlags(req.op) = {} /\ TypeOK
      /\ req \in Request /\ req.op \in {"read", "write"} /\ result = "none" /\ card.err = {}
      /\ card.erase = "none" /\ card.multi = Multi(req) /\ attempts >= faults
  BY OpIsNot DEF Going, Polling, IInv, ServesWhere, Transfers, Good, Quiet, NoEraseWhere, InData, AttemptsSuffice
<1>2. "DATAEND" \notin sta
  BY <1>1 DEF ExitFlags, ReadExitFlags, WriteExitFlags
<1>3. ~Broken
  BY <1>1 DEF Broken, Recoverable, DataFaults, ExitFlags, ReadExitFlags, WriteExitFlags
<1>4. sta = {} /\ card.state = (IF req.op = "read" THEN "data" ELSE "rcv")
  BY <1>1, <1>2, <1>3 DEF Going, Good, InData
<1>5. moved \in Nat /\ Count(req) \in Nat /\ moved # Count(req) /\ moved <= Count(req)
  BY <1>1, <1>2, RequestType DEF Going, IInv, InStep, TypeOK
<1>6. ~Multi(req) => LastBlock
  <2>1. /\ req.start \in Int /\ req.last \in Int /\ req.start <= req.last
    BY <1>1, RequestType DEF Block
  <2> QED
    BY <1>5, <2>1 DEF Multi, Count, LastBlock
<1> QED
  BY <1>1, <1>4, <1>5, <1>6

LEMMA ReceiveBlockGood ==
  ASSUME Going, ReceiveBlock
  PROVE  Promised'
<1>1. /\ req.op = "read" /\ sta' = (IF LastBlock THEN sta \cup {"DATAEND"} ELSE sta)
      /\ rxArmed' = (rxArmed /\ ~LastBlock) /\ card \in Card /\ Polling
      /\ UNCHANGED <<pc, req, attempts, result, faults>>
  BY DEF ReceiveBlock, Going, IInv, TypeOK
<1>2. /\ card'.err = card.err /\ card'.erase = card.erase /\ card'.multi = card.multi
      /\ card'.state = IF Multi(req) THEN card.state ELSE "tran"
  BY <1>1 DEF ReceiveBlock, Card
<1> QED
  BY <1>1, <1>2, PollingGood
     DEF Promised, Good, Quiet, ReadyWhere, NeverWhere, NoEraseWhere, InData, AtTheEnd,
         AttemptsSuffice, EraseCommands, Broken, Recoverable

LEMMA SendBlockGood ==
  ASSUME Going, SendBlock, clean'
  PROVE  Promised'
<1>1. /\ req.op = "write" /\ sta' = (IF LastBlock THEN sta \cup {"DATAEND"} ELSE sta)
      /\ rxArmed' = rxArmed /\ card \in Card /\ Polling
      /\ UNCHANGED <<pc, req, attempts, result>>
  BY DEF SendBlock, Going, IInv, TypeOK
<1>2. ~Fault(FALSE)
  BY DEF Fault
<1>3. /\ card'.err = card.err /\ card'.erase = card.erase /\ card'.multi = card.multi
      /\ card'.state = IF Multi(req) THEN card.state ELSE "prg"
      /\ faults' = faults
  BY <1>1, <1>2 DEF SendBlock, Card, NoFault
<1>4. ~rxArmed'
  BY <1>1, PollingGood DEF Going, Good, InData
<1> QED
  BY <1>1, <1>3, <1>4, PollingGood
     DEF Promised, Good, Quiet, ReadyWhere, NeverWhere, NoEraseWhere, InData, AtTheEnd,
         AttemptsSuffice, EraseCommands, Broken, Recoverable

LEMMA DataFaultGood ==
  ASSUME Going, NEW f, DataFault(f), clean'
  PROVE  Promised'
<1>1. /\ Polling /\ f \in DataFaults(req.op) /\ f \in Recoverable /\ ~Multi(req)
      /\ sta' = sta \cup {f} /\ ~rxArmed' /\ faults > 0 /\ faults' = faults - 1
      /\ UNCHANGED <<pc, req, attempts, result>> /\ card \in Card
      /\ attempts \in Nat /\ faults \in Nat
  <2>1. /\ Polling /\ f \in DataFaults(req.op) /\ sta' = sta \cup {f} /\ ~rxArmed'
        /\ UNCHANGED <<pc, req, attempts, result>>
        /\ Fault(~Multi(req) /\ f \in {"DCRCFAIL", "TXUNDERR", "RXOVERR"})
    BY DEF DataFault, driver
  <2>2. f \in Recoverable /\ ~Multi(req) /\ faults > 0 /\ faults' = faults - 1
    BY <2>1 DEF Fault, Recoverable
  <2>3. card \in Card /\ attempts \in Nat /\ faults \in Nat
    BY SdTransferAssumption DEF Going, IInv, TypeOK
  <2> QED
    BY <2>1, <2>2, <2>3
<1>5. card' = [card EXCEPT !.state = "tran"]
  BY <1>1 DEF DataFault, Recoverable
<1>2. /\ card'.err = card.err /\ card'.erase = card.erase /\ card'.multi = card.multi
      /\ card'.state = "tran"
  BY <1>1, <1>5 DEF Card
<1>3. attempts' > faults'
  BY <1>1, PollingGood
<1>4. Broken'
  BY <1>1, PollingGood DEF Broken
<1> QED
  BY <1>1, <1>2, <1>3, <1>4, PollingGood
     DEF Promised, Good, Quiet, ReadyWhere, NeverWhere, NoEraseWhere, InData, AtTheEnd,
         AttemptsSuffice, EraseCommands

LEMMA EndOfLoopGood ==
  ASSUME Going, EndOfLoop
  PROVE  Promised'
<1>1. /\ pc = "transfer" /\ sta # {} /\ UNCHANGED <<req, sta, rxArmed, card, faults, attempts, result>>
      /\ pc' = IF Multi(req) /\ "DATAEND" \in sta THEN "stop" ELSE "flags"
      /\ attempts \in Nat /\ faults \in Nat
  BY SdTransferAssumption DEF EndOfLoop, Goto, flags, card_and_faults, Going, IInv, TypeOK
<1>2. req.op # "erase" /\ InData /\ ~rxArmed
  BY <1>1 DEF Going, Good, InData, IInv, ServesWhere, Transfers
<1>3. Broken' = Broken
  BY <1>1 DEF Broken
<1>4. Multi(req) /\ sta = {"DATAEND"} => pc' = "stop"
  BY <1>1
<1> QED
  BY <1>1, <1>2, <1>3, <1>4, OpIsNot
     DEF Going, Promised, Good, Quiet, ReadyWhere, NeverWhere, NoEraseWhere, InData, AtTheEnd,
         AttemptsSuffice, EraseCommands, Broken, Recoverable

LEMMA StopTransmissionGood ==
  ASSUME Going, NEW st \in Statuses, StopTransmission(st), clean'
  PROVE  Promised'
<1>1. /\ pc = "stop" /\ req.op # "erase" /\ TypeOK /\ card.err = {} /\ card.erase = "none"
      /\ sta = {"DATAEND"} /\ Multi(req) /\ card.state \in {"data", "rcv"} /\ ~rxArmed
      /\ result = "none" /\ attempts >= faults
  <2>1. pc = "stop" /\ req.op # "erase" /\ TypeOK /\ req.op \in {"read", "write"}
    BY OpIsNot DEF Going, StopTransmission, IInv, ServesWhere, Transfers
  <2>2. card.err = {} /\ card.erase = "none" /\ result = "none" /\ attempts >= faults /\ ~rxArmed
    BY <2>1 DEF Going, Good, Quiet, NoEraseWhere, AttemptsSuffice
  <2>3. sta = {"DATAEND"} /\ Multi(req) /\ card.state \in {"data", "rcv"}
    BY <2>1 DEF Going, Good, InData, Broken
  <2> QED
    BY <2>1, <2>2, <2>3
<1>2. Legal("CMD12") /\ ~Interrupts("CMD12") /\ CmdResp1Error("CMD12", 0, st)
  BY <1>1 DEF Legal, Interrupts, StopTransmission
<1>3. st = "ok" /\ Performs("CMD12", 0) /\ faults' = faults
  BY <1>1, <1>2, ZeroIsABlock, CleanExchange
<1>4. card'.err = {} /\ card'.erase = "none" /\ card'.state \in {"tran", "prg"}
  BY <1>1, <1>2, <1>3, ZeroIsABlock, ExecutedFacts
<1>5. pc' = "flags" /\ UNCHANGED <<req, result, attempts, sta, rxArmed>>
  BY <1>1, <1>3 DEF StopTransmission, Goto
<1> QED
  BY <1>1, <1>3, <1>4, <1>5
     DEF Promised, Good, Quiet, ReadyWhere, NeverWhere, NoEraseWhere, InData, AtTheEnd,
         AttemptsSuffice, EraseCommands, Broken, Recoverable

LEMMA CheckFlagsGood ==
  ASSUME Going, CheckFlags
  PROVE  Promised'
<1>1. /\ pc = "flags" /\ req.op \in {"read", "write"} /\ card.err = {} /\ card.erase = "none"
      /\ ~rxArmed /\ result = "none" /\ attempts >= faults
      /\ attempts \in Nat /\ faults \in Nat
      /\ UNCHANGED <<req, rxArmed, card, faults>> /\ sta' = sta \ DataFlags
  BY OpIsNot, SdTransferAssumption DEF Going, CheckFlags, IInv, TypeOK, ServesWhere, Transfers, Good, Quiet,
     NoEraseWhere, AttemptsSuffice, card_and_faults
<1>2. CASE sta = {"DATAEND"} /\ card.state \in {"tran", "prg"}
  <2>1. sta \cap FailureFlags(req.op) = {} /\ sta' = {}
    BY <1>1, <1>2 DEF FailureFlags, ReadFailureFlags, WriteFailureFlags, DataFlags, AllFlags
  <2>2. pc' = "wait" /\ caller' = "done" /\ UNCHANGED <<result, attempts>>
    BY <2>1 DEF CheckFlags, WaitFor, Goto
  <2> QED
    BY <1>1, <1>2, <2>1, <2>2
       DEF Promised, Good, Quiet, ReadyWhere, NeverWhere, NoEraseWhere, InData, AtTheEnd,
           AttemptsSuffice, EraseCommands
<1>3. CASE Broken /\ card.state = "tran"
  <2>1. sta \cap FailureFlags(req.op) # {} /\ sta' = {}
    BY <1>1, <1>3 DEF Broken, Recoverable, DataFaults, FailureFlags, ReadFailureFlags, WriteFailureFlags,
       DataFlags, AllFlags
  <2>2. attempts > faults
    BY <1>1, <1>3 DEF Going, Good, AttemptsSuffice
  <2>3. pc' = "attempt" /\ UNCHANGED <<result, attempts>>
    BY <1>1, <2>1, <2>2 DEF CheckFlags, Return, Goto
  <2> QED
    BY <1>1, <1>3, <2>1, <2>2, <2>3
       DEF Promised, Good, Quiet, ReadyWhere, NeverWhere, NoEraseWhere, InData, AtTheEnd,
           AttemptsSuffice, EraseCommands
<1> QED
  BY <1>1, <1>2, <1>3 DEF Going, Good, AtTheEnd

LEMMA PollCardGood ==
  ASSUME Going, NEW st \in Statuses, PollCard(st), clean'
  PROVE  Promised'
<1>1. /\ pc = "wait" /\ TypeOK /\ card.err = {} /\ ~rxArmed /\ result = "none"
      /\ caller \in {"write", "done", "erase"} /\ sta = {} /\ polls # 0
      /\ caller \in {"write", "erase"} => card.state = "tran"
      /\ caller = "done" => card.state \in {"tran", "prg"}
      /\ caller = "erase" => req.op = "erase"
      /\ caller = "write" => req.op # "erase"
      /\ req.op # "erase" => attempts >= faults
      /\ card.erase = "none"
  BY DEF Going, PollCard, IInv, InStep, ServesWhere, Good, Quiet, ReadyWhere, NeverWhere, NoEraseWhere,
     AtTheEnd, AttemptsSuffice
<1>2. Legal("CMD13") /\ ~Interrupts("CMD13") /\ CmdResp1Error("CMD13", 0, st)
  BY DEF Legal, Interrupts, PollCard
<1>3. st = "ok" /\ Performs("CMD13", 0) /\ faults' = faults /\ ~GivesUp
  BY <1>1, <1>2, ZeroIsABlock, CleanExchange
<1>4. card'.err = {} /\ card'.erase = card.erase /\ card'.state = card.state
  BY <1>1, <1>2, <1>3, ZeroIsABlock, ExecutedFacts
<1>5. UNCHANGED <<req, rxArmed>> /\ caller' = IF pc' = "wait" THEN caller ELSE "done"
  BY DEF PollCard
<1>6. CASE card.state = "tran"
  <2>1. WaitEnds("ok")
    BY <1>3, <1>6 DEF PollCard, Ready
  <2>2. CASE caller = "done"
    BY <2>1, <2>2 DEF WaitEnds, Return, Promised
  <2>3. CASE caller # "done"
    <3>1. /\ caller = "write" => pc' = "command"
          /\ caller = "erase" => pc' = "CMD32"
          /\ UNCHANGED <<result, attempts, sta>>
      BY <1>1, <2>1, <2>3 DEF WaitEnds, Goto
    <3> QED
      BY <1>1, <1>3, <1>4, <1>5, <1>6, <2>3, <3>1
         DEF Going, Promised, Good, Quiet, ReadyWhere, NeverWhere, NoEraseWhere, InData, AtTheEnd,
             AttemptsSuffice, EraseCommands
  <2> QED
    BY <2>2, <2>3
<1>7. CASE card.state # "tran"
  <2>1. polls # 1 /\ ~Ready(st)
    BY <1>1, <1>3, <1>7 DEF GivesUp, Ready
  <2>2. pc' = "wait" /\ UNCHANGED <<result, attempts, sta>>
    BY <1>3, <2>1 DEF PollCard, Goto
  <2> QED
    BY <1>1, <1>3, <1>4, <1>5, <1>7, <2>2
       DEF Going, Promised, Good, Quiet, ReadyWhere, NeverWhere, NoEraseWhere, InData, AtTheEnd,
           AttemptsSuffice, EraseCommands
<1> QED
  BY <1>6, <1>7

LEMMA PrepareForEraseGood ==
  ASSUME Going, NEW st \in Statuses, PrepareForErase(st), clean'
  PROVE  Promised'
<1>1. /\ pc = "prepare" /\ TypeOK /\ card.err = {} /\ ~rxArmed /\ result = "none"
      /\ sta = {} /\ card.state = "tran" /\ card.erase = "none" /\ req.op = "erase"
  BY DEF Going, PrepareForErase, IInv, ServesWhere, Erases, Good, Quiet, ReadyWhere, NoEraseWhere
<1>2. Legal("CMD13") /\ ~Interrupts("CMD13") /\ CmdResp1Error("CMD13", 0, st)
  BY DEF Legal, Interrupts, PrepareForErase
<1>3. st = "ok" /\ Performs("CMD13", 0)
  BY <1>1, <1>2, ZeroIsABlock, CleanExchange
<1>4. card'.err = {} /\ card'.erase = card.erase /\ card'.state = card.state
  BY <1>1, <1>2, <1>3, ZeroIsABlock, ExecutedFacts
<1>5. pc' = "class" /\ UNCHANGED <<req, result, sta, rxArmed>>
  BY <1>1, <1>3 DEF PrepareForErase, Ready, Goto, flags
<1> QED
  BY <1>1, <1>4, <1>5
     DEF Promised, Good, Quiet, ReadyWhere, NeverWhere, NoEraseWhere, InData, AtTheEnd,
         AttemptsSuffice, EraseCommands

LEMMA CheckClassGood ==
  ASSUME Going, CheckClass
  PROVE  Promised'
<1>1. /\ pc = "class" /\ req.op = "erase" /\ ClassCheckPasses
  BY DEF Going, CheckClass, IInv, ServesWhere, Erases, CanErase
<1>2. /\ pc' = "wait" /\ caller' = "erase" /\ ~rxArmed'
      /\ UNCHANGED <<req, sta, card, result>>
  BY <1>1 DEF CheckClass, WaitFor, Goto, card_and_faults
<1> QED
  BY <1>1, <1>2
     DEF Going, Promised, Good, Quiet, ReadyWhere, NeverWhere, NoEraseWhere, InData, AtTheEnd,
         AttemptsSuffice, EraseCommands

LEMMA SendEraseCommandGood ==
  ASSUME Going, NEW st \in Statuses, SendEraseCommand(st), clean'
  PROVE  Promised'
<1>1. /\ pc \in {"CMD32", "CMD33", "CMD38"} /\ TypeOK /\ card.err = {} /\ ~rxArmed
      /\ result = "none" /\ sta = {} /\ card.state = "tran" /\ req.op = "erase" /\ req \in Request
      /\ 5 \in Classes
  BY DEF Going, SendEraseCommand, IInv, TypeOK, ServesWhere, Erases, Good, Quiet, ReadyWhere, EraseCommands,
     CanErase
<1>2. EraseArgument(pc) \in Block
  BY <1>1, ExtentType, ZeroIsABlock DEF EraseArgument
<1>3. Legal(pc) /\ ~Interrupts(pc) /\ CmdResp1Error(pc, EraseArgument(pc), st)
  BY <1>1 DEF Legal, Interrupts, SendEraseCommand, EraseCommands
<1>4. st = "ok" /\ Performs(pc, EraseArgument(pc))
  BY <1>1, <1>2, <1>3, CleanExchange
<1>5. /\ card'.err = {}
      /\ pc = "CMD32" => card'.state = "tran" /\ card'.erase = "start"
      /\ pc = "CMD33" => card'.state = "tran" /\ card'.erase = "both"
      /\ pc = "CMD38" => card'.state = "prg" /\ card'.erase = "none"
  BY <1>1, <1>2, <1>3, <1>4, ExecutedFacts
<1>6. /\ pc = "CMD32" => pc' = "CMD33"
      /\ pc = "CMD33" => pc' = "CMD38"
      /\ pc = "CMD38" => pc' = "wait" /\ caller' = "done"
      /\ UNCHANGED <<req, result, rxArmed>> /\ sta' = {}
  BY <1>1, <1>4 DEF SendEraseCommand, WaitFor, Goto, NextErase
<1> QED
  BY <1>1, <1>5, <1>6
     DEF Promised, Good, Quiet, ReadyWhere, NeverWhere, NoEraseWhere, InData, AtTheEnd,
         AttemptsSuffice, EraseCommands

LEMMA EnvironmentGood ==
  ASSUME Going, Environment
  PROVE  Promised'
<1>1. card \in Card /\ req \in Request /\ pc \in Locations
  BY DEF Going, IInv, TypeOK
<1>2. CASE CardProgrammed
  <2>1. /\ card.state = "prg" /\ UNCHANGED <<pc, caller, req, result, attempts, faults, sta, rxArmed>>
        /\ card'.err = card.err /\ card'.erase = card.erase /\ card'.multi = card.multi
        /\ card'.state = "tran"
    BY <1>1, <1>2 DEF CardProgrammed, driver, flags, Card
  <2>2. Broken' = Broken
    BY <2>1 DEF Broken
  <2> QED
    BY <2>1, <2>2
       DEF Going, Promised, Good, Quiet, ReadyWhere, NeverWhere, NoEraseWhere, InData, AtTheEnd,
           AttemptsSuffice, EraseCommands
<1>3. ~CardSent
  BY <1>1 DEF CardSent, Going, Good, ReadyWhere, NeverWhere, InData, AtTheEnd, Locations, EraseCommands
<1>4. ~LateFlag
  BY DEF LateFlag, Going, Good, Quiet
<1> QED
  BY <1>2, <1>3, <1>4 DEF Environment

LEMMA NextCInv ==
  ASSUME IInv, CInv, [Next]_vars
  PROVE  CInv'
<1> SUFFICES ASSUME Fit, clean', (req.op = "erase" => CanErase)'
             PROVE  Promised'
  BY DEF CInv, Fit
<1>1. ASSUME NEW r \in Request, Submit(r)
      PROVE  Promised'
  BY <1>1, SubmitGood
<1>2. SUFFICES ASSUME Exchange \/ Step \/ DataPhase \/ Environment \/ UNCHANGED vars
               PROVE  Promised'
  BY <1>1 DEF Next
<1>3. req' = req /\ (clean' => clean)
  <2>1. CASE Exchange
    BY <2>1 DEF Exchange, SendTransferCommand, StopTransmission, PollCard, PrepareForErase, SendEraseCommand,
       CmdResp1Error, NoFault, Fault
  <2>2. CASE Step \/ Environment \/ UNCHANGED vars
    BY <2>2 DEF Step, Attempt, EndOfLoop, CheckFlags, AbortTransmission, CheckClass, card_and_faults,
       Environment, CardProgrammed, CardSent, LateFlag, driver, vars
  <2>3. CASE DataPhase
    BY <2>3 DEF DataPhase, ReceiveBlock, SendBlock, DataFault, NoFault, Fault, driver
  <2> QED
    BY <1>2, <2>1, <2>2, <2>3
<1>4. (req.op = "erase" => CanErase) /\ Promised
  BY <1>3 DEF CInv, CanErase, ClassCheckPasses
<1>5. CASE pc = "idle"
  <2>1. UNCHANGED <<pc, result>>
    BY <1>2, <1>5 DEF Exchange, SendTransferCommand, StopTransmission, PollCard, PrepareForErase,
       SendEraseCommand, EraseCommands, Step, Attempt, EndOfLoop, CheckFlags, AbortTransmission, CheckClass,
       DataPhase, ReceiveBlock, SendBlock, DataFault, Polling,
       Environment, CardProgrammed, CardSent, LateFlag, driver, vars
  <2> QED
    BY <1>4, <1>5, <2>1 DEF Promised
<1>6. CASE pc # "idle"
  <2>1. Going
    BY <1>4, <1>6 DEF Going, Promised
  <2>2. CASE Exchange
    BY <2>1, <2>2, SendTransferCommandGood, StopTransmissionGood, PollCardGood, PrepareForEraseGood,
       SendEraseCommandGood DEF Exchange
  <2>3. CASE Step
    <3>1. ~AbortTransmission
      BY <2>1 DEF Going, Good, NeverWhere, AbortTransmission
    <3> QED
      BY <2>1, <2>3, <3>1, AttemptGood, EndOfLoopGood, CheckFlagsGood, CheckClassGood DEF Step
  <2>4. CASE DataPhase
    BY <2>1, <2>4, ReceiveBlockGood, SendBlockGood, DataFaultGood DEF DataPhase
  <2>5. CASE Environment
    BY <2>1, <2>5, EnvironmentGood
  <2>6. CASE UNCHANGED vars
    BY <1>4, <2>6
       DEF vars, driver, Promised, Good, Quiet, ReadyWhere, NeverWhere, NoEraseWhere, InData, AtTheEnd,
           AttemptsSuffice, Broken
  <2> QED
    BY <1>2, <2>2, <2>3, <2>4, <2>5, <2>6
<1> QED
  BY <1>5, <1>6

(* For every number of attempts, polls and blocks: a request that starts   *)
(* on a quiet bus, meets fewer data errors of a single block than it has   *)
(* attempts and nothing worse, and whose card is never busy for longer     *)
(* than it is polled, does not fail.                                       *)
THEOREM RetriesSuffice == Spec => []RetriesAbsorbDataFaults
<1>1. Init => CInv
  BY DEF Init, CInv
<1>2. IInv /\ CInv /\ [Next]_vars => CInv'
  BY NextCInv
<1>3. Spec => []IInv
  BY Invariance
<1>4. IInv /\ CInv => RetriesAbsorbDataFaults
  BY OpIsNot DEF CInv, Fit, Promised, RetriesAbsorbDataFaults, Attempts
<1> QED
  BY <1>1, <1>2, <1>3, <1>4, PTL DEF Spec
=============================================================================
