----------------------------- MODULE SdTransfer -----------------------------
(***************************************************************************)
(* The data path of the SD driver: read_safe_sd and write_safe_sd          *)
(* (sd_fat32.c) retrying read_multi_block_sd and write_multi_block_sd      *)
(* (SD.c), and erase_sd, each exchanging commands with the card over the   *)
(* SDIO controller (sdio.c).  The driver polls; it owns the processor.     *)
(* Concurrently the card executes and programs, the data path of the       *)
(* controller (DPSM) moves blocks and latches flags, and the bus fails.    *)
(*                                                                         *)
(* The card and the controller are environment: the card follows the SD    *)
(* state machine (tran, data, rcv, prg) as far as the driver exercises it. *)
(* Bus and card faults are drawn from a budget of MaxFaults.               *)
(***************************************************************************)
EXTENDS SdBlocks, FiniteSets

CONSTANTS
  ReadAttempts,   \* attempts of read_safe_sd (5)
  WriteAttempts,  \* attempts of write_safe_sd (3)
  MaxPolls,       \* CMD13 polls of one wait_card_ready (500)
  MaxFaults,      \* faults of the bus and of the card in one behaviour
  Classes         \* the command classes of the card (CCC in its CSD)

ASSUME SdTransferAssumption ==
  /\ ReadAttempts \in Nat \ {0}
  /\ WriteAttempts \in Nat \ {0}
  /\ MaxPolls \in Nat \ {0}
  /\ MaxFaults \in Nat
  /\ Classes \subseteq 0 .. 11

VARIABLES
  \* the driver
  pc,         \* where it is
  caller,     \* the point that wait_card_ready returns to
  req,        \* the request served, or served last
  attempts,   \* attempts left after this one
  polls,      \* polls left in wait_card_ready
  moved,      \* blocks moved in this attempt
  buf,        \* the caller's buffer of a read
  result,     \* the last answer; "none" while a request is served
  \* the SDIO controller
  sta,        \* latched data flags of SDIO->STA
  rxArmed,    \* the DPSM waits for data from the card
  \* the card
  card,       \* its state, transfer and erase sequence, pending error bits
  mem,        \* what it holds
  \* ghosts
  lost,       \* blocks of this request that the card failed to program
  faults,     \* faults left
  clean       \* the request met nothing but recoverable data faults

driver == <<pc, caller, req, attempts, polls, moved, buf, result>>
vars == <<driver, sta, rxArmed, card, mem, lost, faults, clean>>

-----------------------------------------------------------------------------
(* Flags of SDIO->STA.  Here and below a definition whose name says what   *)
(* it gets wrong, just before the one it varies, is a seeded fault: a run  *)
(* must find the property that PROJECT.json pairs with it violated.        *)

AllFlags ==
  {"DCRCFAIL", "DTIMEOUT", "TXUNDERR", "RXOVERR", "STBITERR", "DATAEND"}

(* SDIO_MASK_STATIC_DATA_FLAGS: what the driver clears after a transfer.   *)
DataFlagsButEnd == AllFlags \ {"STBITERR", "DATAEND"}
DataFlags == AllFlags \ {"STBITERR"}

(* The flags that end the loop that feeds or drains the FIFO ...  (A read  *)
(* of a single block watches DBCKEND, which comes with DATAEND.)           *)
WriteExitFlags == {"TXUNDERR", "STBITERR", "DTIMEOUT", "DCRCFAIL", "DATAEND"}

ReadExitFlags == {"DTIMEOUT", "DCRCFAIL", "STBITERR", "RXOVERR", "DATAEND"}

ExitFlags(op) == IF op = "read" THEN ReadExitFlags ELSE WriteExitFlags

(* ... and those that then make the transfer a failure.                    *)
WriteFailureFlags == {"DCRCFAIL", "TXUNDERR", "DTIMEOUT"}

ReadFailureFlagsButCrc == {"DTIMEOUT", "RXOVERR", "STBITERR"}
ReadFailureFlags == {"DTIMEOUT", "DCRCFAIL", "RXOVERR", "STBITERR"}

FailureFlags(op) == IF op = "read" THEN ReadFailureFlags ELSE WriteFailureFlags

(* What can go wrong on the data lines of a transfer.                      *)
DataFaults(op) ==
  IF op = "read" THEN {"DTIMEOUT", "DCRCFAIL", "RXOVERR", "STBITERR"}
                 ELSE {"DCRCFAIL", "TXUNDERR", "DTIMEOUT"}

-----------------------------------------------------------------------------
(* The card.                                                               *)

CardErrors == {"ILLEGAL", "COM_CRC", "ERROR", "ERASE_RESET"}

Card == [state : {"tran", "data", "rcv", "prg"},
         multi : BOOLEAN,
         at    : 0 .. (NBlocks + MaxCount),
         erase : {"none", "start", "both"},
         lo    : Block,
         hi    : Block,
         err   : SUBSET CardErrors]

EraseCommands == {"CMD32", "CMD33", "CMD38"}

Legal(cmd) ==
  \/ cmd = "CMD13"
  \/ cmd = "CMD12" /\ card.state \in {"data", "rcv"}
  \/ /\ cmd \notin {"CMD12", "CMD13"} /\ card.state = "tran"
     /\ cmd \in EraseCommands => 5 \in Classes

(* Any other command than CMD13 interrupts an erase sequence.              *)
Interrupts(cmd) ==
  card.erase # "none" /\ cmd \notin EraseCommands \cup {"CMD13"}

(* The error bits of the answer to cmd.  Answering clears them.            *)
Reported(cmd) ==
  card.err \cup (IF Interrupts(cmd) THEN {"ERASE_RESET"} ELSE {})

Executed(cmd, arg) ==
  LET c == [card EXCEPT !.err = {},
                        !.erase = IF Interrupts(cmd) THEN "none" ELSE @]
  IN CASE cmd = "CMD17" -> [c EXCEPT !.state = "data", !.multi = FALSE, !.at = arg]
       [] cmd = "CMD18" -> [c EXCEPT !.state = "data", !.multi = TRUE, !.at = arg]
       [] cmd = "CMD24" -> [c EXCEPT !.state = "rcv", !.multi = FALSE, !.at = arg]
       [] cmd = "CMD25" -> [c EXCEPT !.state = "rcv", !.multi = TRUE, !.at = arg]
       [] cmd = "CMD12" -> [c EXCEPT !.state = IF @ = "rcv" THEN "prg" ELSE "tran", !.at = 0]
       [] cmd = "CMD32" -> [c EXCEPT !.erase = "start", !.lo = arg]
       [] cmd = "CMD33" -> [c EXCEPT !.erase = "both", !.hi = arg]
       [] cmd = "CMD38" -> [c EXCEPT !.erase = "none", !.state = "prg", !.lo = 0, !.hi = 0]
       [] OTHER         -> c

Cleared(cmd) == IF cmd = "CMD38" THEN card.lo .. card.hi ELSE {}

Performs(cmd, arg) ==
  /\ Legal(cmd)
  /\ card' = Executed(cmd, arg)
  /\ mem' = [b \in Block |-> IF b \in Cleared(cmd) THEN Erased ELSE mem[b]]
  /\ lost' = lost \ Cleared(cmd)

Ignores(errors) ==
  /\ card' = [card EXCEPT !.err = @ \cup errors]
  /\ UNCHANGED <<mem, lost>>

(* The last poll of wait_card_ready still finds the card busy.             *)
GivesUp == pc = "wait" /\ polls = 1 /\ card.state # "tran"

NoFault == UNCHANGED faults /\ clean' = (clean /\ ~GivesUp)

Fault(recoverable) ==
  /\ faults > 0
  /\ faults' = faults - 1
  /\ clean' = (clean /\ recoverable)

-----------------------------------------------------------------------------
(* send_command_sdio followed by CmdResp1Error, which returns st:          *)
(* "timeout" and "crc" for no answer and a garbled one; "crc" also for an  *)
(* answer whose first error bit is COM_CRC_ERROR; "card" for any other     *)
(* error bit in the answer.  The bits are looked at in a fixed order.      *)

Status(errors) ==
  IF errors = {} THEN "ok"
  ELSE IF "COM_CRC" \in errors /\ errors \cap {"ILLEGAL", "ERROR"} = {} THEN "crc"
  ELSE "card"

CmdResp1Error(cmd, arg, st) ==
  \/ /\ Performs(cmd, arg)
     /\ st = Status(Reported(cmd))
     /\ NoFault
  \/ \* the answer is lost or garbled
     /\ Performs(cmd, arg)
     /\ st \in {"timeout", "crc"}
     /\ Fault(FALSE)
  \/ \* the card does not answer a command that is illegal in its state
     /\ ~Legal(cmd)
     /\ st = "timeout"
     /\ Ignores({"ILLEGAL"})
     /\ NoFault
  \/ \* the command is lost or garbled
     /\ st = "timeout"
     /\ Ignores({}) \/ Ignores({"COM_CRC"})
     /\ Fault(FALSE)

Statuses == {"ok", "timeout", "crc", "card"}

-----------------------------------------------------------------------------
Multi(r) == r.last > r.start

Count(r) == r.last - r.start + 1

EmptyBuffer == [i \in 0 .. (MaxCount - 1) |-> NoData]

Init ==
  /\ pc = "idle" /\ caller = "done" /\ req \in Request
  /\ attempts = 0 /\ polls = 0 /\ moved = 0
  /\ buf = EmptyBuffer
  /\ result = "none"
  /\ sta = {} /\ rxArmed = FALSE
  /\ card = [state |-> "tran", multi |-> FALSE, at |-> 0,
             erase |-> "none", lo |-> 0, hi |-> 0, err |-> {}]
  /\ mem = [b \in Block |-> Erased]
  /\ lost = {} /\ faults = MaxFaults /\ clean = FALSE

Goto(label) == pc' = label /\ UNCHANGED <<result, attempts, moved>>

(* A block function returns to its retry loop, the loop to its caller,     *)
(* where its variables end.                                                *)
ReturnForever(st) ==
  IF st = "ok"
    THEN pc' = "idle" /\ result' = st /\ attempts' = 0 /\ moved' = 0
    ELSE Goto("attempt")
ReturnAtOnce(st) ==
  pc' = "idle" /\ result' = st /\ attempts' = 0 /\ moved' = 0
Return(st) ==
  IF st = "ok" \/ attempts = 0
    THEN pc' = "idle" /\ result' = st /\ attempts' = 0 /\ moved' = 0
    ELSE Goto("attempt")

(* A call of wait_card_ready from the point `from'.                        *)
WaitFor(from) ==
  /\ Goto("wait")
  /\ caller' = from
  /\ polls' = MaxPolls

card_and_faults == <<card, mem, lost, faults, clean>>
flags == <<sta, rxArmed>>

(* An erase is not retried: nothing is left when it begins.                *)
Attempts(op) ==
  CASE op = "read" -> ReadAttempts [] op = "write" -> WriteAttempts [] OTHER -> 0

(* A request starts clean when nothing is left over from the last one.     *)
NothingPending ==
  /\ card.state = "tran" /\ card.err = {} /\ card.erase = "none"
  /\ sta = {} /\ ~rxArmed

Submit(r) ==
  /\ pc = "idle"
  /\ pc' = IF r.op = "erase" THEN "prepare" ELSE "attempt"
  /\ req' = r
  /\ attempts' = Attempts(r.op)
  /\ buf' = EmptyBuffer
  /\ moved' = 0
  /\ result' = "none"
  /\ lost' = {}
  /\ clean' = NothingPending
  /\ UNCHANGED <<caller, polls, flags, card, mem, faults>>

(* One more call of read_multi_block_sd or write_multi_block_sd.  DCTRL = 0 *)
(* disarms the DPSM.  A single block is written only to a ready card.      *)
Attempt ==
  /\ pc = "attempt"
  /\ attempts' = attempts - 1
  /\ moved' = 0
  /\ rxArmed' = FALSE
  /\ IF req.op = "write" /\ ~Multi(req)
       THEN pc' = "wait" /\ caller' = "write" /\ polls' = MaxPolls
       ELSE pc' = "command" /\ UNCHANGED <<caller, polls>>
  /\ UNCHANGED <<req, buf, result, sta, card, mem, lost, faults, clean>>

TransferCommand(r) ==
  IF r.op = "read" THEN IF Multi(r) THEN "CMD18" ELSE "CMD17"
                   ELSE IF Multi(r) THEN "CMD25" ELSE "CMD24"

(* The DPSM is armed for a read: before CMD18, but only after the answer   *)
(* to CMD17.  When CMD18 fails it stays armed.                             *)
SendTransferCommand(st) ==
  /\ pc = "command"
  /\ CmdResp1Error(TransferCommand(req), req.start, st)
  /\ IF st = "ok" THEN Goto("transfer") ELSE Return("err")
  /\ rxArmed' = (req.op = "read" /\ (Multi(req) \/ st = "ok"))
  /\ UNCHANGED <<caller, req, polls, buf, sta>>

-----------------------------------------------------------------------------
(* The data phase: the loop polls STA and feeds or drains the FIFO until   *)
(* one of its exit flags is latched.                                       *)

Polling == pc = "transfer" /\ sta \cap ExitFlags(req.op) = {}

LastBlock == moved + 1 = Count(req)

ReceiveBlock ==
  /\ Polling
  /\ req.op = "read"
  /\ card.state = "data"
  /\ buf' = [buf EXCEPT ![moved] = mem[card.at]]
  /\ moved' = moved + 1
  /\ card' = [card EXCEPT !.at = @ + 1,
                          !.state = IF Multi(req) THEN @ ELSE "tran"]
  /\ sta' = IF LastBlock THEN sta \cup {"DATAEND"} ELSE sta
  /\ rxArmed' = (rxArmed /\ ~LastBlock)
  /\ UNCHANGED <<pc, caller, req, attempts, polls, result,
                 mem, lost, faults, clean>>

(* A block reaches the card, which programs it or fails to.                *)
Programmed ==
  /\ mem' = [mem EXCEPT ![card.at] = Piece(req.val, req.start + moved)]
  /\ lost' = lost \ {card.at}

NotProgrammed == UNCHANGED mem /\ lost' = lost \cup {card.at}

SendBlock ==
  /\ Polling
  /\ req.op = "write"
  /\ card.state = "rcv"
  /\ moved' = moved + 1
  /\ sta' = IF LastBlock THEN sta \cup {"DATAEND"} ELSE sta
  /\ \E failed \in BOOLEAN :
       /\ IF failed THEN NotProgrammed /\ Fault(FALSE) ELSE Programmed /\ NoFault
       /\ card' = [card EXCEPT !.at = @ + 1,
                               !.state = IF Multi(req) THEN @ ELSE "prg",
                               !.err = IF failed THEN @ \cup {"ERROR"} ELSE @]
  /\ UNCHANGED <<pc, caller, req, attempts, polls, buf, result, rxArmed>>

(* The transfer breaks: the DPSM latches f and stops.  A single block ends *)
(* the transfer for the card too, except that after a timeout it may still *)
(* be sending or programming.  In a multiple block transfer the card waits *)
(* for CMD12.  A block whose acknowledgement broke may have been stored.   *)
DataFault(f) ==
  /\ Polling
  /\ f \in DataFaults(req.op)
  /\ sta' = sta \cup {f}
  /\ rxArmed' = FALSE
  /\ Fault(~Multi(req) /\ f \in {"DCRCFAIL", "TXUNDERR", "RXOVERR"})
  /\ card' = [card EXCEPT !.state =
                IF Multi(req) THEN @
                ELSE IF f # "DTIMEOUT" THEN "tran"
                ELSE IF req.op = "read" THEN @ ELSE "prg"]
  /\ \/ UNCHANGED <<mem, lost>>
     \/ req.op = "write" /\ Programmed
  /\ UNCHANGED <<driver>>

EndOfLoop ==
  /\ pc = "transfer"
  /\ sta \cap ExitFlags(req.op) # {}
  /\ Goto(IF Multi(req) /\ "DATAEND" \in sta THEN "stop" ELSE "flags")
  /\ UNCHANGED <<caller, req, polls, buf, flags, card_and_faults>>

(* CMD12 through CmdResp1bError, which takes a missing answer for a busy   *)
(* card and polls it.                                                      *)
StopTransmission(st) ==
  /\ pc = "stop"
  /\ CmdResp1Error("CMD12", 0, st)
  /\ CASE st = "ok"      -> Goto("flags") /\ UNCHANGED <<caller, polls, sta>>
       [] st = "timeout" -> WaitFor("stop") /\ UNCHANGED sta
       [] OTHER          -> /\ Return("err")
                            /\ sta' = sta \ DataFlags
                            /\ UNCHANGED <<caller, polls>>
  /\ UNCHANGED <<req, buf, rxArmed>>

CheckFlags ==
  /\ pc = "flags"
  /\ sta' = sta \ DataFlags
  /\ IF sta \cap FailureFlags(req.op) # {}
       THEN Return("err") /\ UNCHANGED <<caller, polls>>
       ELSE WaitFor("done")
  /\ UNCHANGED <<req, buf, rxArmed, card_and_faults>>

-----------------------------------------------------------------------------
(* wait_card_ready: CMD13 until the card answers, without an error bit,    *)
(* that it is in the transfer state (SD.state, which holds the state in    *)
(* the last answer and is read only after an answer).  No answer ends it   *)
(* at once; an answer with an error bit is polled past.                    *)

ReadyInAnyState(st) == st = "ok"
Ready(st) == st = "ok" /\ card.state = "tran"

PollsNotCounted == polls
PollsLeft == polls - 1

WaitEnds(st) ==
  CASE caller = "write" /\ st = "ok" -> Goto("command") /\ UNCHANGED sta
    [] caller = "stop"  /\ st = "ok" -> Goto("flags") /\ UNCHANGED sta
    [] caller = "abort" /\ st = "ok" -> Goto("class") /\ UNCHANGED sta
    [] caller = "erase" /\ st = "ok" -> Goto("CMD32") /\ UNCHANGED sta
    [] caller = "stop"  /\ st # "ok" -> Return(st) /\ sta' = sta \ DataFlags
    [] OTHER                         -> Return(st) /\ UNCHANGED sta

PollCard(st) ==
  /\ pc = "wait"
  /\ CmdResp1Error("CMD13", 0, st)
  /\ IF st \in {"timeout", "crc"} THEN WaitEnds("err")
     ELSE IF Ready(st) THEN WaitEnds("ok")
     ELSE IF polls = 1 THEN WaitEnds("err")
     ELSE Goto("wait") /\ UNCHANGED sta
  /\ polls' = IF pc' = "wait" THEN PollsLeft ELSE 0
  /\ caller' = IF pc' = "wait" THEN caller ELSE "done"
  /\ UNCHANGED <<req, buf, rxArmed>>

-----------------------------------------------------------------------------
(* erase_sd.                                                               *)

PrepareForErase(st) ==
  /\ pc = "prepare"
  /\ CmdResp1Error("CMD13", 0, st)
  /\ IF st # "ok" THEN Return("err")
     ELSE IF Ready(st) THEN Goto("class")
     ELSE Goto("abort")
  /\ UNCHANGED <<caller, req, polls, buf, flags>>

(* CMD12 is sent without awaiting its answer: the CMD13 that follows at    *)
(* once may overrun it in the command path.                                *)
AbortTransmission ==
  /\ pc = "abort"
  /\ \/ Performs("CMD12", 0)
     \/ ~Legal("CMD12") /\ Ignores({"ILLEGAL"})
     \/ Ignores({})
  /\ WaitFor("abort")
  /\ UNCHANGED <<req, buf, flags, faults, clean>>

(* csd.CCC & CARD_CLASS_5, where CCC has lost its upper four classes in a  *)
(* uint8_t and CARD_CLASS_5 is not the bit of class 5 but the number 5,    *)
(* which has the bits of classes 0 and 2.                                  *)
ClassCheckPasses == (Classes \cap 0 .. 7) \cap {0, 2} # {}

CheckClass ==
  /\ pc = "class"
  /\ rxArmed' = FALSE
  /\ IF ClassCheckPasses THEN WaitFor("erase") ELSE Return("err") /\ UNCHANGED <<caller, polls>>
  /\ UNCHANGED <<req, buf, sta, card_and_faults>>

(* CMD32 and CMD33 name the ends of the range, CMD38 erases it.  The pc is *)
(* the command to send.                                                    *)
EraseArgumentInCallersOrder(cmd) ==
  CASE cmd = "CMD32" -> req.start [] cmd = "CMD33" -> req.last [] OTHER -> 0
EraseArgument(cmd) ==
  CASE cmd = "CMD32" -> Lo(req) [] cmd = "CMD33" -> Hi(req) [] OTHER -> 0

NextErase(cmd) == IF cmd = "CMD32" THEN "CMD33" ELSE "CMD38"

SendEraseCommand(st) ==
  /\ pc \in EraseCommands
  /\ CmdResp1Error(pc, EraseArgument(pc), st)
  /\ IF st = "ok" /\ pc = "CMD38"
       THEN WaitFor("done")
       ELSE /\ IF st = "ok" THEN Goto(NextErase(pc)) ELSE Return("err")
            /\ UNCHANGED <<caller, polls>>
  /\ sta' = IF st # "ok" \/ pc = "CMD38" THEN sta \ DataFlags ELSE sta
  /\ UNCHANGED <<req, buf, rxArmed>>

-----------------------------------------------------------------------------
(* What the card and the controller do on their own.                       *)

CardProgrammed ==
  /\ card.state = "prg"
  /\ card' = [card EXCEPT !.state = "tran"]
  /\ UNCHANGED <<driver, flags, mem, lost, faults, clean>>

(* A single block that the driver does not wait for is sent all the same.  *)
CardSent ==
  /\ card.state = "data" /\ ~card.multi
  /\ pc # "transfer"
  /\ card' = [card EXCEPT !.state = "tran"]
  /\ UNCHANGED <<driver, flags, mem, lost, faults, clean>>

(* A DPSM left armed overruns its FIFO, or waits until its timer runs out. *)
LateFlag ==
  /\ rxArmed
  /\ pc # "transfer"
  /\ rxArmed' = FALSE
  /\ sta' = sta \cup {IF card.state = "data" THEN "RXOVERR" ELSE "DTIMEOUT"}
  /\ UNCHANGED <<driver, card, mem, lost, faults, clean>>

-----------------------------------------------------------------------------
Exchange ==
  \E st \in Statuses :
    \/ SendTransferCommand(st)
    \/ StopTransmission(st)
    \/ PollCard(st)
    \/ PrepareForErase(st)
    \/ SendEraseCommand(st)

Step == Attempt \/ EndOfLoop \/ CheckFlags \/ AbortTransmission \/ CheckClass

DataPhase ==
  \/ ReceiveBlock
  \/ SendBlock
  \/ \E f \in AllFlags : DataFault(f)

Environment == CardProgrammed \/ CardSent \/ LateFlag

Next ==
  \/ \E r \in Request : Submit(r)
  \/ Exchange
  \/ Step
  \/ DataPhase
  \/ Environment

(* The processor runs nothing but the driver, and DTIMER bounds every data *)
(* phase, so a request in progress always takes its next step.             *)
Spec == Init /\ [][Next]_vars

FairSpec == Spec /\ WF_vars(Exchange \/ Step \/ DataPhase)

-----------------------------------------------------------------------------
Locations ==
  {"idle", "attempt", "wait", "command", "transfer", "stop", "flags",
   "prepare", "abort", "class"} \cup EraseCommands

CardStates == {"tran", "data", "rcv", "prg"}

(* The state of the driver, the controller and the card has its type: the  *)
(* counters of read_safe_sd, write_safe_sd and wait_card_ready stay within *)
(* their limits and the buffer is indexed within the transfer.             *)
TypeOK ==
  /\ pc \in Locations
  /\ caller \in {"write", "stop", "done", "abort", "erase"}
  /\ req \in Request
  /\ attempts \in 0 .. (ReadAttempts + WriteAttempts)
  /\ polls \in 0 .. MaxPolls
  /\ moved \in 0 .. MaxCount
  /\ buf \in [0 .. (MaxCount - 1) -> Content]
  /\ result \in {"none", "ok", "err"}
  /\ sta \subseteq AllFlags
  /\ rxArmed \in BOOLEAN
  /\ card \in Card
  /\ mem \in [Block -> Content]
  /\ lost \subseteq Block
  /\ faults \in 0 .. MaxFaults
  /\ clean \in BOOLEAN

(* A request that read_safe_sd, write_safe_sd or erase_sd answered with 0  *)
(* has been carried out on every block of it, whatever was retried on the  *)
(* way: the buffer holds what the card holds, the card holds what was      *)
(* written or is erased, but for blocks the card itself failed to program. *)
OkMeansCarriedOut ==
  pc = "idle" /\ result = "ok" =>
    \A b \in Extent(req) :
      IF req.op = "read" THEN buf[b - req.start] = mem[b]
                         ELSE mem[b] = Target(req, b) \/ b \in lost

(* A success leaves the bus as the next transfer needs it: the card in the *)
(* transfer state with no error bit to report and no half-given erase, the *)
(* DPSM disarmed and no data flag latched.  Only STBITERR, which the clear *)
(* mask lacks, can outlive a successful erase (never a read or write).     *)
SuccessLeavesNothingPending ==
  pc = "idle" /\ result = "ok" =>
    /\ card.state = "tran" /\ card.err = {} /\ card.erase = "none"
    /\ sta \subseteq (IF req.op = "erase" THEN {"STBITERR"} ELSE {})
    /\ ~rxArmed

(* DATAEND is latched only from the end of a transfer, all of whose blocks *)
(* have moved, to the point that clears the flags: no transfer ever starts *)
(* with the DATAEND of an earlier one, which would end its loop at once.   *)
EndMeansAllMoved ==
  "DATAEND" \in sta =>
    /\ pc \in {"transfer", "stop", "flags"} \/ (pc = "wait" /\ caller = "stop")
    /\ moved = Count(req)

CanErase == ClassCheckPasses /\ 5 \in Classes

(* The retries absorb what they are for: a request that starts on a quiet  *)
(* bus and meets only data errors of a single block, fewer than it has     *)
(* attempts, succeeds, provided that the card is never busy for longer     *)
(* than wait_card_ready polls it, and can erase.                           *)
RetriesAbsorbDataFaults ==
  pc = "idle" /\ clean /\ MaxFaults < Attempts("write")
    /\ MaxFaults < Attempts("read") /\ (CanErase \/ req.op # "erase")
  => result # "err"

(* erase_sd sends the commands of class 5 only to a card that has them:    *)
(* the class check before them is there to refuse any other.               *)
ErasesOnlyWithClass5 == pc \in EraseCommands => 5 \in Classes

(* Every request is answered: the polling loops, the retries and the data  *)
(* phases all end, whatever state a fault has left the card in.            *)
EveryRequestAnswered == (pc # "idle") ~> (pc = "idle")

(* The driver implements the abstract block device.  In particular a block *)
(* outside a request never changes, and nothing changes between requests.  *)
Phase == IF pc = "idle" THEN "idle" ELSE "busy"

BD == INSTANCE BlockDevice WITH phase <- Phase

ImplementsBlockDevice == BD!Spec
=============================================================================
