---------------------------- MODULE SdInit_proof ----------------------------
(***************************************************************************)
(* Proofs about SdInit, for every set of cards, every content of their CSD *)
(* and every number of trials, attempts, polls, faults and resets.         *)
(***************************************************************************)
EXTENDS SdInit, TLAPS

-----------------------------------------------------------------------------
(* The CSD.                                                                *)

(* Adjacent cuts of a register join.                                       *)
LEMMA Joined ==
  ASSUME NEW reg \in SUBSET Register, NEW lo \in Nat, NEW mid \in Nat, NEW next \in Nat, NEW hi \in Nat,
         NEW k \in Nat, lo <= mid, next = mid + 1, next <= hi, k = next - lo
  PROVE  Bits(reg, hi, lo) = {i + k : i \in Bits(reg, hi, next)} \cup Bits(reg, mid, lo)
<1>1. \A j \in reg : j \in Nat
  BY DEF Register
<1>2. ASSUME NEW x \in Bits(reg, hi, lo)
      PROVE  x \in {i + k : i \in Bits(reg, hi, next)} \cup Bits(reg, mid, lo)
  <2>1. PICK j \in reg \cap (lo..hi) : x = j - lo
    BY <1>2 DEF Bits
  <2>2. CASE j <= mid
    BY <1>1, <2>1, <2>2 DEF Bits
  <2>3. CASE j > mid
    <3>1. j \in reg \cap ((mid + 1)..hi) /\ x = (j - (mid + 1)) + k
      BY <1>1, <2>1, <2>3
    <3> QED
      BY <3>1 DEF Bits
  <2> QED
    BY <1>1, <2>1, <2>2, <2>3
<1>3. ASSUME NEW i \in Bits(reg, hi, next)
      PROVE  i + k \in Bits(reg, hi, lo)
  <2>1. PICK j \in reg \cap ((mid + 1)..hi) : i = j - (mid + 1)
    BY <1>3 DEF Bits
  <2>2. j \in reg \cap (lo..hi) /\ i + k = j - lo
    BY <1>1, <2>1
  <2> QED
    BY <2>2 DEF Bits
<1>4. ASSUME NEW x \in Bits(reg, mid, lo)
      PROVE  x \in Bits(reg, hi, lo)
  <2>1. PICK j \in reg \cap (lo..mid) : x = j - lo
    BY <1>4 DEF Bits
  <2>2. j \in reg \cap (lo..hi)
    BY <1>1, <2>1
  <2> QED
    BY <2>1, <2>2 DEF Bits
<1> QED
  BY <1>2, <1>3, <1>4

(* The fields on which the version and the capacity depend.                *)
LEMMA SizeJoined ==
  ASSUME NEW reg \in SUBSET Register
  PROVE  /\ CsdStructure(reg) = Bits(reg, 127, 126)
         /\ CSize(reg) = IF Bits(reg, 127, 126) = V1 THEN Bits(reg, 73, 62) ELSE Bits(reg, 69, 48)
<1>1. CsdStructure(reg) = Bits(reg, 127, 126)
  BY DEF CsdStructure, Taken
<1>2. Bits(reg, 73, 62) = {i + 2 : i \in Taken(reg, 1, 9, 0)} \cup Taken(reg, 2, 31, 30)
  <2>1. Taken(reg, 1, 9, 0) = Bits(reg, 73, 64) /\ Taken(reg, 2, 31, 30) = Bits(reg, 63, 62)
    BY DEF Taken
  <2>2. Bits(reg, 73, 62) = {i + 2 : i \in Bits(reg, 73, 64)} \cup Bits(reg, 63, 62)
    <3>1. 64 \in Nat /\ 64 = 63 + 1 /\ 2 = 64 - 62
      OBVIOUS
    <3> QED
      BY <3>1, Joined
  <2> QED
    BY <2>1, <2>2, Zenon
<1>3. Bits(reg, 69, 48) = {i + 16 : i \in Taken(reg, 1, 5, 0)} \cup LowWord(reg)
  <2>1. Taken(reg, 1, 5, 0) = Bits(reg, 69, 64) /\ LowWord(reg) = Bits(reg, 63, 48)
    BY DEF Taken, LowWord
  <2>2. Bits(reg, 69, 48) = {i + 16 : i \in Bits(reg, 69, 64)} \cup Bits(reg, 63, 48)
    <3>1. 64 \in Nat /\ 64 = 63 + 1 /\ 16 = 64 - 48
      OBVIOUS
    <3> QED
      BY <3>1, Joined
  <2> QED
    BY <2>1, <2>2, Zenon
<1> QED
  BY <1>1, <1>2, <1>3 DEF CSize

(* Every field of every register but the ones in Misread is cut out where  *)
(* the specification has it.                                               *)
THEOREM RegisterIsReadAsMeant == \A reg \in SUBSET Register : ReadAsMeant(reg, reg)
<1> SUFFICES ASSUME NEW reg \in SUBSET Register, NEW f \in DOMAIN Meant(reg) \ Misread
             PROVE  Decoded(reg)[f] = IF f = "CCC" THEN Meant(reg)[f] \cap (0..7) ELSE Meant(reg)[f]
  BY DEF ReadAsMeant
<1> QED
  BY SizeJoined, SMTT(30) DEF Decoded, Meant, Misread, Taken

-----------------------------------------------------------------------------
(* The inductive invariant.                                                *)

(* What is left of the loops is enough for the turn the driver is in.      *)
Counting ==
  /\ pc \in {"fallback", "CMD55", "ACMD41"} => trials \in 1 .. MaxTrials
  /\ pc \in {"fallback", "CMD55", "ACMD41", "APP6"} => left \in 1 .. MaxApp
  /\ pc = "wait" => left \in 1 .. MaxPolls

(* What has been learnt of the card is so.                                 *)
Identified ==
  /\ pc = "CMD9" => rca # 0
  /\ pc \in {"CMD7", "wait", "APP6", "ACMD6"} \/ result = "ok" =>
       /\ csd = kind.csd
       /\ version = "SDSC" <=> ~kind.ccs
       /\ card.rca = rca /\ rca # 0

(* How far the card has come.                                              *)
Selected ==
  /\ pc = "CMD7" => card.state = "stby"
  /\ pc = "wait" => card.state \in {"stby", "tran"}
  /\ pc \in {"APP6", "ACMD6"} \/ result = "ok" => card.state = "tran"
  /\ result = "ok" => card.wide /\ bus = 4
  /\ bus = 4 => result = "ok"
  /\ result # "none" => pc = "done"

(* Where a run without a fault has got, card and driver in step.  A card   *)
(* that addresses bytes gets no further than ACMD41.                       *)
InStep ==
  /\ pc \notin {"fallback", "wait", "inactive", "hung"}
  /\ pc \in {"CMD8", "CMD55", "ACMD41"} => card.state = "idle" /\ card.rca = 0 /\ rca = 0
  /\ pc = "CMD2" => card.state = "ready"
  /\ pc = "CMD3" => card.state = "ident"
  /\ pc \in {"CMD9", "CMD7"} => card.state = "stby" /\ card.rca = rca
  /\ pc \in {"APP6", "ACMD6"} => card.state = "tran" /\ card.rca = rca
  /\ pc \in {"ACMD41", "ACMD6"} => card.app
  /\ pc \notin {"reset", "done"} => ~card.err

CleanRun ==
  clean /\ inserted =>
    /\ pc = "reset" => card.state # "ina"
    /\ pc = "CMD8" => card = Idle /\ rca = 0
    /\ ~kind.ccs => pc \in {"reset", "CMD8", "fallback", "CMD55", "ACMD41", "inactive", "done"}
    /\ kind.ccs => InStep
    /\ result = "err" /\ Structure(kind) = V2 => trials = 0 /\ card.state = "idle"

IInv ==
  /\ TypeOK
  /\ Counting
  /\ Identified
  /\ Selected
  /\ CleanRun

-----------------------------------------------------------------------------
(* One command and its answer.                                             *)

LEMMA KindFacts ==
  ASSUME kind \in Kinds
  PROVE  /\ kind.csd \in SUBSET Register
         /\ kind.ccs \in BOOLEAN /\ kind.v2 \in BOOLEAN /\ kind.uhs \in BOOLEAN
         /\ kind.ccs => kind.v2
         /\ Structure(kind) = CsdStructure(kind.csd)
         /\ Structure(kind) = V1 <=> ~kind.ccs
<1>1. kind \in Kind
  BY SdInitAssumption
<1>2. kind.csd \in SUBSET Register
  BY <1>1 DEF Kind
<1>3. Structure(kind) = CsdStructure(kind.csd)
  BY <1>2, SizeJoined DEF Structure, Meant
<1> QED
  BY <1>1, <1>2, <1>3, SdInitAssumption DEF Kind

Commands == {"CMD8", "CMD55", "ACMD41", "CMD2", "CMD3", "CMD9", "CMD7", "CMD13", "ACMD6"}

LEMMA ExecutedFacts ==
  ASSUME card \in Card, NEW cmd \in Commands, NEW d \in Executed(cmd)
  PROVE  /\ d \in Card
         /\ d.app = (cmd = "CMD55")
         /\ ~card.err => ~d.err
         /\ cmd \notin {"CMD55", "CMD3", "CMD7", "CMD13", "ACMD6"} => d.err = card.err
         /\ cmd # "CMD3" => d.rca = card.rca
         /\ cmd # "ACMD6" => d.wide = card.wide
         /\ cmd \notin {"ACMD41", "CMD2", "CMD3", "CMD7"} => d.state = card.state
         /\ cmd = "ACMD41" => d.state \in {card.state, "ready"}
         /\ cmd = "CMD2" => d.state = "ident"
         /\ cmd = "CMD3" => d.state = "stby" /\ d.rca \in Rca
         /\ cmd = "CMD7" => d.state = "tran"
         /\ cmd = "ACMD6" => d.wide
<1> DEFINE c == [card EXCEPT !.app = (cmd = "CMD55"),
                             !.err = @ /\ cmd \notin {"CMD55", "CMD3", "CMD7", "CMD13", "ACMD6"}]
<1>1. /\ c \in Card /\ c.app = (cmd = "CMD55") /\ (~card.err => ~c.err)
      /\ cmd \notin {"CMD55", "CMD3", "CMD7", "CMD13", "ACMD6"} => c.err = card.err
      /\ c.rca = card.rca /\ c.wide = card.wide /\ c.state = card.state
  BY DEF Card
<1>2. /\ cmd = "ACMD41" => d \in {c, [c EXCEPT !.state = "ready"]}
      /\ cmd = "CMD2" => d = [c EXCEPT !.state = "ident"]
      /\ cmd = "CMD3" => \E a \in Rca : d = [c EXCEPT !.state = "stby", !.rca = a]
      /\ cmd = "CMD7" => d = [c EXCEPT !.state = "tran"]
      /\ cmd = "ACMD6" => d = [c EXCEPT !.wide = TRUE]
      /\ cmd \notin {"ACMD41", "CMD2", "CMD3", "CMD7", "ACMD6"} => d = c
  BY DEF Executed
<1> HIDE DEF c
<1>3. CASE cmd = "ACMD41"
  BY <1>1, <1>2, <1>3 DEF Card
<1>4. CASE cmd = "CMD2"
  BY <1>1, <1>2, <1>4 DEF Card
<1>5. CASE cmd = "CMD3"
  BY <1>1, <1>2, <1>5 DEF Card
<1>6. CASE cmd = "CMD7"
  BY <1>1, <1>2, <1>6 DEF Card
<1>7. CASE cmd = "ACMD6"
  <2>1. d = [c EXCEPT !.wide = TRUE]
    BY <1>2, <1>7
  <2>2. /\ d \in Card /\ d.wide
        /\ d.state = c.state /\ d.rca = c.rca /\ d.app = c.app /\ d.err = c.err
    BY <1>1, <2>1 DEF Card
  <2> QED
    BY <1>1, <1>7, <2>2
<1>8. CASE cmd \notin {"ACMD41", "CMD2", "CMD3", "CMD7", "ACMD6"}
  BY <1>1, <1>2, <1>8
<1> QED
  BY <1>3, <1>4, <1>5, <1>6, <1>7, <1>8

LEMMA RefusedType ==
  ASSUME card \in Card
  PROVE  /\ Refused \in Card /\ Refused.state = card.state
         /\ Refused.rca = card.rca /\ Refused.wide = card.wide
BY DEF Refused, Card

LEMMA FaultType ==
  ASSUME TypeOK, Fault \/ NoFault
  PROVE  faults' \in 0 .. MaxFaults /\ clean' \in BOOLEAN /\ (clean' => clean)
<1>1. MaxFaults \in Nat /\ faults \in 0 .. MaxFaults /\ clean \in BOOLEAN
  <2>1. MaxFaults \in Nat
    BY SdInitAssumption
  <2> QED
    BY <2>1 DEF TypeOK
<1>2. CASE Fault
  <2>1. faults' \in 0 .. MaxFaults
    BY <1>1, <1>2 DEF Fault
  <2>2. clean' = FALSE
    BY <1>2 DEF Fault
  <2> QED
    BY <2>1, <2>2
<1>3. CASE NoFault
  BY <1>1, <1>3 DEF NoFault
<1> QED
  BY <1>2, <1>3

LEMMA ExchangeFacts ==
  ASSUME TypeOK, NEW cmd \in Commands, NEW st, Exchange(cmd, st)
  PROVE  /\ UNCHANGED <<kind, inserted, resets>>
         /\ card' \in Card /\ faults' \in 0 .. MaxFaults /\ clean' \in BOOLEAN
         /\ clean' => clean
         /\ st = "ok" => Answers /\ Legal(cmd) /\ card' \in Executed(cmd)
         /\ card' \in Executed(cmd) \/ card' \in {card, Refused}
<1>1. card \in Card
  BY DEF TypeOK
<1>2. card' \in Card
  BY <1>1, ExecutedFacts, RefusedType DEF Exchange
<1>3. Fault \/ NoFault
  BY DEF Exchange
<1> QED
  BY <1>2, <1>3, FaultType DEF Exchange

(* Without a fault a command that is legal is answered.                    *)
LEMMA CleanExchange ==
  ASSUME TypeOK, NEW cmd \in Commands, NEW st, Exchange(cmd, st), clean',
         inserted, card.state # "ina", Legal(cmd), ~card.err
  PROVE  st = "ok" /\ card' \in Executed(cmd)
<1>1. ~Fault
  BY DEF Fault
<1> QED
  BY <1>1 DEF Exchange, Answers

-----------------------------------------------------------------------------
LEMMA InitIInv == Init => IInv
<1> SUFFICES ASSUME Init PROVE IInv
  OBVIOUS
<1>1. card = Idle /\ Idle \in Card /\ Idle.state = "idle"
  BY DEF Init, Idle, Card
<1>2. TypeOK
  BY <1>1, SdInitAssumption DEF Init, TypeOK
<1> QED
  BY <1>1, <1>2 DEF Init, IInv, Counting, Identified, Selected, CleanRun, InStep

LEMMA GoIdleType ==
  ASSUME NEW c \in Card
  PROVE  /\ GoIdle(c) \in Card
         /\ inserted /\ c.state # "ina" => GoIdle(c) = Idle
BY DEF GoIdle, Idle, Card

LEMMA IdleFacts ==
  Idle.state = "idle" /\ Idle.rca = 0 /\ ~Idle.err
BY DEF Idle

(* One lemma per action.                                                   *)
LEMMA ResetSdIInv ==
  ASSUME IInv, ResetSd
  PROVE  IInv'
<1>1. /\ pc = "reset" /\ bus' = 1
      /\ UNCHANGED <<left, trials, csd, kind, inserted, resets>>
      /\ result = "none"
  BY DEF ResetSd, ResetCard, IInv, Selected
<1>2. /\ version' \in {"unknown", version} /\ rca' \in {0, rca}
      /\ \/ pc' = "CMD8" /\ result' = result /\ rca' = 0
         \/ pc' = "done" /\ result' = "err"
  BY DEF ResetSd, ResetCard, Forget, Goto, Answer
<1>3. card' \in Card /\ (Fault \/ NoFault)
  BY GoIdleType DEF ResetSd, ResetCard, IInv, TypeOK
<1>4. clean' => card' = GoIdle(card) /\ clean /\ pc' = "CMD8"
  BY DEF ResetSd, ResetCard, Goto, Fault, NoFault
<1>5. TypeOK'
  BY <1>1, <1>2, <1>3, FaultType DEF IInv, TypeOK
<1>6. CleanRun'
  <2> SUFFICES ASSUME clean', inserted PROVE card' = Idle
    BY <1>1, <1>2, <1>4, IdleFacts DEF CleanRun, InStep
  <2> QED
    BY <1>1, <1>4, GoIdleType DEF IInv, TypeOK, CleanRun
<1> QED
  BY <1>1, <1>2, <1>5, <1>6 DEF IInv, Counting, Identified, Selected

LEMMA FallBackIInv ==
  ASSUME IInv, FallBack
  PROVE  IInv'
<1>1. /\ pc = "fallback"
      /\ UNCHANGED <<left, trials, csd, bus, kind, inserted, resets>>
      /\ result = "none"
  BY DEF FallBack, ResetCard, IInv, Selected
<1>2. /\ version' \in {"unknown", version} /\ rca' \in {0, rca}
      /\ \/ pc' = "CMD55" /\ result' = result /\ rca' = 0
         \/ pc' = "done" /\ result' = "err"
  BY DEF FallBack, ResetCard, Forget, Goto, Answer
<1>3. card' \in Card /\ (Fault \/ NoFault) /\ (clean' => clean /\ pc' = "CMD55")
  BY GoIdleType DEF FallBack, ResetCard, Goto, IInv, TypeOK, Fault, NoFault
<1>4. TypeOK'
  BY <1>1, <1>2, <1>3, FaultType DEF IInv, TypeOK
<1>5. CleanRun'
  BY <1>1, <1>2, <1>3 DEF IInv, CleanRun, InStep
<1> QED
  BY <1>1, <1>2, <1>4, <1>5 DEF IInv, Counting, Identified, Selected

LEMMA ValidateIInv ==
  ASSUME IInv, NEW st \in Statuses, ValidateOperatingVoltage(st)
  PROVE  IInv'
<1>0. TypeOK /\ kind \in Kinds
  BY DEF IInv, TypeOK
<1>1. /\ pc = "CMD8" /\ Exchange("CMD8", st) /\ trials' = MaxTrials /\ left' = MaxApp
      /\ UNCHANGED <<rca, csd, bus>> /\ result = "none" /\ bus # 4
  BY DEF ValidateOperatingVoltage, IInv, Selected
<1>2. \/ st = "ok" /\ pc' = "CMD55" /\ result' = result /\ version' = "V2_X"
      \/ st # "ok" /\ pc' = "fallback" /\ result' = result /\ version' = "V1_X"
      \/ st # "ok" /\ pc' = "done" /\ result' = "err" /\ version' = version
  BY DEF ValidateOperatingVoltage, Goto, Answer
<1>3. /\ UNCHANGED <<kind, inserted, resets>> /\ (clean' => clean)
      /\ card' \in Card /\ faults' \in 0 .. MaxFaults /\ clean' \in BOOLEAN
  BY <1>0, <1>1, ExchangeFacts DEF Commands
<1>4. MaxTrials \in 1 .. MaxTrials /\ MaxApp \in 1 .. MaxApp /\ MaxApp \in 0 .. (MaxApp + MaxPolls)
      /\ MaxTrials \in 0 .. MaxTrials
  BY SdInitAssumption
<1>5. TypeOK'
  BY <1>0, <1>1, <1>2, <1>3, <1>4 DEF TypeOK
<1>6. CleanRun'
  <2> SUFFICES ASSUME clean', inserted PROVE CleanRun'
    BY <1>3 DEF CleanRun
  <2>1. card = Idle /\ rca = 0
    BY <1>1, <1>3 DEF IInv, CleanRun
  <2>2. CASE kind.v2
    <3>1. Legal("CMD8")
      BY <2>1, <2>2, IdleFacts DEF Legal
    <3>2. st = "ok" /\ card' \in Executed("CMD8")
      BY <1>0, <1>1, <2>1, <3>1, IdleFacts, CleanExchange DEF Commands
    <3>3. card'.state = "idle" /\ card'.rca = 0 /\ ~card'.err
      BY <1>0, <2>1, <3>2, IdleFacts, ExecutedFacts DEF Commands, TypeOK
    <3> QED
      BY <1>1, <1>2, <1>3, <2>1, <3>2, <3>3 DEF CleanRun, InStep
  <2>3. CASE ~kind.v2
    <3>1. ~kind.ccs /\ Structure(kind) # V2
      BY <1>0, <2>3, KindFacts DEF V1, V2
    <3> QED
      BY <1>1, <1>2, <1>3, <3>1 DEF CleanRun, Structure
  <2> QED
    BY <2>2, <2>3
<1> QED
  BY <1>1, <1>2, <1>3, <1>4, <1>5, <1>6 DEF IInv, Counting, Identified, Selected

LEMMA ForOpCondIInv ==
  ASSUME IInv, NEW st \in Statuses, AppCommandForOpCond(st)
  PROVE  IInv'
<1>0. TypeOK /\ kind \in Kinds
  BY DEF IInv, TypeOK
<1>1. /\ pc = "CMD55" /\ UNCHANGED <<trials, rca, version, csd, bus>>
      /\ result = "none" /\ bus # 4 /\ left \in 1 .. MaxApp /\ trials \in 1 .. MaxTrials
  BY DEF AppCommandForOpCond, IInv, Selected, Counting
<1>2. /\ Exchange("CMD55", st) /\ left' \in 1 .. MaxApp
      /\ \/ st = "ok" /\ pc' = "ACMD41" /\ result' = result
         \/ st # "ok" /\ pc' = "done" /\ result' = "err"
         \/ st # "ok" /\ pc' = pc /\ result' = result
  <2>1. AppCommand(st, "ACMD41", OpCondNotSent)
    BY DEF AppCommandForOpCond
  <2>2. /\ Exchange("CMD55", st) /\ left' \in 1 .. MaxApp
        /\ \/ st = "ok" /\ Goto("ACMD41")
           \/ st # "ok" /\ OpCondNotSent
           \/ st # "ok" /\ UNCHANGED <<pc, result>>
    <3>1. MaxApp \in 1 .. MaxApp /\ MaxApp \in Nat
      BY SdInitAssumption
    <3>2. left # 1 => left - 1 \in 1 .. MaxApp
      BY <1>1, <3>1
    <3> QED
      BY <2>1, <3>1, <3>2 DEF AppCommand, AttemptsLeft
  <2> QED
    BY <2>2 DEF Goto, OpCondNotSent, Answer
<1>3. /\ UNCHANGED <<kind, inserted, resets>> /\ (clean' => clean)
      /\ card' \in Card /\ faults' \in 0 .. MaxFaults /\ clean' \in BOOLEAN
  BY <1>0, <1>2, ExchangeFacts DEF Commands
<1>4. left' \in 0 .. (MaxApp + MaxPolls)
  BY <1>2, SdInitAssumption
<1>5. TypeOK'
  BY <1>0, <1>1, <1>2, <1>3, <1>4 DEF TypeOK
<1>6. CleanRun'
  <2> SUFFICES ASSUME clean', inserted PROVE CleanRun'
    BY <1>3 DEF CleanRun
  <2>1. CASE kind.ccs
    <3>1. card.state = "idle" /\ rca = 0 /\ card.rca = 0 /\ ~card.err
      BY <1>1, <1>3, <2>1 DEF IInv, CleanRun, InStep
    <3>2. st = "ok" /\ card' \in Executed("CMD55")
      BY <1>0, <1>2, <3>1, CleanExchange DEF Commands, Legal
    <3>3. card'.state = "idle" /\ card'.rca = 0 /\ ~card'.err /\ card'.app
      BY <1>0, <3>1, <3>2, ExecutedFacts DEF Commands, TypeOK
    <3> QED
      BY <1>1, <1>2, <1>3, <2>1, <3>1, <3>2, <3>3 DEF CleanRun, InStep
  <2>2. CASE ~kind.ccs
    <3>1. Structure(kind) # V2
      BY <1>0, <2>2, KindFacts DEF V1, V2
    <3> QED
      BY <1>1, <1>2, <1>3, <2>2, <3>1 DEF CleanRun, Structure
  <2> QED
    BY <2>1, <2>2
<1> QED
  BY <1>1, <1>2, <1>3, <1>5, <1>6 DEF IInv, Counting, Identified, Selected

LEMMA SendOpCondIInv ==
  ASSUME IInv, NEW st \in Statuses, SendOpCond(st)
  PROVE  IInv'
<1>0. TypeOK /\ kind \in Kinds
  BY DEF IInv, TypeOK
<1>1. /\ pc = "ACMD41" /\ UNCHANGED <<left, rca, csd, bus>> /\ Exchange("ACMD41", st)
      /\ result = "none" /\ bus # 4 /\ left \in 1 .. MaxApp /\ trials \in 1 .. MaxTrials
      /\ MaxTrials \in Nat
  BY SdInitAssumption DEF SendOpCond, IInv, Selected, Counting
<1>2. ASSUME NEW ccs \in BOOLEAN, NEW uhs \in BOOLEAN, OpCondAnswer(ccs, uhs)
      PROVE  \/ ccs /\ pc' = "CMD2" /\ result' = result /\ version' \in {"SDSC", "SDXC"} /\ trials' = trials
             \/ ~ccs /\ pc' = "done" /\ result' = "err" /\ version' = version /\ trials' = 0
             \/ ~ccs /\ pc' = "CMD55" /\ result' = result /\ version' = version
                /\ trials' \in 1 .. MaxTrials
  BY <1>1, <1>2 DEF OpCondAnswer, Goto, Answer, VersionOfOcr, LastTrial
<1>3. /\ UNCHANGED <<kind, inserted, resets>> /\ (clean' => clean)
      /\ card' \in Card /\ faults' \in 0 .. MaxFaults /\ clean' \in BOOLEAN
  BY <1>0, <1>1, ExchangeFacts DEF Commands
<1> DEFINE said == kind.ccs /\ card'.state = "ready"
<1>4. /\ st = "ok" => OpCondAnswer(said, kind.uhs)
      /\ st = "timeout" => pc' = "inactive" /\ UNCHANGED <<result, version, trials>>
      /\ st \notin {"ok", "timeout"} => \E ccs, uhs \in BOOLEAN : OpCondAnswer(ccs, uhs)
  BY DEF SendOpCond, Goto
<1>5. said \in BOOLEAN /\ kind.uhs \in BOOLEAN
  BY <1>0, KindFacts
<1> HIDE DEF said
<1>6. \/ pc' = "inactive" /\ UNCHANGED <<result, version, trials>> /\ st = "timeout"
      \/ pc' = "CMD2" /\ result' = result /\ version' \in {"SDSC", "SDXC"} /\ trials' = trials
         /\ st # "timeout" /\ (st = "ok" => said)
      \/ pc' = "done" /\ result' = "err" /\ version' = version /\ trials' = 0
         /\ (st = "ok" => ~said)
      \/ pc' = "CMD55" /\ result' = result /\ version' = version /\ trials' \in 1 .. MaxTrials
         /\ (st = "ok" => ~said)
  BY <1>2, <1>4, <1>5
<1>7. TypeOK'
  BY <1>0, <1>1, <1>3, <1>6 DEF TypeOK
<1>8. CleanRun'
  <2> SUFFICES ASSUME clean', inserted PROVE CleanRun'
    BY <1>3 DEF CleanRun
  <2>1. CASE kind.ccs
    <3>1. card.state = "idle" /\ card.app /\ rca = 0 /\ card.rca = 0 /\ ~card.err
      BY <1>1, <1>3, <2>1 DEF IInv, CleanRun, InStep
    <3>2. st = "ok" /\ card' \in Executed("ACMD41")
      BY <1>0, <1>1, <3>1, CleanExchange DEF Commands, Legal
    <3>3. card'.state \in {"idle", "ready"} /\ card'.rca = 0 /\ ~card'.err
      BY <1>0, <3>1, <3>2, ExecutedFacts DEF Commands, TypeOK
    <3>4. said = (card'.state = "ready")
      BY <2>1 DEF said
    <3> QED
      BY <1>1, <1>3, <1>6, <2>1, <3>1, <3>2, <3>3, <3>4 DEF CleanRun, InStep
  <2>2. CASE ~kind.ccs
    <3>1. Structure(kind) # V2 /\ ~said
      BY <1>0, <2>2, KindFacts DEF V1, V2, said
    <3>2. st \in {"ok", "timeout"}
      <4>1. ~Fault
        BY DEF Fault
      <4>2. card' \in Executed("ACMD41") => card'.err = card.err
        BY <1>0, ExecutedFacts DEF Commands, TypeOK
      <4> QED
        BY <1>1, <4>1, <4>2 DEF Exchange
    <3>3. pc' \in {"inactive", "done", "CMD55"}
      BY <1>6, <3>1, <3>2
    <3> QED
      BY <1>3, <2>2, <3>1, <3>3 DEF CleanRun, Structure
  <2> QED
    BY <2>1, <2>2
<1> QED
  BY <1>1, <1>3, <1>6, <1>7, <1>8 DEF IInv, Counting, Identified, Selected

LEMMA AllSendCidIInv ==
  ASSUME IInv, NEW st \in Statuses, AllSendCid(st)
  PROVE  IInv'
<1>0. TypeOK /\ kind \in Kinds
  BY DEF IInv, TypeOK
<1>1. /\ pc = "CMD2" /\ Exchange("CMD2", st) /\ UNCHANGED <<left, trials, rca, version, csd, bus, result>>
      /\ pc' = (IF st = "ok" THEN "CMD3" ELSE "inactive")
      /\ result = "none" /\ bus # 4
  BY DEF AllSendCid, Goto, IInv, Selected
<1>2. /\ UNCHANGED <<kind, inserted, resets>> /\ (clean' => clean)
      /\ card' \in Card /\ faults' \in 0 .. MaxFaults /\ clean' \in BOOLEAN
  BY <1>0, <1>1, ExchangeFacts DEF Commands
<1>3. TypeOK'
  BY <1>0, <1>1, <1>2 DEF TypeOK
<1>4. CleanRun'
  <2> SUFFICES ASSUME clean', inserted PROVE CleanRun'
    BY <1>2 DEF CleanRun
  <2>1. kind.ccs /\ card.state = "ready" /\ ~card.err
    BY <1>1, <1>2 DEF IInv, CleanRun, InStep
  <2>2. st = "ok" /\ card' \in Executed("CMD2")
    BY <1>0, <1>1, <2>1, CleanExchange DEF Commands, Legal
  <2>3. card'.state = "ident" /\ ~card'.err
    BY <1>0, <2>1, <2>2, ExecutedFacts DEF Commands, TypeOK
  <2> QED
    BY <1>1, <1>2, <2>1, <2>2, <2>3 DEF CleanRun, InStep
<1> QED
  BY <1>1, <1>2, <1>3, <1>4 DEF IInv, Counting, Identified, Selected

LEMMA SendRelativeAddrIInv ==
  ASSUME IInv, NEW st \in Statuses, SendRelativeAddr(st)
  PROVE  IInv'
<1>0. TypeOK /\ kind \in Kinds
  BY DEF IInv, TypeOK
<1>1. /\ pc = "CMD3" /\ Exchange("CMD3", st) /\ UNCHANGED <<left, trials, version, csd, bus, result>>
      /\ \/ st = "ok" /\ pc' = "CMD9" /\ rca' = card'.rca
         \/ st # "ok" /\ pc' = "inactive" /\ rca' = rca
      /\ result = "none" /\ bus # 4
  BY DEF SendRelativeAddr, Goto, IInv, Selected
<1>2. /\ UNCHANGED <<kind, inserted, resets>> /\ (clean' => clean)
      /\ card' \in Card /\ faults' \in 0 .. MaxFaults /\ clean' \in BOOLEAN
      /\ st = "ok" => card' \in Executed("CMD3")
  BY <1>0, <1>1, ExchangeFacts DEF Commands
<1>3. st = "ok" => /\ card'.state = "stby" /\ card'.rca \in Rca
                   /\ card'.rca # 0 /\ (~card.err => ~card'.err)
  BY <1>0, <1>2, ExecutedFacts DEF Commands, TypeOK, Rca
<1>4. TypeOK'
  BY <1>0, <1>1, <1>2, <1>3 DEF TypeOK
<1>5. CleanRun'
  <2> SUFFICES ASSUME clean', inserted PROVE CleanRun'
    BY <1>2 DEF CleanRun
  <2>1. kind.ccs /\ card.state = "ident" /\ ~card.err
    BY <1>1, <1>2 DEF IInv, CleanRun, InStep
  <2>2. st = "ok"
    BY <1>0, <1>1, <2>1, CleanExchange DEF Commands, Legal
  <2> QED
    BY <1>1, <1>2, <1>3, <2>1, <2>2 DEF CleanRun, InStep
<1> QED
  BY <1>1, <1>2, <1>3, <1>4, <1>5 DEF IInv, Counting, Identified, Selected

(* The version is SDSC exactly for a card of the first CSD structure.      *)
LEMMA LoadCsdIInv ==
  ASSUME IInv, NEW st \in Statuses, LoadCsd(st)
  PROVE  IInv'
<1>0. TypeOK /\ kind \in Kinds
  BY DEF IInv, TypeOK
<1>1. /\ pc = "CMD9" /\ Exchange("CMD9", st) /\ UNCHANGED <<left, trials, rca, bus>>
      /\ csd' = (IF st = "ok" THEN kind.csd ELSE csd)
      /\ \/ /\ st = "ok" /\ CsdStructure(csd') \in {V1, V2} /\ pc' = "CMD7" /\ result' = result
            /\ version' = VersionOfCsd(csd')
         \/ /\ ~(st = "ok" /\ CsdStructure(csd') \in {V1, V2})
            /\ pc' = "done" /\ result' = "err" /\ version' = version
      /\ result = "none" /\ bus # 4 /\ rca # 0
  BY DEF LoadCsd, Goto, Answer, IInv, Selected, Identified
<1>2. /\ UNCHANGED <<kind, inserted, resets>> /\ (clean' => clean)
      /\ card' \in Card /\ faults' \in 0 .. MaxFaults /\ clean' \in BOOLEAN
      /\ st = "ok" => Legal("CMD9") /\ card' \in Executed("CMD9")
  BY <1>0, <1>1, ExchangeFacts DEF Commands
<1>3. st = "ok" => /\ card'.state = "stby" /\ card'.rca = rca
                   /\ (~card.err => ~card'.err)
  BY <1>0, <1>2, ExecutedFacts DEF Commands, TypeOK, Legal
<1>4. st = "ok" => csd' = kind.csd /\ CsdStructure(csd') = Structure(kind)
  BY <1>0, <1>1, KindFacts
<1>5. pc' = "CMD7" => /\ version' \in {"SDSC", "SDHC", "SDXC"}
                      /\ version' = "SDSC" <=> ~kind.ccs
  <2>1. pc' = "CMD7" => version' = VersionOfCsd(csd')
    BY <1>1
  <2>2. VersionOfCsd(csd') \in {"SDSC", "SDHC", "SDXC"}
        /\ (VersionOfCsd(csd') = "SDSC" <=> CsdStructure(csd') = V1)
    BY DEF VersionOfCsd
  <2>3. pc' = "CMD7" => (CsdStructure(csd') = V1 <=> ~kind.ccs)
    BY <1>0, <1>1, <1>4, KindFacts
  <2> QED
    BY <2>1, <2>2, <2>3
<1>6. csd' \subseteq Register
  BY <1>0, <1>1, KindFacts DEF TypeOK
<1>7. TypeOK'
  BY <1>0, <1>1, <1>2, <1>5, <1>6 DEF TypeOK
<1>8. CleanRun'
  <2> SUFFICES ASSUME clean', inserted PROVE CleanRun'
    BY <1>2 DEF CleanRun
  <2>1. kind.ccs /\ card.state = "stby" /\ card.rca = rca /\ ~card.err
    BY <1>1, <1>2 DEF IInv, CleanRun, InStep
  <2>2. st = "ok"
    BY <1>0, <1>1, <2>1, CleanExchange DEF Commands, Legal
  <2>3. pc' = "done" => Structure(kind) # V2
    BY <1>1, <1>4, <2>2
  <2> QED
    BY <1>1, <1>2, <1>3, <2>1, <2>2, <2>3 DEF CleanRun, InStep, Structure
<1> QED
  BY <1>1, <1>2, <1>3, <1>4, <1>5, <1>7, <1>8 DEF IInv, Counting, Identified, Selected

LEMMA SelectCardIInv ==
  ASSUME IInv, NEW st \in Statuses, SelectCard(st)
  PROVE  IInv'
<1>0. TypeOK /\ kind \in Kinds
  BY DEF IInv, TypeOK
<1>1. /\ pc = "CMD7" /\ Exchange("CMD7", st) /\ UNCHANGED <<trials, rca, version, csd, bus>>
      /\ \/ st = "ok" /\ pc' = "APP6" /\ result' = result /\ left' = MaxApp
         \/ st # "ok" /\ pc' = "wait" /\ result' = result /\ left' = MaxPolls
         \/ st # "ok" /\ pc' = "done" /\ result' = "err" /\ left' = left
      /\ result = "none" /\ bus # 4
      /\ csd = kind.csd /\ (version = "SDSC" <=> ~kind.ccs)
      /\ card.rca = rca /\ rca # 0 /\ card.state = "stby"
  BY DEF SelectCard, Goto, Answer, IInv, Selected, Identified
<1>2. /\ UNCHANGED <<kind, inserted, resets>> /\ (clean' => clean)
      /\ card' \in Card /\ faults' \in 0 .. MaxFaults /\ clean' \in BOOLEAN
      /\ st = "ok" => card' \in Executed("CMD7")
      /\ card' \in Executed("CMD7") \/ card' \in {card, Refused}
  BY <1>0, <1>1, ExchangeFacts DEF Commands
<1>3. card \in Card
  BY <1>0 DEF TypeOK
<1>4. card' \in Executed("CMD7") =>
        card'.state = "tran" /\ card'.rca = rca /\ (~card.err => ~card'.err)
  BY <1>1, <1>3, ExecutedFacts DEF Commands
<1>5. card'.state \in {"stby", "tran"} /\ card'.rca = rca
  BY <1>1, <1>2, <1>3, <1>4, RefusedType
<1>6. MaxPolls \in 1 .. MaxPolls /\ MaxApp \in 1 .. MaxApp
      /\ MaxPolls \in 0 .. (MaxApp + MaxPolls) /\ MaxApp \in 0 .. (MaxApp + MaxPolls)
  BY SdInitAssumption
<1>7. TypeOK'
  BY <1>0, <1>1, <1>2, <1>6 DEF TypeOK
<1>8. CleanRun'
  <2> SUFFICES ASSUME clean', inserted PROVE CleanRun'
    BY <1>2 DEF CleanRun
  <2>1. kind.ccs /\ ~card.err
    BY <1>1, <1>2 DEF IInv, CleanRun, InStep
  <2>2. st = "ok"
    BY <1>0, <1>1, <2>1, CleanExchange DEF Commands, Legal
  <2> QED
    BY <1>1, <1>2, <1>4, <2>1, <2>2 DEF CleanRun, InStep
<1> QED
  BY <1>1, <1>2, <1>4, <1>5, <1>6, <1>7, <1>8 DEF IInv, Counting, Identified, Selected

LEMMA WaitCardReadyIInv ==
  ASSUME IInv, NEW st \in Statuses, WaitCardReady(st)
  PROVE  IInv'
<1>0. TypeOK /\ kind \in Kinds
  BY DEF IInv, TypeOK
<1>1. /\ pc = "wait" /\ Exchange("CMD13", st) /\ UNCHANGED <<trials, rca, version, csd, bus>>
      /\ result = "none" /\ bus # 4 /\ left \in 1 .. MaxPolls
      /\ csd = kind.csd /\ (version = "SDSC" <=> ~kind.ccs)
      /\ card.rca = rca /\ rca # 0 /\ card.state \in {"stby", "tran"}
  BY DEF WaitCardReady, IInv, Selected, Identified, Counting
<1>2. \/ st = "ok" /\ card.state = "tran" /\ pc' = "APP6" /\ result' = result /\ left' = MaxApp
      \/ pc' = "wait" /\ result' = result /\ left' = left - 1 /\ left # 1
      \/ pc' = "done" /\ result' = "err" /\ left' = left
  BY <1>1 DEF WaitCardReady, Goto, Answer, AttemptsLeft
<1>3. /\ UNCHANGED <<kind, inserted, resets>> /\ (clean' => clean)
      /\ card' \in Card /\ faults' \in 0 .. MaxFaults /\ clean' \in BOOLEAN
      /\ card' \in Executed("CMD13") \/ card' \in {card, Refused}
  BY <1>0, <1>1, ExchangeFacts DEF Commands
<1>4. card \in Card
  BY <1>0 DEF TypeOK
<1>5. card'.state = card.state /\ card'.rca = rca
  BY <1>1, <1>3, <1>4, RefusedType, ExecutedFacts DEF Commands
<1>6. /\ MaxApp \in 1 .. MaxApp /\ MaxApp \in 0 .. (MaxApp + MaxPolls)
      /\ left # 1 => left - 1 \in 1 .. MaxPolls /\ left - 1 \in 0 .. (MaxApp + MaxPolls)
  <2>1. MaxPolls \in Nat /\ MaxApp \in Nat \ {0}
    BY SdInitAssumption
  <2> QED
    BY <1>1, <2>1
<1>7. TypeOK'
  BY <1>0, <1>1, <1>2, <1>3, <1>6 DEF TypeOK
<1>8. CleanRun'
  <2> SUFFICES ASSUME clean', inserted PROVE CleanRun'
    BY <1>3 DEF CleanRun
  <2> QED
    BY <1>1, <1>3 DEF IInv, CleanRun, InStep
<1> QED
  BY <1>1, <1>2, <1>3, <1>5, <1>6, <1>7, <1>8 DEF IInv, Counting, Identified, Selected

LEMMA ForBusWidthIInv ==
  ASSUME IInv, NEW st \in Statuses, AppCommandForBusWidth(st)
  PROVE  IInv'
<1>0. TypeOK /\ kind \in Kinds
  BY DEF IInv, TypeOK
<1>1. /\ pc = "APP6" /\ UNCHANGED <<trials, rca, version, csd, bus>>
      /\ result = "none" /\ bus # 4 /\ left \in 1 .. MaxApp
      /\ csd = kind.csd /\ (version = "SDSC" <=> ~kind.ccs)
      /\ card.rca = rca /\ rca # 0 /\ card.state = "tran"
  BY DEF AppCommandForBusWidth, IInv, Selected, Identified, Counting
<1>2. /\ Exchange("CMD55", st) /\ left' \in 1 .. MaxApp
      /\ \/ st = "ok" /\ pc' = "ACMD6" /\ result' = result
         \/ st # "ok" /\ pc' = "hung" /\ result' = result
         \/ st # "ok" /\ pc' = pc /\ result' = result
  <2>1. AppCommand(st, "ACMD6", Goto("hung"))
    BY DEF AppCommandForBusWidth
  <2>2. MaxApp \in 1 .. MaxApp /\ MaxApp \in Nat
    BY SdInitAssumption
  <2>3. left # 1 => left - 1 \in 1 .. MaxApp
    BY <1>1, <2>2
  <2> QED
    BY <2>1, <2>2, <2>3 DEF AppCommand, AttemptsLeft, Goto
<1>3. /\ UNCHANGED <<kind, inserted, resets>> /\ (clean' => clean)
      /\ card' \in Card /\ faults' \in 0 .. MaxFaults /\ clean' \in BOOLEAN
      /\ st = "ok" => card' \in Executed("CMD55")
      /\ card' \in Executed("CMD55") \/ card' \in {card, Refused}
  BY <1>0, <1>2, ExchangeFacts DEF Commands
<1>4. card \in Card /\ left' \in 0 .. (MaxApp + MaxPolls)
  <2>1. MaxPolls \in Nat /\ MaxApp \in Nat
    BY SdInitAssumption
  <2> QED
    BY <1>0, <1>2, <2>1 DEF TypeOK
<1>5. card'.state = "tran" /\ card'.rca = rca
  BY <1>1, <1>3, <1>4, RefusedType, ExecutedFacts DEF Commands
<1>6. TypeOK'
  BY <1>0, <1>1, <1>2, <1>3, <1>4 DEF TypeOK
<1>7. CleanRun'
  <2> SUFFICES ASSUME clean', inserted PROVE CleanRun'
    BY <1>3 DEF CleanRun
  <2>1. kind.ccs /\ ~card.err
    BY <1>1, <1>3 DEF IInv, CleanRun, InStep
  <2>2. st = "ok"
    BY <1>0, <1>1, <1>2, <2>1, CleanExchange DEF Commands, Legal, Addressed
  <2>3. ~card'.err /\ card'.app
    BY <1>3, <1>4, <2>1, <2>2, ExecutedFacts DEF Commands
  <2> QED
    BY <1>1, <1>2, <1>3, <1>5, <2>1, <2>2, <2>3 DEF CleanRun, InStep
<1> QED
  BY <1>1, <1>2, <1>3, <1>5, <1>6, <1>7 DEF IInv, Counting, Identified, Selected

LEMMA SwitchBusIInv ==
  ASSUME IInv, NEW st \in Statuses, SwitchBus(st)
  PROVE  IInv'
<1>0. TypeOK /\ kind \in Kinds
  BY DEF IInv, TypeOK
<1>1. /\ pc = "ACMD6" /\ Exchange("ACMD6", st) /\ UNCHANGED <<left, trials, rca, version, csd>>
      /\ \/ st = "ok" /\ pc' = "done" /\ result' = "ok" /\ bus' = 4
         \/ st # "ok" /\ pc' = "inactive" /\ result' = result /\ bus' = bus
      /\ result = "none" /\ bus # 4
      /\ csd = kind.csd /\ (version = "SDSC" <=> ~kind.ccs)
      /\ card.rca = rca /\ rca # 0 /\ card.state = "tran"
  BY DEF SwitchBus, SetBusWidth, Goto, Answer, IInv, Selected, Identified
<1>2. /\ UNCHANGED <<kind, inserted, resets>> /\ (clean' => clean)
      /\ card' \in Card /\ faults' \in 0 .. MaxFaults /\ clean' \in BOOLEAN
      /\ st = "ok" => card' \in Executed("ACMD6")
  BY <1>0, <1>1, ExchangeFacts DEF Commands
<1>3. st = "ok" => card'.state = "tran" /\ card'.rca = rca /\ card'.wide
  BY <1>0, <1>1, <1>2, ExecutedFacts DEF Commands, TypeOK
<1>4. TypeOK'
  BY <1>0, <1>1, <1>2 DEF TypeOK
<1>5. CleanRun'
  <2> SUFFICES ASSUME clean', inserted PROVE CleanRun'
    BY <1>2 DEF CleanRun
  <2>1. kind.ccs /\ ~card.err /\ card.app
    BY <1>1, <1>2 DEF IInv, CleanRun, InStep
  <2>2. st = "ok"
    BY <1>0, <1>1, <2>1, CleanExchange DEF Commands, Legal
  <2> QED
    BY <1>1, <1>2, <2>1, <2>2 DEF CleanRun, InStep
<1> QED
  BY <1>1, <1>2, <1>3, <1>4, <1>5 DEF IInv, Counting, Identified, Selected

LEMMA SetInactiveIInv ==
  ASSUME IInv, SetInactiveState
  PROVE  IInv'
<1>0. TypeOK /\ kind \in Kinds /\ card \in Card
  BY DEF IInv, TypeOK
<1>1. /\ pc = "inactive" /\ pc' = "done" /\ result' = "err"
      /\ version' \in {"unknown", version} /\ rca' \in {0, rca}
      /\ UNCHANGED <<left, trials, csd, bus, kind, inserted, resets>>
      /\ result = "none" /\ bus # 4
  BY DEF SetInactiveState, Forget, Answer, IInv, Selected
<1> DEFINE told == IF Answers /\ Addressed THEN [card EXCEPT !.state = "ina"] ELSE card
<1>2. told \in Card
  BY <1>0 DEF Card
<1>3. /\ card' \in {card, told, GoIdle(card), GoIdle(told)}
      /\ Fault \/ NoFault
  BY DEF SetInactiveState
<1> HIDE DEF told
<1>4. card' \in Card
  BY <1>0, <1>2, <1>3, GoIdleType
<1>5. faults' \in 0 .. MaxFaults /\ clean' \in BOOLEAN /\ (clean' => clean)
  BY <1>0, <1>3, FaultType
<1>6. TypeOK'
  BY <1>0, <1>1, <1>4, <1>5 DEF TypeOK
<1>7. CleanRun'
  <2> SUFFICES ASSUME clean', inserted PROVE CleanRun'
    BY <1>1 DEF CleanRun
  <2>1. ~kind.ccs
    BY <1>1, <1>5 DEF IInv, CleanRun, InStep
  <2>2. Structure(kind) # V2
    BY <1>0, <2>1, KindFacts DEF V1, V2
  <2> QED
    BY <1>1, <2>1, <2>2 DEF CleanRun, Structure
<1> QED
  BY <1>1, <1>6, <1>7 DEF IInv, Counting, Identified, Selected

LEMMA PullOutIInv ==
  ASSUME IInv, PullOut
  PROVE  IInv'
<1>1. UNCHANGED <<driver, kind, card, resets>> /\ inserted' = FALSE /\ Fault
  BY DEF PullOut
<1>2. faults' \in 0 .. MaxFaults /\ clean' \in BOOLEAN
  BY <1>1, FaultType DEF IInv
<1>3. TypeOK'
  BY <1>1, <1>2 DEF IInv, TypeOK, driver
<1> QED
  BY <1>1, <1>3, SMTT(30) DEF IInv, Counting, Identified, Selected, CleanRun, driver

LEMMA ResetProcessorIInv ==
  ASSUME IInv, ResetProcessor
  PROVE  IInv'
<1>1. /\ pc' = "reset" /\ left' = 0 /\ trials' = 0 /\ rca' = 0 /\ version' = "unknown"
      /\ csd' = {} /\ bus' = 1 /\ result' = "none" /\ clean' = (card.state # "ina")
      /\ UNCHANGED <<kind, inserted, card, faults>>
      /\ resets > 0 /\ resets' = resets - 1
  BY DEF ResetProcessor
<1>2. MaxResets \in Nat /\ MaxTrials \in Nat /\ MaxApp \in Nat /\ MaxPolls \in Nat
  BY SdInitAssumption
<1>3. resets' \in 0 .. MaxResets
  BY <1>1, <1>2 DEF IInv, TypeOK
<1>4. left' \in 0 .. (MaxApp + MaxPolls) /\ trials' \in 0 .. MaxTrials
  BY <1>1, <1>2
<1>5. TypeOK'
  BY <1>1, <1>3, <1>4 DEF IInv, TypeOK
<1>6. clean' => card'.state # "ina"
  BY <1>1
<1>7. CleanRun'
  BY <1>1, <1>6 DEF CleanRun, InStep
<1> QED
  BY <1>1, <1>5, <1>7 DEF IInv, Counting, Identified, Selected

LEMMA NextIInv == IInv /\ [Next]_vars => IInv'
<1> SUFFICES ASSUME IInv, [Next]_vars PROVE IInv'
  OBVIOUS
<1>1. CASE UNCHANGED vars
  BY <1>1 DEF vars, driver, IInv, TypeOK, Counting, Identified, Selected, CleanRun, InStep, Structure
<1>2. ASSUME NEW st \in Statuses, Command(st)
      PROVE  IInv'
  BY <1>2, ValidateIInv, ForOpCondIInv, SendOpCondIInv, AllSendCidIInv, SendRelativeAddrIInv,
     LoadCsdIInv, SelectCardIInv, WaitCardReadyIInv, ForBusWidthIInv, SwitchBusIInv DEF Command
<1> QED
  BY <1>1, <1>2, ResetSdIInv, FallBackIInv, SetInactiveIInv, PullOutIInv, ResetProcessorIInv
     DEF Next, Step

-----------------------------------------------------------------------------
LEMMA Invariance == Spec => []IInv
<1> QED
  BY InitIInv, NextIInv, PTL DEF Spec

(* The driver and the card keep their types, the counters their limits.    *)
THEOREM TypeCorrect == Spec => []TypeOK
<1>1. IInv => TypeOK
  BY DEF IInv
<1> QED
  BY <1>1, Invariance, PTL

(* For every card, number of attempts, of faults and of resets: the driver *)
(* and a card that was initialized agree.                                  *)
THEOREM OkIsAgreed == Spec => []OkMeansAgreed
<1>1. IInv => OkMeansAgreed
  BY DEF IInv, Identified, Selected, OkMeansAgreed
<1> QED
  BY <1>1, Invariance, PTL

(* ... also on every field of the CSD, but for those in Misread.           *)
THEOREM FieldsAreRead == Spec => []FieldsAgree
<1>1. IInv => FieldsAgree
  <2> SUFFICES ASSUME IInv, result = "ok" PROVE ReadAsMeant(csd, kind.csd)
    BY DEF FieldsAgree
  <2>1. csd = kind.csd /\ kind.csd \in SUBSET Register
    BY KindFacts DEF IInv, TypeOK, Identified
  <2> QED
    BY <2>1, RegisterIsReadAsMeant
<1> QED
  BY <1>1, Invariance, PTL

(* The host never drives four data lines of a card that listens to one.    *)
THEOREM NeverWiderThanCard == Spec => []WideOnlyTogether
<1>1. IInv => WideOnlyTogether
  BY DEF IInv, Selected, WideOnlyTogether
<1> QED
  BY <1>1, Invariance, PTL

(* Without a fault a card that can be woken is initialized, or was not     *)
(* ready in any of the trials; the driver does not hang.                   *)
THEOREM CleanInitIsEnough == Spec => []CleanInitSucceeds
<1>1. IInv => CleanInitSucceeds
  <2> SUFFICES ASSUME IInv, clean, inserted
               PROVE  /\ pc # "hung"
                      /\ result = "err" /\ Structure(kind) = V2 => trials = 0 /\ card.state = "idle"
    BY DEF CleanInitSucceeds
  <2>1. kind.ccs \in BOOLEAN
    BY KindFacts DEF IInv, TypeOK
  <2> QED
    BY <2>1 DEF IInv, CleanRun, InStep
<1> QED
  BY <1>1, Invariance, PTL
=============================================================================
