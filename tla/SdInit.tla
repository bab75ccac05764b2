------------------------------- MODULE SdInit -------------------------------
(***************************************************************************)
(* From reset to a card that is ready for transfers: init_sd and           *)
(* init_sd_card (SD.c), called by sd_card_init (sd_fat32.c).  The driver   *)
(* exchanges one command after another with the card.  Commands and        *)
(* answers may be lost or garbled, the card may be pulled out, and the     *)
(* processor may be reset at any point without the card losing power, so   *)
(* that an initialization meets the card in whatever state the last one    *)
(* left it.                                                                *)
(***************************************************************************)
EXTENDS Integers, FiniteSets, SdCsd

CONSTANTS
  Kinds,      \* the cards that may be inserted
  MaxTrials,  \* SD_MAX_VOLT_TRIAL (40)
  MaxApp,     \* attempts of send_command_specific (8)
  MaxPolls,   \* CMD13 polls of wait_card_ready (500)
  MaxFaults,  \* faults of the bus in one behaviour
  MaxResets   \* resets of the processor in one behaviour

Rca == {1, 2}

(* v2: it answers CMD8.  ccs: it addresses blocks, not bytes.  uhs: it has *)
(* a UHS-II interface.                                                     *)
Kind == [v2 : BOOLEAN, ccs : BOOLEAN, uhs : BOOLEAN, csd : SUBSET Register]

Structure(k) == Meant(k.csd).CSD_STRUCTURE

ASSUME SdInitAssumption ==
  /\ Kinds \subseteq Kind
  /\ \A k \in Kinds : (k.uhs => k.ccs) /\ (k.ccs => k.v2) /\ (Structure(k) = V1 <=> ~k.ccs)
  /\ {MaxTrials, MaxApp, MaxPolls} \subseteq Nat \ {0}
  /\ {MaxFaults, MaxResets} \subseteq Nat

VARIABLES
  pc,        \* the command to send next, or where the driver is
  left,      \* attempts left in the loop the driver is in
  trials,    \* trials of ACMD41 left
  rca,       \* SD.RCA
  version,   \* SD.version
  csd,       \* csd_data
  bus,       \* lines of the data bus that the controller uses
  result,    \* of sd_card_init
  kind,      \* the card
  inserted,
  card,      \* its state
  faults,    \* faults left
  resets,    \* resets left
  clean      \* no fault since the reset, and a card that CMD0 can wake

driver == <<pc, left, trials, rca, version, csd, bus, result>>
vars == <<driver, kind, inserted, card, faults, resets, clean>>

-----------------------------------------------------------------------------
(* The card.                                                               *)

Card == [state : {"idle", "ready", "ident", "stby", "tran", "ina"},
         rca   : Rca \cup {0},
         wide  : BOOLEAN,   \* it uses four data lines
         app   : BOOLEAN,   \* the next command is an ACMD
         err   : BOOLEAN]   \* the next R1 answer reports ILLEGAL_COMMAND

Idle == [state |-> "idle", rca |-> 0, wide |-> FALSE, app |-> FALSE, err |-> FALSE]

Addressed == card.rca = rca /\ card.state \in {"stby", "tran"}

Legal(cmd) ==
  \/ cmd = "CMD8"   /\ card.state = "idle" /\ kind.v2
  \/ cmd = "CMD55"  /\ (Addressed \/ (card.state = "idle" /\ rca = 0))
  \/ cmd = "ACMD41" /\ card.state = "idle" /\ card.app
  \/ cmd = "CMD2"   /\ card.state = "ready"
  \/ cmd = "CMD3"   /\ card.state \in {"ident", "stby"}
  \/ cmd \in {"CMD9", "CMD7"} /\ card.state = "stby" /\ card.rca = rca
  \/ cmd = "ACMD6"  /\ card.state = "tran" /\ card.app
  \/ cmd = "CMD13"  /\ Addressed

(* The card after it has executed cmd: more than one outcome for the       *)
(* address it picks and for when it is ready to leave the idle state.      *)
Executed(cmd) ==
  LET c == [card EXCEPT !.app = (cmd = "CMD55"),
                        !.err = @ /\ cmd \notin {"CMD55", "CMD3", "CMD7", "CMD13", "ACMD6"}]
  IN CASE cmd = "ACMD41" -> {c, [c EXCEPT !.state = "ready"]}
       [] cmd = "CMD2"   -> {[c EXCEPT !.state = "ident"]}
       [] cmd = "CMD3"   -> {[c EXCEPT !.state = "stby", !.rca = a] : a \in Rca}
       [] cmd = "CMD7"   -> {[c EXCEPT !.state = "tran"]}
       [] cmd = "ACMD6"  -> {[c EXCEPT !.wide = TRUE]}
       [] OTHER          -> {c}

Answers == inserted /\ card.state # "ina"

(* A card that refuses a command says so in its next R1 answer.            *)
Refused == [card EXCEPT !.app = FALSE, !.err = TRUE]

Fault == faults > 0 /\ faults' = faults - 1 /\ clean' = FALSE

NoFault == UNCHANGED <<faults, clean>>

-----------------------------------------------------------------------------
(* One command and its answer: "ok", "timeout" or "crc", or "error" for an *)
(* R1 answer with an error bit.                                            *)
Exchange(cmd, st) ==
  /\ UNCHANGED <<kind, inserted, resets>>
  /\ \/ /\ Answers /\ Legal(cmd)
        /\ card' \in Executed(cmd)
        /\ \/ st = (IF card.err /\ ~card'.err THEN "error" ELSE "ok") /\ NoFault
           \/ st \in {"timeout", "crc"} /\ Fault
     \/ /\ Answers /\ ~Legal(cmd)
        /\ card' = Refused
        /\ st = "timeout" /\ NoFault
     \/ /\ Answers
        /\ UNCHANGED card
        /\ st = "timeout" /\ Fault
     \/ /\ ~Answers
        /\ UNCHANGED card
        /\ st = "timeout" /\ NoFault

Statuses == {"ok", "timeout", "crc", "error"}

Goto(label) == pc' = label /\ UNCHANGED result

Answer(r) == pc' = "done" /\ result' = r

Init ==
  /\ kind \in Kinds
  /\ inserted \in BOOLEAN
  /\ card = Idle
  /\ pc = "reset" /\ left = 0 /\ trials = 0
  /\ rca = 0 /\ version = "unknown" /\ csd = {} /\ bus = 1
  /\ result = "none"
  /\ faults = MaxFaults /\ resets = MaxResets /\ clean = TRUE

(* CMD0, which no card answers and every card but an inactive one obeys.   *)
GoIdle(c) == IF inserted /\ c.state # "ina" THEN Idle ELSE c

Forget == version' = "unknown" /\ rca' = 0

(* reset_sd.  If the controller does not say in time that it has sent the  *)
(* command, the initialization ends and nothing is forgotten; the card may *)
(* obey all the same.                                                      *)
ResetCard(label) ==
  /\ \/ card' = GoIdle(card) /\ NoFault /\ Forget /\ Goto(label)
     \/ UNCHANGED card /\ Fault /\ Forget /\ Goto(label)
     \/ /\ card' \in {card, GoIdle(card)} /\ Fault
        /\ UNCHANGED <<version, rca>> /\ Answer("err")
  /\ UNCHANGED <<kind, inserted, resets>>

ResetSd ==
  /\ pc = "reset"
  /\ ResetCard("CMD8")
  /\ bus' = 1
  /\ UNCHANGED <<left, trials, csd>>

ValidateOperatingVoltage(st) ==
  /\ pc = "CMD8"
  /\ Exchange("CMD8", st)
  /\ CASE st = "ok"      -> Goto("CMD55") /\ version' = "V2_X"
       [] st = "timeout" -> Goto("fallback") /\ version' = "V1_X"
       [] OTHER          -> Answer("err") /\ UNCHANGED version
  /\ trials' = MaxTrials /\ left' = MaxApp
  /\ UNCHANGED <<rca, csd, bus>>

(* The second reset forgets that the card is a V1 card.                    *)
FallBack ==
  /\ pc = "fallback"
  /\ ResetCard("CMD55")
  /\ UNCHANGED <<left, trials, csd, bus>>

-----------------------------------------------------------------------------
(* send_command_specific: CMD55 before an ACMD.  When no answer came,      *)
(* whether it tries again depends on a local that was never written.       *)
AttemptsLeft == left - 1

AppCommand(st, acmd, failed) ==
  /\ Exchange("CMD55", st)
  /\ \/ /\ st = "ok"
        /\ Goto(acmd) /\ left' = MaxApp
     \/ /\ st \in {"timeout", "crc"}
        /\ failed /\ left' = MaxApp
     \/ /\ st # "ok"
        /\ IF left = 1 THEN failed /\ left' = MaxApp
                       ELSE left' = AttemptsLeft /\ UNCHANGED <<pc, result>>

OpCondAwaited == Goto("hung")
OpCondNotSent == Answer("err")

AppCommandForOpCond(st) ==
  /\ pc = "CMD55"
  /\ AppCommand(st, "ACMD41", OpCondNotSent)
  /\ UNCHANGED <<trials, rca, version, csd, bus>>

(* CmdResp3Error.  OCR_Type is one bit short of the OCR: its busy bit is   *)
(* the card's CCS bit, which is set once a card that addresses blocks is   *)
(* ready, and its CCS bit is the one that tells a UHS-II card.  R3 has no  *)
(* CRC, so a garbled answer is taken for whatever it seems to say.         *)
VersionOfOcr(uhs) == IF uhs THEN "SDXC" ELSE "SDSC"

LastTrialOffByOne == trials = 0
LastTrialAtOnce == TRUE
LastTrial == trials = 1

OpCondAnswer(ccs, uhs) ==
  IF ccs
    THEN Goto("CMD2") /\ version' = VersionOfOcr(uhs) /\ UNCHANGED trials
    ELSE /\ IF LastTrial THEN Answer("err") ELSE Goto("CMD55")
         /\ trials' = trials - 1
         /\ UNCHANGED version

SendOpCond(st) ==
  /\ pc = "ACMD41"
  /\ Exchange("ACMD41", st)
  /\ CASE st = "ok"      -> OpCondAnswer(kind.ccs /\ card'.state = "ready", kind.uhs)
       [] st = "timeout" -> Goto("inactive") /\ UNCHANGED <<version, trials>>
       [] OTHER          -> \E ccs, uhs \in BOOLEAN : OpCondAnswer(ccs, uhs)
  /\ UNCHANGED <<left, rca, csd, bus>>

AllSendCid(st) ==
  /\ pc = "CMD2"
  /\ Exchange("CMD2", st)
  /\ Goto(IF st = "ok" THEN "CMD3" ELSE "inactive")
  /\ UNCHANGED <<left, trials, rca, version, csd, bus>>

SendRelativeAddr(st) ==
  /\ pc = "CMD3"
  /\ Exchange("CMD3", st)
  /\ IF st = "ok" THEN Goto("CMD9") /\ rca' = card'.rca
                  ELSE Goto("inactive") /\ UNCHANGED rca
  /\ UNCHANGED <<left, trials, version, csd, bus>>

-----------------------------------------------------------------------------
(* load_csd_sd: the size in bytes is a product of uint32_t values, and it  *)
(* decides the version.  An unknown CSD structure ends the initialization. *)
(* C_SIZE, of 22 bits, counts units of 512 KiB: 2^13 fill a uint32_t.      *)
Number(bits) ==
  LET n[i \in 0..22] ==
        IF i = 0 THEN 0 ELSE n[i - 1] + (IF i - 1 \in bits THEN 2^(i - 1) ELSE 0)
  IN n[22]

Gb(c) == ((Number(CSize(c)) + 1) % 8192) \div 2048

VersionOfOcrKept(c) == version
VersionOfCsd(c) ==
  IF CsdStructure(c) = V1 THEN "SDSC" ELSE IF Gb(c) > 32 THEN "SDXC" ELSE "SDHC"

LoadCsd(st) ==
  /\ pc = "CMD9"
  /\ Exchange("CMD9", st)
  /\ csd' = IF st = "ok" THEN kind.csd ELSE csd
  /\ IF st = "ok" /\ CsdStructure(csd') \in {V1, V2}
       THEN Goto("CMD7") /\ version' = VersionOfCsd(csd')
       ELSE Answer("err") /\ UNCHANGED version
  /\ UNCHANGED <<left, trials, rca, bus>>

(* CMD7 through CmdResp1bError, which polls the card when no answer came.  *)
SelectCard(st) ==
  /\ pc = "CMD7"
  /\ Exchange("CMD7", st)
  /\ CASE st = "ok"      -> Goto("APP6") /\ left' = MaxApp
       [] st = "timeout" -> Goto("wait") /\ left' = MaxPolls
       [] OTHER          -> Answer("err") /\ UNCHANGED left
  /\ UNCHANGED <<trials, rca, version, csd, bus>>

WaitCardReady(st) ==
  /\ pc = "wait"
  /\ Exchange("CMD13", st)
  /\ IF st \in {"timeout", "crc"} THEN Answer("err") /\ UNCHANGED left
     ELSE IF st = "ok" /\ card.state = "tran" THEN Goto("APP6") /\ left' = MaxApp
     ELSE IF left = 1 THEN Answer("err") /\ UNCHANGED left
     ELSE left' = AttemptsLeft /\ UNCHANGED <<pc, result>>
  /\ UNCHANGED <<trials, rca, version, csd, bus>>

(* When CMD55 fails, init_sd_card still waits for the answer to the ACMD6  *)
(* that was never sent.                                                    *)
AppCommandForBusWidth(st) ==
  /\ pc = "APP6"
  /\ AppCommand(st, "ACMD6", Goto("hung"))
  /\ UNCHANGED <<trials, rca, version, csd, bus>>

SetBusWidthUnasked(st) == 4
SetBusWidth(st) == IF st = "ok" THEN 4 ELSE bus

SwitchBus(st) ==
  /\ pc = "ACMD6"
  /\ Exchange("ACMD6", st)
  /\ bus' = SetBusWidth(st)
  /\ IF st = "ok" THEN Answer("ok") ELSE Goto("inactive")
  /\ UNCHANGED <<left, trials, rca, version, csd>>

(* set_inactive_state: CMD15 to the card addressed, then reset_sd, unless  *)
(* CMD15 was not sent in time.  A card that obeys CMD15 is deaf to CMD0    *)
(* until it is powered off.                                                *)
SetInactiveState ==
  /\ pc = "inactive"
  /\ LET told == IF Answers /\ Addressed THEN [card EXCEPT !.state = "ina"] ELSE card
     IN \/ card' = GoIdle(told) /\ NoFault /\ Forget
        \/ /\ card' \in {card, told, GoIdle(card)} /\ Fault
           /\ Forget \/ UNCHANGED <<version, rca>>
  /\ Answer("err")
  /\ UNCHANGED <<left, trials, csd, bus, kind, inserted, resets>>

-----------------------------------------------------------------------------
PullOut ==
  /\ inserted
  /\ inserted' = FALSE
  /\ Fault
  /\ UNCHANGED <<driver, kind, card, resets>>

(* The processor starts again; the card keeps its state.                   *)
ResetProcessor ==
  /\ resets > 0
  /\ resets' = resets - 1
  /\ pc' = "reset" /\ left' = 0 /\ trials' = 0
  /\ rca' = 0 /\ version' = "unknown" /\ csd' = {} /\ bus' = 1
  /\ result' = "none"
  /\ clean' = (card.state # "ina")
  /\ UNCHANGED <<kind, inserted, card, faults>>

Command(st) ==
  \/ ValidateOperatingVoltage(st)
  \/ AppCommandForOpCond(st)
  \/ SendOpCond(st)
  \/ AllSendCid(st)
  \/ SendRelativeAddr(st)
  \/ LoadCsd(st)
  \/ SelectCard(st)
  \/ WaitCardReady(st)
  \/ AppCommandForBusWidth(st)
  \/ SwitchBus(st)

Step == ResetSd \/ FallBack \/ SetInactiveState \/ \E st \in Statuses : Command(st)

Next == Step \/ PullOut \/ ResetProcessor

Spec == Init /\ [][Next]_vars

(* Nothing but the driver runs on the processor.                           *)
FairSpec == Spec /\ WF_vars(Step)

-----------------------------------------------------------------------------
(* The driver and the card keep their types, the counters their limits.    *)
TypeOK ==
  /\ pc \in {"reset", "fallback", "CMD8", "CMD55", "ACMD41", "CMD2", "CMD3", "CMD9",
             "CMD7", "wait", "APP6", "ACMD6", "inactive", "hung", "done"}
  /\ left \in 0 .. (MaxApp + MaxPolls)
  /\ trials \in 0 .. MaxTrials
  /\ rca \in Rca \cup {0}
  /\ version \in {"unknown", "V1_X", "V2_X", "SDSC", "SDHC", "SDXC"}
  /\ csd \subseteq Register /\ bus \in {1, 4}
  /\ result \in {"none", "ok", "err"}
  /\ kind \in Kinds /\ inserted \in BOOLEAN /\ card \in Card
  /\ faults \in 0 .. MaxFaults /\ resets \in 0 .. MaxResets /\ clean \in BOOLEAN

(* sd_card_init answers 0 only when it agrees with the card on everything  *)
(* that transfers rely on: the card is selected under the address the      *)
(* driver knows, both use four data lines, and the driver will address it  *)
(* in bytes exactly if it is a byte-addressed card - whatever answer was   *)
(* lost, garbled or misread on the way, and whatever state it started in.  *)
OkMeansAgreed ==
  pc = "done" /\ result = "ok" =>
    /\ card.state = "tran" /\ card.rca = rca /\ rca # 0
    /\ card.wide /\ bus = 4
    /\ version = "SDSC" <=> ~kind.ccs

(* What erase_sd and load_csd_sd read out of csd_data after a success is   *)
(* what the card says of itself, field by field (SD.c:511), whatever was   *)
(* read in earlier initializations.                                        *)
FieldsAgree == result = "ok" => ReadAsMeant(csd, kind.csd)

(* The host never drives four data lines of a card that listens to one.    *)
WideOnlyTogether == bus = 4 => card.wide \/ ~inserted

(* A processor reset in the middle of anything is recovered from: if the   *)
(* card can still be woken and no further fault happens, init_sd_card does *)
(* not hang, and sd_card_init fails for an SDHC or SDXC card only if it is *)
(* not ready after all the trials.                                         *)
CleanInitSucceeds ==
  clean /\ inserted =>
    /\ pc # "hung"
    /\ result = "err" /\ Structure(kind) = V2 => trials = 0 /\ card.state = "idle"

(* SD cards are supported, not only SDHC and SDXC cards: a card that is    *)
(* ready in time and has a CSD the driver reads is not given up.           *)
ReadyCardIsTaken ==
  clean /\ inserted /\ Structure(kind) \in {V1, V2} /\ result = "err" => card.state = "idle"

(* A board without a card does not hang: the driver says that it failed.   *)
AbsentCardIsReported == (pc = "reset" /\ ~inserted) ~> (result = "err")
=============================================================================
