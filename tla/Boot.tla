-------------------------------- MODULE Boot --------------------------------
(***************************************************************************)
(* The start of the program: main and init_board (main.c), init_sd_fat32,  *)
(* sd_card_init and init_fat32 (sd_fat32.c), over and over, with one card, *)
(* on the clocks of ClockTree.                                             *)
(*                                                                         *)
(* The program and the clock tree run side by side: an oscillator may      *)
(* become ready, and the crystal stop, at any step of the start.  What the *)
(* card does inside is in SdInit; here its initialization succeeds or      *)
(* fails.  The FAT32 library mounts a card that holds a file system it can *)
(* read, and formats any card it can write.                                *)
(***************************************************************************)
EXTENDS Integers, Sequences

CONSTANTS
  Configs,    \* the configurations of init_rcc
  MaxFaults,  \* bound: operations on the card that fail
  MaxResets,  \* bound: resets of the processor
  MaxPulls    \* bound: times the card is pulled out

VARIABLES
  pc,
  led13, led14,  \* lit
  datetime,      \* sd_device.datetime is set
  mounted,       \* the library has the file system of the card
  present,       \* the card is in its slot
  identified,    \* ... and init_sd has given it an address since it was put there
  answers,       \* ... and init_sd_card has selected it
  card,          \* what it holds: nothing, half a file system, an empty one, files
  faults, resets, pulls

VARIABLES  \* those of ClockTree, its pc renamed
  clockPc, attempt, before, result, osc, cfg, sw, sws, latency, bus, gates,
  psc, brr, prer, clkdiv

Clocks == INSTANCE ClockTree WITH pc <- clockPc

ASSUME BootAssumption ==
  /\ Clocks!ConfigsOK /\ Clocks!ConfigsInRange
  /\ MaxFaults \in Nat /\ MaxResets \in Nat /\ MaxPulls \in Nat

clocks == <<clockPc, attempt, before, result, osc, cfg, sw, sws, latency, bus, gates,
            psc, brr, prer, clkdiv>>
leds == <<led13, led14>>
slot == <<present, identified, answers>>
count == <<faults, resets, pulls>>
vars == <<pc, leds, datetime, mounted, slot, card, count, clocks>>

Content == {"blank", "torn", "fs", "files"}

Init ==
  /\ pc = "board"
  /\ led13 = FALSE /\ led14 = FALSE
  /\ datetime = FALSE /\ mounted = FALSE
  /\ present \in BOOLEAN /\ identified = FALSE /\ answers = FALSE
  /\ card \in Content
  /\ faults = 0 /\ resets = 0 /\ pulls = 0
  /\ Clocks!Init

Fault ==
  /\ faults < MaxFaults
  /\ faults' = faults + 1
  /\ UNCHANGED <<resets, pulls>>

(* main leaves for the empty loop at its end.                              *)
Fail == pc' = "error"

-----------------------------------------------------------------------------
(* init_rcc, step by step.                                                 *)
InitRcc ==
  /\ pc = "board"
  /\ Clocks!InitRcc
  /\ UNCHANGED <<pc, leds, datetime, mounted, slot, card, count>>

(* The rest of init_board.                                                 *)
InitBoard ==
  /\ pc = "board" /\ gates
  /\ IF result = "ok" THEN Clocks!InitTimer /\ pc' = "uart" /\ UNCHANGED led13
                      ELSE Fail /\ led13' = TRUE /\ UNCHANGED clocks
  /\ UNCHANGED <<led14, datetime, mounted, slot, card, count>>

InitUart ==
  /\ pc = "uart"
  /\ Clocks!SetupUart
  /\ pc' = "rtc"
  /\ UNCHANGED <<leds, datetime, mounted, slot, card, count>>

(* init_rtc.  Without HSE it waits, first for HSE and then for the RTC,    *)
(* that needs it; it answers an error only when HSE came with the last     *)
(* turn of the first loop.  Files then have no dates.                      *)
InitRtc ==
  /\ pc = "rtc"
  /\ IF osc.hse = "ready" THEN Clocks!InitRtcClock /\ datetime' = TRUE /\ pc' = "sd"
                          ELSE Clocks!SwitchOnHse /\ UNCHANGED datetime /\ pc' = "rtcWait"
  /\ UNCHANGED <<leds, mounted, slot, card, count>>

InitRtcLate ==
  /\ pc = "rtcWait"
  /\ \/ Clocks!InitRtcClock /\ datetime' = TRUE
     \/ osc.hse = "ready" /\ UNCHANGED <<datetime, clocks>>
  /\ pc' = "sd"
  /\ UNCHANGED <<leds, mounted, slot, card, count>>

(* sd_card_init: init_sd resets the card and talks to it only if the PLL   *)
(* drives the bus; ResultIgnored is what it would do without its checks.   *)
ResultIgnored == TRUE
CardInitialized == present /\ osc.pll = "ready"

InitSd ==
  /\ pc = "sd"
  /\ Clocks!InitSdio
  /\ answers' = FALSE
  /\ \/ CardInitialized /\ identified' = TRUE /\ pc' = "sdcard" /\ UNCHANGED count
     \/ ~CardInitialized /\ identified' = FALSE /\ Fail /\ UNCHANGED count
     \/ CardInitialized /\ identified' = FALSE /\ Fail /\ Fault
  /\ UNCHANGED <<leds, datetime, mounted, present, card>>

(* ... and init_sd_card selects it, unless it was pulled out since: put    *)
(* back, it is idle and has no address.                                    *)
SelectionUnchecked == TRUE
CardSelected == identified

InitSdCard ==
  /\ pc = "sdcard"
  /\ \/ CardSelected /\ answers' = TRUE /\ Clocks!SpeedUpCard /\ pc' = "mount" /\ UNCHANGED count
     \/ ~CardSelected /\ Fail /\ UNCHANGED <<answers, clocks, count>>
     \/ CardSelected /\ Fail /\ Fault /\ UNCHANGED <<answers, clocks>>
  /\ UNCHANGED <<leds, datetime, mounted, present, identified, card>>

(* mount_fat32: it reads the card, through read_sd and its retries.        *)
Mountable == answers /\ card \in {"fs", "files"}

Mounts(yes) ==
  IF yes THEN Mountable /\ UNCHANGED count
         ELSE IF Mountable THEN Fault ELSE UNCHANGED count

(* init_fat32 formats whenever the mount fails.                            *)
FormatAlways(yes) == TRUE
FormatNever(yes) == FALSE
NeedsFormat(yes) == ~yes

Mount ==
  /\ pc = "mount"
  /\ \E yes \in BOOLEAN :
       /\ Mounts(yes)
       /\ mounted' = yes
       /\ IF NeedsFormat(yes) THEN pc' = "format"
          ELSE IF yes THEN pc' = "tests" ELSE Fail
  /\ UNCHANGED <<leds, datetime, slot, card, clocks>>

(* formatted_fat32 writes over what was there.                             *)
BeginFormat ==
  /\ pc = "format"
  /\ \/ answers /\ card' = "torn" /\ pc' = "formatting" /\ UNCHANGED count
     \/ ~answers /\ Fail /\ UNCHANGED <<card, count>>
     \/ answers /\ Fail /\ Fault /\ UNCHANGED card
  /\ UNCHANGED <<leds, datetime, mounted, slot, clocks>>

EndFormat ==
  /\ pc = "formatting"
  /\ \/ answers /\ card' = "fs" /\ pc' = "remount" /\ UNCHANGED count
     \/ ~answers /\ Fail /\ UNCHANGED <<card, count>>
     \/ answers /\ Fail /\ Fault /\ UNCHANGED card
  /\ UNCHANGED <<leds, datetime, mounted, slot, clocks>>

RemountUnchecked(yes) == "tests"
AfterRemount(yes) == IF yes THEN "tests" ELSE "error"

Remount ==
  /\ pc = "remount"
  /\ \E yes \in BOOLEAN : Mounts(yes) /\ mounted' = yes /\ pc' = AfterRemount(yes)
  /\ UNCHANGED <<leds, datetime, slot, card, clocks>>

(* The two tests of main make a directory and append to a file; main does  *)
(* not look at their results.                                              *)
Tests ==
  /\ pc = "tests"
  /\ pc' = "blink"
  /\ \/ answers /\ card' = "files" /\ UNCHANGED count
     \/ ~answers /\ UNCHANGED <<card, count>>
     \/ answers /\ Fault /\ card' \in {card, "files"}
  /\ UNCHANGED <<leds, datetime, mounted, slot, clocks>>

Blink ==
  /\ pc = "blink"
  /\ led14' = ~led14
  /\ UNCHANGED <<pc, led13, datetime, mounted, slot, card, count, clocks>>

-----------------------------------------------------------------------------
(* A reset darkens the LEDs and forgets everything but the card.  A card   *)
(* that answered goes on answering after CMD0.                             *)
Reset ==
  /\ resets < MaxResets
  /\ resets' = resets + 1
  /\ Clocks!Reset
  /\ pc' = "board"
  /\ led13' = FALSE /\ led14' = FALSE
  /\ datetime' = FALSE /\ mounted' = FALSE
  /\ UNCHANGED <<slot, card, faults, pulls>>

PullOut ==
  /\ present /\ pulls < MaxPulls
  /\ pulls' = pulls + 1
  /\ present' = FALSE /\ identified' = FALSE /\ answers' = FALSE
  /\ UNCHANGED <<pc, leds, datetime, mounted, card, faults, resets, clocks>>

(* Back in its slot the card is in the idle state and answers nothing but  *)
(* the commands of an initialization.                                      *)
PutBack ==
  /\ ~present
  /\ present' = TRUE
  /\ UNCHANGED <<pc, leds, datetime, mounted, identified, answers, card, count, clocks>>

(* The oscillators, the crystal that may stop, the switch.                 *)
Hardware ==
  /\ Clocks!Hardware
  /\ UNCHANGED <<pc, leds, datetime, mounted, slot, card, count>>

(* A crystal that stops sends the program into the loop of NMI_Handler.    *)
Program ==
  /\ clockPc # "nmi"
  /\ \/ InitRcc \/ InitBoard \/ InitUart \/ InitRtc \/ InitRtcLate \/ InitSd \/ InitSdCard
     \/ Mount \/ BeginFormat \/ EndFormat \/ Remount \/ Tests \/ Blink

Next == Program \/ Hardware \/ Reset \/ PullOut \/ PutBack

Spec == Init /\ [][Next]_vars

(* The processor executes the program, and a clock that runs is switched   *)
(* to.  Nothing makes an oscillator start.                                 *)
FairSpec == Spec /\ WF_vars(Program) /\ WF_vars(Hardware /\ Clocks!Switched)

-----------------------------------------------------------------------------
Steps == {"board", "uart", "rtc", "rtcWait", "sd", "sdcard", "mount", "format",
          "formatting", "remount", "tests", "blink", "error"}

(* Every variable has a value of its type; a card that was selected was    *)
(* identified, and is still there.                                         *)
TypeOK ==
  /\ pc \in Steps
  /\ led13 \in BOOLEAN /\ led14 \in BOOLEAN
  /\ datetime \in BOOLEAN /\ mounted \in BOOLEAN
  /\ present \in BOOLEAN /\ identified \in BOOLEAN /\ answers \in BOOLEAN
  /\ answers => identified
  /\ identified => present
  /\ card \in Content
  /\ faults \in 0..MaxFaults /\ resets \in 0..MaxResets /\ pulls \in 0..MaxPulls

(* LED 14 signals a start that succeeded (README.md:184): it is dark       *)
(* without a mounted file system, and then LED 13 and it are never lit     *)
(* together; a program that works on files has the card mounted, whatever  *)
(* failed, was pulled out or was reset before.                             *)
SignalsOnlySuccess ==
  /\ led14 => mounted /\ ~led13
  /\ pc \in {"tests", "blink"} => mounted

(* Files are there to stay: as long as no operation fails, nothing that    *)
(* happens between reset and reset, with the card in or out, formats a     *)
(* card with files on it.                                                  *)
FilesSurvive == [][card = "files" /\ faults' = 0 => card' = "files"]_vars

(* "SD card is not formatted", "Formatting SD card" (sd_fat32.c:67-68):    *)
(* the program starts to format only a card without a file system.         *)
FormatsOnlyUnformatted ==
  [][pc = "format" /\ pc' = "formatting" => card \in {"blank", "torn"}]_vars

(* The clocks of the devices are within their limits at every step: the    *)
(* card is identified at 400 kHz at the most and used at 25 MHz at the     *)
(* most, out of a PLL that runs; the log has the rate of its bits; a       *)
(* second of the RTC is wrong by a ten-thousandth at the most, whichever   *)
(* configuration of init_rcc has succeeded (sdio.c:117, SD.c:759).         *)
OnCard == {"sdcard", "mount", "format", "formatting", "remount", "tests", "blink"}

Stopped == clockPc = "nmi"

DerivedClocksInRange ==
  /\ Clocks!BitsInTime
  /\ pc \in OnCard /\ ~Stopped => osc.pll = "ready"
  /\ pc = "sdcard" => Clocks!CardClock <= 400
  /\ pc \in OnCard \ {"sdcard"} => Clocks!CardClock <= 25000
  /\ datetime => Clocks!RtcSecond - Clocks!RtcClock \in -100..100

(* What ClockTree promises, with the program and its resets around it.     *)
LatencySuffices == Clocks!LatencySuffices
OkMeansClocked == Clocks!OkMeansClocked

(* The fallbacks of init_rcc do their work (main.c:85, 100): whatever does *)
(* not start, the board ends with a clock, unless the crystal stops after  *)
(* it had started, in this start or in one after a reset.                  *)
FallsBack == pc = "board" ~> (pc # "board" /\ pc # "error") \/ Stopped

(* A start that nothing disturbs ends with the program working on a card   *)
(* with a file system, whatever the starts before have left: a blank card, *)
(* or half a file system (main.c:27-46).  That the crystal does not start  *)
(* or stops, or the PLL does not start, disturbs it.                       *)
Works == pc = "blink" /\ card = "files"

Unclocked ==
  \/ Stopped
  \/ pc = "rtcWait" /\ osc.hse # "ready"
  \/ pc = "sd" /\ osc.pll # "ready"

StartsUp ==
  \A n \in (0..MaxFaults) \X (0..MaxResets) \X (0..MaxPulls) :
    pc = "board" /\ present /\ count = n ~> Works \/ count # n \/ Unclocked
=============================================================================
