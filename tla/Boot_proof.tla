----------------------------- MODULE Boot_proof -----------------------------
(***************************************************************************)
(* Proofs about the start of the program.  1: its signals and the files on *)
(* the card, for every number of faults, resets and pulled cards.  2: the  *)
(* clock tree under it never outruns the flash and, after a success, is    *)
(* the one that was configured.  3: the devices that derive their clocks   *)
(* from it stay within their limits.  2 and 3 are for every list of        *)
(* configurations within the limits of the processor and the buses.        *)
(***************************************************************************)
EXTENDS Boot, TLAPS

-----------------------------------------------------------------------------
(* 1. The program.                                                         *)

(* The LEDs and the mount are tied to the step of the program.             *)
Signals ==
  /\ pc \in {"tests", "blink"} => mounted
  /\ led14 => pc = "blink"
  /\ led13 => pc = "error"

IInv == TypeOK /\ Signals

Counts == faults \in 0..MaxFaults /\ resets \in 0..MaxResets /\ pulls \in 0..MaxPulls

LEMMA InitIInv == Init => IInv
<1> SUFFICES ASSUME Init PROVE IInv
  OBVIOUS
<1>1. Counts
  BY BootAssumption DEF Init, Counts
<1>2. pc \in Steps /\ card \in Content
  BY DEF Init, Steps
<1> QED
  BY <1>1, <1>2, Zenon DEF Init, IInv, TypeOK, Signals, Counts

LEMMA FaultTyped ==
  ASSUME TypeOK, Fault
  PROVE  Counts'
  BY BootAssumption DEF TypeOK, Fault, Counts

LEMMA CountTyped ==
  ASSUME TypeOK, UNCHANGED count
  PROVE  Counts'
  BY DEF TypeOK, count, Counts

(* Every step keeps the types and the ties.                                *)
LEMMA StartIInv ==
  ASSUME IInv, InitRcc \/ InitBoard \/ InitUart \/ InitRtc \/ InitRtcLate
  PROVE  IInv'
<1>1. UNCHANGED <<led14, mounted, slot, card, count>>
  BY DEF InitRcc, InitBoard, InitUart, InitRtc, InitRtcLate, leds
<1>2. Counts'
  BY <1>1, CountTyped DEF IInv
<1>3. ~led14 /\ ~led13
  BY DEF IInv, Signals, InitRcc, InitBoard, InitUart, InitRtc, InitRtcLate
<1>4. /\ pc' \in {"board", "uart", "rtc", "rtcWait", "sd", "error"}
      /\ led13' \in BOOLEAN /\ datetime' \in BOOLEAN
      /\ led13' => pc' = "error"
  <2>1. CASE InitRcc
    BY <2>1, <1>3 DEF IInv, TypeOK, InitRcc, leds
  <2>2. CASE InitBoard
    BY <2>2, <1>3 DEF IInv, TypeOK, InitBoard, Fail
  <2>3. CASE InitUart
    BY <2>3, <1>3 DEF IInv, TypeOK, InitUart, leds
  <2>4. CASE InitRtc
    BY <2>4, <1>3 DEF IInv, TypeOK, InitRtc, leds
  <2>5. CASE InitRtcLate
    BY <2>5, <1>3 DEF IInv, TypeOK, InitRtcLate, leds
  <2> QED
    BY <2>1, <2>2, <2>3, <2>4, <2>5
<1> QED
  BY <1>1, <1>2, <1>3, <1>4 DEF IInv, TypeOK, Signals, Steps, Counts, slot

LEMMA InitSdIInv ==
  ASSUME IInv, InitSd
  PROVE  IInv'
<1>1. UNCHANGED <<leds, datetime, mounted, present, card>> /\ pc = "sd" /\ answers' = FALSE
  BY DEF InitSd
<1>2. /\ pc' \in {"sdcard", "error"} /\ (UNCHANGED count \/ Fault)
      /\ identified' \in BOOLEAN /\ (identified' => present)
  BY DEF InitSd, Fail, CardInitialized
<1>3. Counts'
  BY <1>2, CountTyped, FaultTyped DEF IInv
<1> QED
  BY <1>1, <1>2, <1>3 DEF IInv, TypeOK, Signals, Steps, Counts, leds

LEMMA InitSdCardIInv ==
  ASSUME IInv, InitSdCard
  PROVE  IInv'
<1>1. UNCHANGED <<leds, datetime, mounted, present, identified, card>> /\ pc = "sdcard"
  BY DEF InitSdCard, CardSelected
<1>2. /\ pc' \in {"mount", "error"} /\ (UNCHANGED count \/ Fault)
      /\ (identified /\ answers' = TRUE) \/ answers' = answers
  BY DEF InitSdCard, CardSelected, Fail
<1>3. Counts'
  BY <1>2, CountTyped, FaultTyped DEF IInv
<1>4. answers' \in BOOLEAN /\ (answers' => identified')
  <2>1. identified' = identified /\ answers \in BOOLEAN /\ (answers => identified)
    BY <1>1 DEF IInv, TypeOK
  <2>2. CASE identified /\ answers' = TRUE
    BY <2>1, <2>2
  <2>3. CASE answers' = answers
    BY <2>1, <2>3
  <2> QED
    BY <1>2, <2>2, <2>3
<1> QED
  BY <1>1, <1>2, <1>3, <1>4 DEF IInv, TypeOK, Signals, Steps, Counts, leds

LEMMA FileSystemIInv ==
  ASSUME IInv, Mount \/ BeginFormat \/ EndFormat \/ Remount \/ Tests
  PROVE  IInv'
<1>1. UNCHANGED <<leds, datetime, slot>>
  BY DEF Mount, BeginFormat, EndFormat, Remount, Tests
<1>2. UNCHANGED count \/ Fault
  BY DEF Mount, Mounts, BeginFormat, EndFormat, Remount, Tests
<1>3. Counts'
  BY <1>2, CountTyped, FaultTyped DEF IInv
<1>4. /\ pc' \in {"format", "formatting", "remount", "tests", "blink", "error"}
      /\ card' \in Content /\ mounted' \in BOOLEAN
      /\ pc' \in {"tests", "blink"} => mounted'
      /\ ~led14 /\ ~led13
  BY DEF IInv, TypeOK, Signals, Mount, NeedsFormat, Fail, BeginFormat, EndFormat, Remount,
     AfterRemount, Tests, Content
<1> QED
  BY <1>1, <1>3, <1>4 DEF IInv, TypeOK, Signals, Steps, Counts, leds, slot

LEMMA NextIInv == IInv /\ [Next]_vars => IInv'
<1> SUFFICES ASSUME IInv, [Next]_vars PROVE IInv'
  OBVIOUS
<1> USE DEF Counts
<1>1. CASE Blink
  BY <1>1, CountTyped DEF IInv, Blink, TypeOK, Signals, slot
<1>2. CASE Hardware
  BY <1>2, CountTyped DEF IInv, Hardware, TypeOK, Signals, slot, leds
<1>3. CASE Reset
  <2>1. Counts'
    BY <1>3, BootAssumption DEF IInv, Reset, TypeOK
  <2>2. pc' \in Steps
    BY <1>3 DEF Reset, Steps
  <2> QED
    BY <1>3, <2>1, <2>2, Zenon DEF IInv, Reset, TypeOK, Signals, slot
<1>4. CASE PullOut
  <2>1. Counts'
    BY <1>4, BootAssumption DEF IInv, PullOut, TypeOK
  <2> QED
    BY <1>4, <2>1, Zenon DEF IInv, PullOut, TypeOK, Signals, leds
<1>5. CASE PutBack
  BY <1>5, CountTyped DEF IInv, PutBack, TypeOK, Signals, leds
<1>6. CASE UNCHANGED vars
  BY <1>6, CountTyped DEF IInv, vars, TypeOK, Signals, leds, slot
<1> QED
  BY <1>1, <1>2, <1>3, <1>4, <1>5, <1>6, StartIInv, InitSdIInv, InitSdCardIInv, FileSystemIInv
  DEF Next, Program

(* The types, for all numbers of faults, resets and pulled cards.          *)
THEOREM TypeCorrect == Spec => []TypeOK
<1>1. IInv => TypeOK
  BY DEF IInv
<1> QED
  BY InitIInv, NextIInv, <1>1, PTL DEF Spec

(* LED 14 is lit only by a program with a mounted card, main.c:46.         *)
THEOREM SignalIsTrue == Spec => []SignalsOnlySuccess
<1>1. IInv => SignalsOnlySuccess
  BY DEF IInv, Signals, SignalsOnlySuccess
<1> QED
  BY InitIInv, NextIInv, <1>1, PTL DEF Spec

-----------------------------------------------------------------------------
(* Until an operation fails, a card that answers and is about to be        *)
(* formatted, or just was, has no files.                                   *)
NothingToLose ==
  faults = 0 /\ answers /\ pc \in {"format", "formatting", "remount"} => card # "files"

FInv == IInv /\ NothingToLose

LEMMA FaultCounts ==
  ASSUME TypeOK, Fault
  PROVE  faults' # 0
  BY DEF TypeOK, Fault

LEMMA NextFInv ==
  ASSUME FInv, [Next]_vars
  PROVE  FInv' /\ (card = "files" /\ faults' = 0 => card' = "files")
<1>1. IInv' /\ TypeOK
  BY NextIInv DEF FInv, IInv
<1>2. CASE faults' # 0
  BY <1>1, <1>2 DEF FInv, NothingToLose
<1>3. CASE faults' = 0
  <2>1. ~Fault
    BY <1>1, <1>3, FaultCounts
  <2>2. faults = 0
    <3>1. ASSUME faults' # faults PROVE Fault
      BY <3>1, <1>3, <1>1 DEF FInv, Next, Program, InitRcc, InitBoard, InitUart, InitRtc,
         InitRtcLate, InitSd, InitSdCard, Hardware, Mount, Mounts, BeginFormat, EndFormat,
         Remount, Tests, Blink, Reset, PullOut, PutBack, vars, count
    <3> QED
      BY <3>1, <2>1, <1>3
  <2> USE <2>1, <2>2, <1>1 DEF FInv, NothingToLose
  <2>3. CASE InitRcc \/ InitBoard \/ InitUart \/ InitRtc \/ InitRtcLate \/ InitSd \/ InitSdCard
    BY <2>3 DEF InitRcc, InitBoard, InitUart, InitRtc, InitRtcLate, InitSd, InitSdCard, Fail, slot
  <2>4. CASE Mount
    <3>1. PICK yes \in BOOLEAN :
            /\ Mounts(yes)
            /\ IF NeedsFormat(yes) THEN pc' = "format"
               ELSE IF yes THEN pc' = "tests" ELSE Fail
      BY <2>4 DEF Mount
    <3>2. CASE yes
      BY <2>4, <3>1, <3>2 DEF Mount, NeedsFormat, slot
    <3>3. CASE ~yes
      <4>1. ~Mountable
        BY <3>1, <3>3 DEF Mounts
      <4> QED
        BY <2>4, <4>1 DEF Mount, Mountable, slot
    <3> QED
      BY <3>2, <3>3
  <2>5. CASE BeginFormat \/ EndFormat
    BY <2>5 DEF BeginFormat, EndFormat, Fail, slot
  <2>6. CASE Remount
    BY <2>6 DEF Remount, AfterRemount, slot
  <2>7. CASE Tests
    BY <2>7 DEF Tests, slot
  <2>8. CASE Blink \/ Hardware \/ Reset \/ PullOut \/ PutBack \/ UNCHANGED vars
    BY <2>8 DEF Blink, Hardware, Reset, PullOut, PutBack, vars, slot
  <2> QED
    BY <2>3, <2>4, <2>5, <2>6, <2>7, <2>8 DEF Next, Program
<1> QED
  BY <1>2, <1>3

(* Until an operation fails no number of resets and pulled cards makes the *)
(* program format files away (sd_fat32.c:63-69).                           *)
THEOREM FilesAreSafe == Spec => FilesSurvive
<1>1. Init => FInv
  BY InitIInv DEF FInv, NothingToLose, Init
<1>2. FInv /\ [Next]_vars => FInv'
  BY NextFInv
<1>3. FInv /\ [Next]_vars => [card = "files" /\ faults' = 0 => card' = "files"]_vars
  BY NextFInv
<1> QED
  BY <1>1, <1>2, <1>3, PTL DEF Spec, FilesSurvive

-----------------------------------------------------------------------------
(* 2. The clock tree.  The program does to it only what ClockTree allows:  *)
(* what holds of ClockTree holds with the program around it.               *)
LEMMA NextClocks ==
  ASSUME [Next]_vars
  PROVE  [Clocks!Next]_(Clocks!vars)
<1>1. clocks' = clocks <=> (Clocks!vars)' = Clocks!vars
  BY DEF clocks, Clocks!vars, Clocks!driver, Clocks!tree, Clocks!pll, Clocks!derived
<1>2. CASE InitRcc \/ Hardware \/ Reset
  BY <1>2 DEF InitRcc, Hardware, Reset, Clocks!Next
<1>3. CASE InitBoard \/ InitUart \/ InitRtc \/ InitRtcLate \/ InitSd \/ InitSdCard
  BY <1>1, <1>3 DEF InitBoard, InitUart, InitRtc, InitRtcLate, InitSd, InitSdCard, Clocks!Next,
     Clocks!Derive
<1>4. CASE Mount \/ BeginFormat \/ EndFormat \/ Remount \/ Tests \/ Blink \/ PullOut \/ PutBack
  BY <1>1, <1>4 DEF Mount, BeginFormat, EndFormat, Remount, Tests, Blink, PullOut, PutBack
<1>5. CASE UNCHANGED vars
  BY <1>1, <1>5 DEF vars
<1> QED
  BY <1>2, <1>3, <1>4, <1>5 DEF Next, Program

(* The program, with its drivers and its resets, implements ClockTree.     *)
THEOREM ImplementsClocks == Spec => Clocks!Spec
<1>1. Init => Clocks!Init
  BY DEF Init
<1>2. [Next]_vars => [Clocks!Next]_(Clocks!vars)
  BY NextClocks
<1> QED
  BY <1>1, <1>2, PTL DEF Spec, Clocks!Spec

-----------------------------------------------------------------------------
(* The inductive invariant of the clock tree.                              *)
(* The wait states suffice for a frequency.                                *)
Covers(f) == f <= 30000 * (latency + 1)

AfterSwitch == {"selected", "leave", "clearDown", "lower", "dividers"}

ForPll == {"latency", "clear", "raise", "clearDown", "lower", "pllOff", "pllOn", "pllWait"}

InCall == attempt # 0 \/ clockPc \in {"call", "nmi"}

(* The frequency that switch_to_pll_rcc remembers is that of an            *)
(* oscillator, and not above the 25 MHz that need no wait state.           *)
BeforeIsSlow == before <= 25000

(* The system is on the PLL, or about to be, only after the switch of the  *)
(* call that ends with success, and then the PLL runs.                     *)
OnPllWhere ==
  /\ sws = "pll" => sw = "pll"
  /\ sw = "pll" /\ clockPc # "nmi" =>
       /\ osc.pll = "ready"
       /\ \/ clockPc \in AfterSwitch /\ Clocks!Conf.source = "pll"
          \/ clockPc = "call" /\ result = "ok"
  /\ sw = "pll" => Covers(Clocks!PllFreq(cfg))

(* The wait states are raised in time, and lowered only for a slow PLL.    *)
PllPrepared ==
  /\ clockPc \in ForPll => Clocks!Conf.source = "pll"
  /\ clockPc \in {"pllOff", "pllOn", "pllWait"}
       \/ (clockPc = "select" /\ Clocks!Conf.source = "pll") =>
       Covers(Clocks!PllFreq(Clocks!Conf.pll))
  /\ clockPc = "pllWait" \/ (clockPc = "select" /\ Clocks!Conf.source = "pll") =>
       cfg = Clocks!Conf.pll
  /\ clockPc \in {"clearDown", "lower"} => Clocks!PllFreq(Clocks!Conf.pll) <= 25000
  /\ clockPc \in AfterSwitch /\ Clocks!Conf.source = "pll" /\ sw = "pll" => cfg = Clocks!Conf.pll

ClockInv == Clocks!TypeOK /\ InCall /\ BeforeIsSlow /\ OnPllWhere /\ PllPrepared

-----------------------------------------------------------------------------
(* Quotients.                                                              *)
LEMMA Quotient ==
  ASSUME NEW a \in Nat, NEW b \in Nat \ {0}
  PROVE  a \div b \in Nat
OBVIOUS

LEMMA Product ==
  ASSUME NEW a \in Nat, NEW b \in Nat
  PROVE  a * b \in Nat
OBVIOUS

LEMMA VcoFreqType ==
  ASSUME NEW c \in Clocks!Pll
  PROVE  Clocks!VcoFreq(c) \in Nat
<1> DEFINE in == IF c.src = "hse" THEN 25000 ELSE 16000
<1>1. in \div c.m \in Nat
  BY Quotient DEF Clocks!Pll
<1>2. c.n \in Nat
  BY DEF Clocks!Pll
<1> HIDE DEF in
<1>3. (in \div c.m) * c.n \in Nat
  BY <1>1, <1>2, Product
<1> QED
  BY <1>3 DEF Clocks!VcoFreq, in

LEMMA PllFreqType ==
  ASSUME NEW c \in Clocks!Pll
  PROVE  Clocks!PllFreq(c) \in Nat
BY VcoFreqType, Quotient DEF Clocks!PllFreq, Clocks!Pll

(* set_flash_latency gives a frequency enough wait states.                 *)
LEMMA LatencyCovers ==
  ASSUME NEW f \in Nat, 0 < f, f <= 168000
  PROVE  /\ Clocks!LatencyFor(f) \in 0..6
         /\ f <= 30000 * (Clocks!LatencyFor(f) + 1)
<1>1. f - 1 \in Nat
  OBVIOUS
<1>2. PICK q \in Nat : q = (f - 1) \div 30000
  BY <1>1, Quotient
<1>3. f - 1 < 30000 * (q + 1)
  BY <1>2
<1>4. 30000 * q <= f - 1
  BY <1>2
<1> QED
  BY <1>2, <1>3, <1>4 DEF Clocks!LatencyFor

LEMMA ConfFacts ==
  ASSUME Clocks!ConfigsOK, Clocks!TypeOK, attempt # 0
  PROVE  /\ Clocks!Conf \in Clocks!Config
         /\ 0 < Clocks!PllFreq(Clocks!Conf.pll) /\ Clocks!PllFreq(Clocks!Conf.pll) <= 168000
<1>1. attempt \in 1..Len(Configs)
  BY DEF Clocks!TypeOK, Clocks!ConfigsOK
<1> QED
  BY <1>1 DEF Clocks!ConfigsOK, Clocks!Conf

LEMMA SlowWithoutPll ==
  ASSUME Clocks!TypeOK, sws # "pll"
  PROVE  Clocks!Sysclk \in Nat /\ Clocks!Sysclk <= 25000
<1>1. CASE sws = "hsi"
  <2>1. Clocks!Sysclk = 16000
    BY <1>1 DEF Clocks!Sysclk, Clocks!Freq
  <2> QED
    BY <2>1
<1>2. CASE sws = "hse"
  <2>1. Clocks!Sysclk = 25000
    BY <1>2 DEF Clocks!Sysclk, Clocks!Freq
  <2> QED
    BY <2>1
<1> QED
  BY <1>1, <1>2 DEF Clocks!TypeOK, Clocks!Source

LEMMA InitClock ==
  ASSUME Clocks!ConfigsOK
  PROVE  Clocks!Init => ClockInv
<1> SUFFICES ASSUME Clocks!Init PROVE ClockInv
  OBVIOUS
<1>1. Clocks!TypeOK
  <2>1. /\ osc \in [Clocks!Source -> {"off", "starting", "ready"}]
        /\ sw \in Clocks!Source /\ sws \in Clocks!Source
    BY DEF Clocks!Init, Clocks!Source
  <2>2. cfg \in Clocks!Pll /\ bus \in [apb1 : Clocks!Divider, apb2 : Clocks!Divider]
    BY DEF Clocks!Init, Clocks!Pll, Clocks!PllReset, Clocks!Divider
  <2>3. prer \in [a : 0..127, s : Clocks!HalfWord]
    BY DEF Clocks!Init, Clocks!PrerReset, Clocks!HalfWord
  <2>4. clockPc \in Clocks!Steps /\ attempt \in 0..Len(Configs)
    BY DEF Clocks!Init, Clocks!Steps, Clocks!ConfigsOK
  <2>5. psc \in Clocks!HalfWord /\ brr \in Clocks!HalfWord
    BY DEF Clocks!Init, Clocks!HalfWord
  <2>6. before \in Nat /\ latency \in 0..6 /\ clkdiv \in 0..255 /\ result \in {"none", "ok", "err"}
    BY DEF Clocks!Init
  <2> QED
    BY <2>1, <2>2, <2>3, <2>4, <2>5, <2>6 DEF Clocks!Init, Clocks!TypeOK
<1>2. InCall /\ BeforeIsSlow /\ OnPllWhere /\ PllPrepared
  BY DEF Clocks!Init, InCall, BeforeIsSlow, OnPllWhere, PllPrepared, ForPll, AfterSwitch
<1> QED
  BY <1>1, <1>2 DEF ClockInv

-----------------------------------------------------------------------------
(* The steps of init_rcc.                                                  *)
InnerClock == InCall /\ BeforeIsSlow /\ OnPllWhere /\ PllPrepared

LEMMA SetupClock ==
  ASSUME Clocks!ConfigsOK, ClockInv, Clocks!Setup
  PROVE  ClockInv'
<1>1. Clocks!TypeOK'
  BY
  DEF ClockInv, Clocks!TypeOK, Clocks!Setup, Clocks!NextConfig, Clocks!Steps, Clocks!derived,
      Clocks!tree, Clocks!pll, Clocks!ConfigsOK
<1>2. InnerClock'
  BY
  DEF ClockInv, Clocks!TypeOK, Clocks!Setup, Clocks!NextConfig, InCall, BeforeIsSlow, OnPllWhere,
      PllPrepared, InnerClock, ForPll, AfterSwitch, Clocks!derived, Clocks!tree, Clocks!pll
<1> QED
  BY <1>1, <1>2 DEF ClockInv, InnerClock

LEMMA SwitchOnClock ==
  ASSUME Clocks!ConfigsOK, ClockInv, Clocks!SwitchOn
  PROVE  ClockInv'
<1>1. osc' \in [Clocks!Source -> {"off", "starting", "ready"}]
  BY DEF ClockInv, Clocks!TypeOK, Clocks!SwitchOn
<1>2. clockPc' \in {"wait", "latency", "select"} /\ result' = result
  BY DEF Clocks!SwitchOn, Clocks!Goto, Clocks!AfterOscillator
<1>3. clockPc' = "latency" => Clocks!Conf.source = "pll"
  BY DEF Clocks!SwitchOn, Clocks!Goto, Clocks!AfterOscillator
<1>4. clockPc' = "select" => Clocks!Conf.source # "pll"
  BY DEF Clocks!SwitchOn, Clocks!Goto, Clocks!AfterOscillator
<1>5. sw # "pll"
  BY DEF Clocks!SwitchOn, ClockInv, OnPllWhere, AfterSwitch
<1>6. /\ UNCHANGED <<attempt, before, gates, Clocks!derived, Clocks!pll, sw, sws, bus>>
      /\ clockPc = "on"
  BY DEF Clocks!SwitchOn, Clocks!Goto
<1>7. Clocks!TypeOK'
  BY <1>1, <1>2, <1>6 DEF ClockInv, Clocks!TypeOK, Clocks!Steps, Clocks!derived, Clocks!pll
<1>8. InnerClock'
  BY <1>2, <1>3, <1>4, <1>5, <1>6
  DEF ClockInv, Clocks!TypeOK, InCall, BeforeIsSlow, OnPllWhere, PllPrepared, InnerClock, ForPll,
      AfterSwitch, Clocks!Conf, Clocks!pll
<1> QED
  BY <1>7, <1>8 DEF ClockInv, InnerClock

LEMMA WaitForOscillatorClock ==
  ASSUME Clocks!ConfigsOK, ClockInv, Clocks!WaitForOscillator
  PROVE  ClockInv'
<1>1. sw # "pll" /\ sws # "pll"
  BY DEF Clocks!WaitForOscillator, ClockInv, OnPllWhere, AfterSwitch
<1>2. /\ UNCHANGED <<attempt, before, gates, Clocks!derived, osc, Clocks!pll, sw, sws, bus>>
      /\ clockPc = "wait"
  BY DEF Clocks!WaitForOscillator, Clocks!Goto, Clocks!GivesUp, Clocks!Return
<1>3. \/ clockPc' = "latency" /\ Clocks!Conf.source = "pll" /\ result' = result
      \/ clockPc' = "select" /\ Clocks!Conf.source # "pll" /\ result' = result
      \/ clockPc' = "call" /\ result' = "err"
  BY
  DEF Clocks!WaitForOscillator, Clocks!Goto, Clocks!GivesUp, Clocks!Return, Clocks!AfterOscillator
<1>4. Clocks!TypeOK'
  BY <1>2, <1>3 DEF ClockInv, Clocks!TypeOK, Clocks!Steps, Clocks!derived, Clocks!pll
<1>5. InnerClock'
  BY <1>1, <1>2, <1>3
  DEF ClockInv, Clocks!TypeOK, InCall, BeforeIsSlow, OnPllWhere, PllPrepared, InnerClock, ForPll,
      AfterSwitch, Clocks!Conf, Clocks!pll
<1> QED
  BY <1>4, <1>5 DEF ClockInv, InnerClock

LEMMA ReadFrequenciesClock ==
  ASSUME Clocks!ConfigsOK, ClockInv, Clocks!ReadFrequencies
  PROVE  ClockInv'
<1>1. sw # "pll" /\ sws # "pll" /\ clockPc = "latency" /\ Clocks!Conf.source = "pll"
  BY DEF Clocks!ReadFrequencies, ClockInv, OnPllWhere, AfterSwitch, PllPrepared, ForPll
<1>2. Clocks!Sysclk \in Nat /\ Clocks!Sysclk <= 25000
  BY <1>1, SlowWithoutPll DEF ClockInv
<1>3. Clocks!PllFreq(Clocks!Conf.pll) \in Nat
  <2>1. attempt # 0
    BY <1>1 DEF ClockInv, InCall
  <2>2. Clocks!Conf \in Clocks!Config
    BY <2>1, ConfFacts DEF ClockInv
  <2> QED
    BY <2>2, PllFreqType DEF Clocks!Config
<1>4. /\ UNCHANGED <<attempt, result, gates, Clocks!derived, osc, Clocks!pll, sw, sws, bus>>
      /\ before' = Clocks!Sysclk
  BY DEF Clocks!ReadFrequencies, Clocks!tree
<1>5. \/ clockPc' = "clear"
      \/ clockPc' = "pllOff" /\ ~(Clocks!PllFreq(Clocks!Conf.pll) > Clocks!Sysclk)
  BY DEF Clocks!ReadFrequencies
<1>6. Clocks!TypeOK'
  BY <1>2, <1>4, <1>5 DEF ClockInv, Clocks!TypeOK, Clocks!Steps, Clocks!derived, Clocks!pll
<1>7. clockPc' = "pllOff" => Covers(Clocks!PllFreq(Clocks!Conf.pll))'
  BY <1>2, <1>3, <1>4, <1>5 DEF Covers, Clocks!Conf, ClockInv, Clocks!TypeOK, Clocks!pll
<1>8. InnerClock'
  BY <1>1, <1>2, <1>4, <1>5, <1>7
  DEF ClockInv, Clocks!TypeOK, InCall, BeforeIsSlow, OnPllWhere, PllPrepared, InnerClock, ForPll,
      AfterSwitch, Clocks!Conf, Clocks!pll
<1> QED
  BY <1>6, <1>8 DEF ClockInv, InnerClock

LEMMA ClearLatencyClock ==
  ASSUME Clocks!ConfigsOK, ClockInv, Clocks!ClearLatency
  PROVE  ClockInv'
<1>1. /\ UNCHANGED <<attempt, before, result, gates, Clocks!derived, osc, cfg, sw, sws, bus>>
      /\ latency' = 0
      /\ \/ clockPc = "clear" /\ clockPc' = "raise"
         \/ clockPc = "clearDown" /\ clockPc' = "lower"
  BY DEF Clocks!ClearLatency, Clocks!Goto
<1>2. Clocks!TypeOK'
  BY <1>1 DEF ClockInv, Clocks!TypeOK, Clocks!Steps, Clocks!derived
<1>3. sw = "pll" => cfg = Clocks!Conf.pll /\ Clocks!PllFreq(Clocks!Conf.pll) <= 25000
  BY <1>1 DEF ClockInv, OnPllWhere, PllPrepared, AfterSwitch
<1>4. sw = "pll" => Covers(Clocks!PllFreq(cfg))'
  <2> SUFFICES ASSUME sw = "pll" PROVE Clocks!PllFreq(cfg') <= 30000 * (latency' + 1)
    BY <1>1 DEF Covers
  <2>1. cfg' = Clocks!Conf.pll
    BY <1>1, <1>3
  <2>2. Clocks!PllFreq(cfg') \in Nat
    BY <1>2, PllFreqType DEF Clocks!TypeOK
  <2> QED
    BY <1>1, <1>3, <2>1, <2>2
<1>5. InnerClock'
  BY <1>1, <1>3, <1>4
  DEF ClockInv, Clocks!TypeOK, InCall, BeforeIsSlow, OnPllWhere, PllPrepared, InnerClock, ForPll,
      AfterSwitch, Clocks!Conf
<1> QED
  BY <1>2, <1>5 DEF ClockInv, InnerClock

LEMMA SetLatencyClock ==
  ASSUME Clocks!ConfigsOK, ClockInv, Clocks!SetLatency
  PROVE  ClockInv'
<1>1. /\ UNCHANGED <<attempt, before, result, gates, Clocks!derived, osc, cfg, sw, sws, bus>>
      /\ latency' = Clocks!LatencyFor(Clocks!PllFreq(Clocks!Conf.pll))
      /\ \/ clockPc = "raise" /\ clockPc' = "pllOff"
         \/ clockPc = "lower" /\ clockPc' = "dividers"
  BY DEF Clocks!SetLatency, Clocks!Goto, Clocks!Raised
<1>2. /\ Clocks!Conf \in Clocks!Config
      /\ 0 < Clocks!PllFreq(Clocks!Conf.pll) /\ Clocks!PllFreq(Clocks!Conf.pll) <= 168000
  <2>1. attempt # 0
    BY <1>1 DEF ClockInv, InCall
  <2> QED
    BY <2>1, ConfFacts DEF ClockInv
<1>3. Clocks!PllFreq(Clocks!Conf.pll) \in Nat
  BY <1>2, PllFreqType DEF Clocks!Config
<1>4. latency' \in 0..6 /\ Clocks!PllFreq(Clocks!Conf.pll) <= 30000 * (latency' + 1)
  BY <1>1, <1>2, <1>3, LatencyCovers
<1>5. Clocks!TypeOK'
  BY <1>1, <1>4 DEF ClockInv, Clocks!TypeOK, Clocks!Steps, Clocks!derived
<1>6. Covers(Clocks!PllFreq(Clocks!Conf.pll))'
  BY <1>1, <1>4 DEF Covers, Clocks!Conf
<1>7. sw = "pll" => cfg = Clocks!Conf.pll
  BY <1>1 DEF ClockInv, OnPllWhere, PllPrepared, AfterSwitch
<1>8. sw = "pll" => Covers(Clocks!PllFreq(cfg))'
  BY <1>1, <1>6, <1>7 DEF Clocks!Conf
<1>9. InnerClock'
  BY <1>1, <1>6, <1>7, <1>8
  DEF ClockInv, Clocks!TypeOK, InCall, BeforeIsSlow, OnPllWhere, PllPrepared, InnerClock, ForPll,
      AfterSwitch, Clocks!Conf
<1> QED
  BY <1>5, <1>9 DEF ClockInv, InnerClock

LEMMA StopPllClock ==
  ASSUME Clocks!ConfigsOK, ClockInv, Clocks!StopPll
  PROVE  ClockInv'
<1>1. sw # "pll" /\ sws # "pll" /\ clockPc = "pllOff" /\ Clocks!Conf.source = "pll"
  BY DEF Clocks!StopPll, ClockInv, OnPllWhere, AfterSwitch, PllPrepared, ForPll
<1>2. UNCHANGED <<attempt, before, gates, Clocks!derived, Clocks!pll, sw, sws, bus>>
  BY DEF Clocks!StopPll, Clocks!Goto, Clocks!GivesUp, Clocks!Return
<1>3. \/ clockPc' = "pllOn" /\ result' = result
      \/ clockPc' = "call" /\ result' = "err"
  BY DEF Clocks!StopPll, Clocks!Goto, Clocks!GivesUp, Clocks!Return
<1>4. osc' \in [Clocks!Source -> {"off", "starting", "ready"}]
  BY DEF Clocks!StopPll, Clocks!Stopped, ClockInv, Clocks!TypeOK, Clocks!Source
<1>5. Clocks!TypeOK'
  BY <1>2, <1>3, <1>4 DEF ClockInv, Clocks!TypeOK, Clocks!Steps, Clocks!derived, Clocks!pll
<1>6. Covers(Clocks!PllFreq(Clocks!Conf.pll))'
  BY <1>1, <1>2 DEF ClockInv, PllPrepared, Covers, Clocks!Conf, Clocks!pll
<1>7. InnerClock'
  BY <1>1, <1>2, <1>3, <1>6
  DEF ClockInv, Clocks!TypeOK, InCall, BeforeIsSlow, OnPllWhere, PllPrepared, InnerClock, ForPll,
      AfterSwitch, Clocks!Conf, Clocks!pll
<1> QED
  BY <1>5, <1>7 DEF ClockInv, InnerClock

LEMMA StartPllClock ==
  ASSUME Clocks!ConfigsOK, ClockInv, Clocks!StartPll
  PROVE  ClockInv'
<1>1. sw # "pll" /\ sws # "pll" /\ clockPc = "pllOn" /\ Clocks!Conf.source = "pll"
  BY DEF Clocks!StartPll, ClockInv, OnPllWhere, AfterSwitch, PllPrepared, ForPll
<1>2. /\ UNCHANGED <<attempt, before, result, gates, Clocks!derived, latency, sw, sws, bus>>
      /\ clockPc' = "pllWait" /\ cfg' = Clocks!Conf.pll
  BY DEF Clocks!StartPll, Clocks!Goto
<1>3. Clocks!Conf \in Clocks!Config
  <2>1. attempt # 0
    BY <1>1 DEF ClockInv, InCall
  <2> QED
    BY <2>1, ConfFacts DEF ClockInv
<1>4. osc' \in [Clocks!Source -> {"off", "starting", "ready"}]
  BY DEF Clocks!StartPll, ClockInv, Clocks!TypeOK, Clocks!Source
<1>5. Clocks!TypeOK'
  BY <1>2, <1>3, <1>4 DEF ClockInv, Clocks!TypeOK, Clocks!Steps, Clocks!Config, Clocks!derived
<1>6. Covers(Clocks!PllFreq(Clocks!Conf.pll))'
  BY <1>1, <1>2 DEF ClockInv, PllPrepared, Covers, Clocks!Conf
<1>7. InnerClock'
  BY <1>1, <1>2, <1>6
  DEF ClockInv, Clocks!TypeOK, InCall, BeforeIsSlow, OnPllWhere, PllPrepared, InnerClock, ForPll,
      AfterSwitch, Clocks!Conf
<1> QED
  BY <1>5, <1>7 DEF ClockInv, InnerClock

LEMMA WaitForPllClock ==
  ASSUME Clocks!ConfigsOK, ClockInv, Clocks!WaitForPll
  PROVE  ClockInv'
<1>1. /\ sw # "pll" /\ sws # "pll" /\ clockPc = "pllWait"
      /\ Clocks!Conf.source = "pll" /\ cfg = Clocks!Conf.pll
  BY DEF Clocks!WaitForPll, ClockInv, OnPllWhere, AfterSwitch, PllPrepared, ForPll
<1>2. UNCHANGED <<attempt, before, gates, Clocks!derived, osc, Clocks!pll, sw, sws, bus>>
  BY DEF Clocks!WaitForPll, Clocks!Goto, Clocks!GivesUp, Clocks!Return
<1>3. \/ clockPc' = "select" /\ result' = result
      \/ clockPc' = "call" /\ result' = "err"
  BY DEF Clocks!WaitForPll, Clocks!Goto, Clocks!GivesUp, Clocks!Return
<1>4. Clocks!TypeOK'
  BY <1>2, <1>3 DEF ClockInv, Clocks!TypeOK, Clocks!Steps, Clocks!derived, Clocks!pll
<1>5. Covers(Clocks!PllFreq(Clocks!Conf.pll))'
  BY <1>1, <1>2 DEF ClockInv, PllPrepared, Covers, Clocks!Conf, Clocks!pll
<1>6. InnerClock'
  BY <1>1, <1>2, <1>3, <1>5
  DEF ClockInv, Clocks!TypeOK, InCall, BeforeIsSlow, OnPllWhere, PllPrepared, InnerClock, ForPll,
      AfterSwitch, Clocks!Conf, Clocks!pll
<1> QED
  BY <1>4, <1>6 DEF ClockInv, InnerClock

LEMMA SelectSysClockClock ==
  ASSUME Clocks!ConfigsOK, ClockInv, Clocks!SelectSysClock
  PROVE  ClockInv'
<1>1. sw # "pll" /\ sws # "pll" /\ clockPc = "select"
  BY DEF Clocks!SelectSysClock, ClockInv, OnPllWhere, AfterSwitch
<1>2. Clocks!Conf \in Clocks!Config
  <2>1. attempt # 0
    BY <1>1 DEF ClockInv, InCall
  <2> QED
    BY <2>1, ConfFacts DEF ClockInv
<1>3. UNCHANGED <<attempt, before, gates, Clocks!derived, osc, Clocks!pll, sws, bus>>
  BY DEF Clocks!SelectSysClock, Clocks!Goto, Clocks!GivesUp, Clocks!Return
<1>4. \/ /\ clockPc' = "selected" /\ result' = result
         /\ sw' = Clocks!Conf.source /\ osc[Clocks!Conf.source] = "ready"
      \/ clockPc' = "call" /\ result' = "err" /\ sw' = sw
  BY DEF Clocks!SelectSysClock, Clocks!Goto, Clocks!GivesUp, Clocks!Return
<1>5. Clocks!TypeOK'
  BY <1>2, <1>3, <1>4
  DEF ClockInv, Clocks!TypeOK, Clocks!Steps, Clocks!Config, Clocks!derived, Clocks!pll
<1>6. sw' = "pll" => Covers(Clocks!PllFreq(cfg))' /\ cfg = Clocks!Conf.pll
  BY <1>1, <1>3, <1>4 DEF ClockInv, PllPrepared, Covers, Clocks!pll
<1>7. InnerClock'
  BY <1>1, <1>3, <1>4, <1>6
  DEF ClockInv, Clocks!TypeOK, InCall, BeforeIsSlow, OnPllWhere, PllPrepared, InnerClock, ForPll,
      AfterSwitch, Clocks!Conf, Clocks!pll
<1> QED
  BY <1>5, <1>7 DEF ClockInv, InnerClock

(* The loop gives up only on a clock that has stopped, and the PLL has not.*)
LEMMA WaitForSwitchClock ==
  ASSUME Clocks!ConfigsOK, ClockInv, Clocks!WaitForSwitch
  PROVE  ClockInv'
<1>1. /\ UNCHANGED <<attempt, before, gates, Clocks!derived, osc, Clocks!pll, sw, sws, bus>>
      /\ clockPc = "selected"
  BY DEF Clocks!WaitForSwitch, Clocks!Goto, Clocks!GivesUp, Clocks!Return
<1>2. \/ clockPc' = "leave" /\ result' = result
      \/ clockPc' = "call" /\ result' = "err" /\ osc[sw] # "ready"
  BY DEF Clocks!WaitForSwitch, Clocks!Goto, Clocks!GivesUp, Clocks!Return
<1>3. Clocks!TypeOK'
  BY <1>1, <1>2 DEF ClockInv, Clocks!TypeOK, Clocks!Steps, Clocks!derived, Clocks!pll
<1>4. InnerClock'
  BY <1>1, <1>2
  DEF ClockInv, Clocks!TypeOK, InCall, BeforeIsSlow, OnPllWhere, PllPrepared, InnerClock, ForPll,
      AfterSwitch, Clocks!Conf, Covers, Clocks!pll
<1> QED
  BY <1>3, <1>4 DEF ClockInv, InnerClock

LEMMA LeaveOldClockClock ==
  ASSUME Clocks!ConfigsOK, ClockInv, Clocks!LeaveOldClock
  PROVE  ClockInv'
<1>1. /\ UNCHANGED <<attempt, before, result, gates, Clocks!derived, Clocks!pll, sw, sws, bus>>
      /\ clockPc = "leave"
  BY DEF Clocks!LeaveOldClock, Clocks!Goto
<1>2. Clocks!Conf \in Clocks!Config
  <2>1. attempt # 0
    BY <1>1 DEF ClockInv, InCall
  <2> QED
    BY <2>1, ConfFacts DEF ClockInv
<1>3. osc' \in [Clocks!Source -> {"off", "starting", "ready"}]
  <2>1. CASE Clocks!Conf.source = "pll"
    BY <2>1 DEF Clocks!LeaveOldClock, Clocks!SwitchedOff, ClockInv, Clocks!TypeOK
  <2>2. CASE Clocks!Conf.source = "hsi"
    BY <2>2
    DEF Clocks!LeaveOldClock, Clocks!SwitchedOff, Clocks!Stopped, ClockInv, Clocks!TypeOK,
        Clocks!Source
  <2>3. CASE Clocks!Conf.source = "hse"
    BY <2>3
    DEF Clocks!LeaveOldClock, Clocks!SwitchedOff, Clocks!Stopped, ClockInv, Clocks!TypeOK,
        Clocks!Source
  <2> QED
    BY <1>2, <2>1, <2>2, <2>3 DEF Clocks!Config, Clocks!Source
<1>4. \/ clockPc' = "dividers"
      \/ /\ clockPc' = "clearDown" /\ Clocks!Conf.source = "pll"
         /\ Clocks!PllFreq(Clocks!Conf.pll) < before
  BY DEF Clocks!LeaveOldClock, Clocks!Goto
<1>5. sw = "pll" => osc' = osc
  BY <1>1 DEF ClockInv, OnPllWhere, Clocks!LeaveOldClock, Clocks!SwitchedOff
<1>6. Clocks!PllFreq(Clocks!Conf.pll) \in Nat
  BY <1>2, PllFreqType DEF Clocks!Config
<1>7. Clocks!TypeOK'
  BY <1>1, <1>3, <1>4 DEF ClockInv, Clocks!TypeOK, Clocks!Steps, Clocks!derived, Clocks!pll
<1>8. clockPc' = "clearDown" => Clocks!PllFreq(Clocks!Conf.pll) <= 25000
  BY <1>4, <1>6 DEF ClockInv, BeforeIsSlow, Clocks!TypeOK
<1>9. InnerClock'
  BY <1>1, <1>4, <1>5, <1>8
  DEF ClockInv, Clocks!TypeOK, InCall, BeforeIsSlow, OnPllWhere, PllPrepared, InnerClock, ForPll,
      AfterSwitch, Clocks!Conf, Covers, Clocks!pll
<1> QED
  BY <1>7, <1>9 DEF ClockInv, InnerClock

LEMMA SetBusDividersClock ==
  ASSUME Clocks!ConfigsOK, ClockInv, Clocks!SetBusDividers
  PROVE  ClockInv'
<1>1. /\ UNCHANGED <<attempt, before, gates, Clocks!derived, osc, Clocks!pll, sw, sws>>
      /\ clockPc = "dividers" /\ clockPc' = "call" /\ result' = "ok"
  BY DEF Clocks!SetBusDividers, Clocks!Return
<1>2. bus' \in [apb1 : Clocks!Divider, apb2 : Clocks!Divider]
  <2>1. attempt # 0
    BY <1>1 DEF ClockInv, InCall
  <2>2. Clocks!Conf \in Clocks!Config
    BY <2>1, ConfFacts DEF ClockInv
  <2> QED
    BY <2>2 DEF Clocks!SetBusDividers, Clocks!Dividers, Clocks!Config
<1>3. Clocks!TypeOK'
  BY <1>1, <1>2 DEF ClockInv, Clocks!TypeOK, Clocks!Steps, Clocks!derived, Clocks!pll
<1>4. InnerClock'
  BY <1>1
  DEF ClockInv, Clocks!TypeOK, InCall, BeforeIsSlow, OnPllWhere, PllPrepared, InnerClock, ForPll,
      AfterSwitch, Clocks!Conf, Covers, Clocks!pll
<1> QED
  BY <1>3, <1>4 DEF ClockInv, InnerClock

(* A step that leaves the call, the switch and the PLL alone.              *)
LEMMA AloneClock ==
  ASSUME ClockInv,
         UNCHANGED <<clockPc, attempt, before, result, Clocks!pll, sw, sws, bus>>,
         osc' \in [Clocks!Source -> {"off", "starting", "ready"}],
         osc.pll = "ready" => osc'.pll = "ready",
         gates' \in BOOLEAN,
         psc' \in Clocks!HalfWord, brr' \in Clocks!HalfWord,
         prer' \in [a : 0..127, s : Clocks!HalfWord], clkdiv' \in 0..255
  PROVE  ClockInv'
<1>1. Clocks!TypeOK'
  BY DEF ClockInv, Clocks!TypeOK, Clocks!pll
<1>2. InnerClock'
  BY
  DEF ClockInv, Clocks!TypeOK, InCall, BeforeIsSlow, OnPllWhere, PllPrepared, InnerClock, ForPll,
      AfterSwitch, Clocks!Conf, Covers, Clocks!pll
<1> QED
  BY <1>1, <1>2 DEF ClockInv, InnerClock

LEMMA EnablePeripheralsClock ==
  ASSUME ClockInv, Clocks!EnablePeripherals
  PROVE  ClockInv'
<1>1. /\ UNCHANGED <<clockPc, attempt, before, result, osc, Clocks!pll, sw, sws, bus>>
      /\ UNCHANGED Clocks!derived
      /\ gates' = TRUE
  BY DEF Clocks!EnablePeripherals, Clocks!tree
<1> QED
  BY <1>1, AloneClock DEF ClockInv, Clocks!TypeOK, Clocks!derived

LEMMA StutterClock ==
  ASSUME ClockInv, UNCHANGED Clocks!vars
  PROVE  ClockInv'
BY AloneClock DEF ClockInv, Clocks!TypeOK, Clocks!vars, Clocks!driver, Clocks!tree, Clocks!derived

-----------------------------------------------------------------------------
(* The dividers of the drivers fit their registers.                        *)
LEMMA QuotientNotAbove ==
  ASSUME NEW a \in Nat, NEW b \in Nat \ {0}
  PROVE  a \div b <= a
OBVIOUS

LEMMA HalfWordRange ==
  ASSUME NEW n \in Nat, n < 65536
  PROVE  n \in Clocks!HalfWord
BY DEF Clocks!HalfWord

LEMMA SysclkBound ==
  ASSUME ClockInv
  PROVE  Clocks!Sysclk \in Nat /\ Clocks!Sysclk <= 210000
<1>1. CASE sws # "pll"
  BY <1>1, SlowWithoutPll DEF ClockInv
<1>2. CASE sws = "pll"
  <2>1. Clocks!Sysclk = Clocks!PllFreq(cfg)
    BY <1>2 DEF Clocks!Sysclk, Clocks!Freq
  <2>2. Clocks!PllFreq(cfg) \in Nat
    BY PllFreqType DEF ClockInv, Clocks!TypeOK
  <2>3. Covers(Clocks!PllFreq(cfg)) /\ latency \in 0..6
    BY <1>2 DEF ClockInv, OnPllWhere, Clocks!TypeOK
  <2> QED
    BY <2>1, <2>2, <2>3 DEF Covers
<1> QED
  BY <1>1, <1>2

LEMMA InitTimerClock ==
  ASSUME ClockInv, Clocks!InitTimer
  PROVE  ClockInv'
<1>1. Clocks!Apb1 \in Nat
  <2>1. bus.apb1 \in Nat \ {0}
    BY DEF ClockInv, Clocks!TypeOK, Clocks!Divider
  <2> QED
    BY <2>1, SysclkBound, Quotient DEF Clocks!Apb1
<1>2. Clocks!TimerClock - 1 \in Int
  BY <1>1 DEF Clocks!TimerClock
<1>3. psc' \in Clocks!HalfWord
  <2>1. psc' = (Clocks!TimerClock - 1) % 65536
    BY DEF Clocks!InitTimer
  <2> QED
    BY <1>2, <2>1, HalfWordRange, SMT
<1> QED
  BY <1>3, AloneClock
  DEF Clocks!InitTimer, Clocks!Clocked, ClockInv, Clocks!TypeOK, Clocks!tree, Clocks!driver

LEMMA SetupUartClock ==
  ASSUME ClockInv, Clocks!SetupUart
  PROVE  ClockInv'
<1>1. Clocks!Apb2 \in Nat /\ Clocks!Apb2 <= 210000
  <2>1. bus.apb2 \in Nat \ {0}
    BY DEF ClockInv, Clocks!TypeOK, Clocks!Divider
  <2>2. Clocks!Apb2 \in Nat /\ Clocks!Apb2 <= Clocks!Sysclk
    BY <2>1, SysclkBound, Quotient, QuotientNotAbove DEF Clocks!Apb2
  <2> QED
    BY <2>2, SysclkBound
<1>2. brr' \in Clocks!HalfWord
  <2>1. PICK m \in Nat : m = (Clocks!Apb2 * 1000) \div 1843200
    BY <1>1, Quotient
  <2>2. 1843200 * m <= Clocks!Apb2 * 1000
    BY <1>1, <2>1
  <2>3. m <= 200
    BY <1>1, <2>2
  <2>4. PICK r \in 0..15 : r = Clocks!Fraction(Clocks!Apb2) % 16
    <3>1. (2 * Clocks!Apb2 * 1000) \div 115200 \in Nat
      BY <1>1, Quotient
    <3>2. Clocks!Fraction(Clocks!Apb2) \in Int
      BY <2>1, <3>1 DEF Clocks!Fraction, Clocks!Mantissa, Clocks!BaudRate
    <3> QED
      BY <3>2
  <2>5. brr' = 16 * m + r
    BY <2>1, <2>4 DEF Clocks!SetupUart, Clocks!Brr, Clocks!Mantissa, Clocks!BaudRate
  <2> QED
    BY <2>3, <2>5, HalfWordRange, SMT
<1> QED
  BY <1>2, AloneClock
  DEF Clocks!SetupUart, Clocks!Clocked, ClockInv, Clocks!TypeOK, Clocks!tree, Clocks!driver

LEMMA SwitchOnHseClock ==
  ASSUME ClockInv, Clocks!SwitchOnHse
  PROVE  ClockInv'
<1>1. /\ osc' \in [Clocks!Source -> {"off", "starting", "ready"}]
      /\ osc.pll = "ready" => osc'.pll = "ready"
  BY DEF Clocks!SwitchOnHse, ClockInv, Clocks!TypeOK, Clocks!Source
<1> QED
  BY <1>1, AloneClock
  DEF Clocks!SwitchOnHse, Clocks!Clocked, ClockInv, Clocks!TypeOK, Clocks!derived, Clocks!driver,
      Clocks!pll

LEMMA InitRtcClockClock ==
  ASSUME ClockInv, Clocks!InitRtcClock
  PROVE  ClockInv'
<1> DEFINE fits(a) == Clocks!Synchronous(Clocks!RtcClock, a) <= 32767
<1>1. ASSUME NEW a \in 0..127, fits(a)
      PROVE  Clocks!Synchronous(Clocks!RtcClock, a) \in Clocks!HalfWord
  <2>1. a + 1 \in Nat \ {0} /\ a + 1 <= 128
    OBVIOUS
  <2>2. PICK q \in Nat : q = 1000000 \div (a + 1)
    BY <2>1, Quotient
  <2>3. q # 0
    BY <2>1, <2>2
  <2> QED
    BY <1>1, <2>2, <2>3 DEF Clocks!Synchronous, Clocks!RtcClock, Clocks!HalfWord
<1>2. prer' \in [a : 0..127, s : Clocks!HalfWord]
  <2>1. prer' = Clocks!Prescalers(Clocks!RtcClock)
    BY DEF Clocks!InitRtcClock
  <2>2. CASE \E a \in 0..127 : fits(a)
    <3> DEFINE first(a) == a \in 0..127 /\ fits(a) /\ \A b \in 0..(a - 1) : ~fits(b)
    <3>1. \E a : first(a)
      <4>1. Clocks!Synchronous(Clocks!RtcClock, 30) <= 32767
        BY SMT DEF Clocks!Synchronous, Clocks!RtcClock
      <4>2. ASSUME NEW b \in 0..29 PROVE ~fits(b)
        <5>1. b + 1 \in Nat \ {0} /\ b + 1 <= 30
          OBVIOUS
        <5>2. PICK q \in Nat : q = 1000000 \div (b + 1)
          BY <5>1, Quotient
        <5>3. 1000000 < (b + 1) * (q + 1)
          BY <5>1, <5>2, SMT
        <5>4. (b + 1) * (q + 1) <= 30 * (q + 1)
          BY <5>1, SMT
        <5> QED
          BY <5>2, <5>3, <5>4, SMT DEF Clocks!Synchronous, Clocks!RtcClock
      <4> QED
        BY <4>1, <4>2
    <3> QED
      <4> DEFINE k == CHOOSE a \in 0..127 : fits(a) /\ \A b \in 0..(a - 1) : ~fits(b)
      <4>1. k \in 0..127 /\ fits(k)
        <5> DEFINE least(a) == fits(a) /\ \A b \in 0..(a - 1) : ~fits(b)
        <5>1. \E a \in 0..127 : least(a)
          BY <3>1
        <5>2. k = CHOOSE a \in 0..127 : least(a)
          OBVIOUS
        <5> HIDE DEF least, k
        <5>3. k \in 0..127 /\ least(k)
          BY <5>1, <5>2
        <5> QED
          BY <5>3 DEF least
      <4>2. prer' = [a |-> k, s |-> Clocks!Synchronous(Clocks!RtcClock, k)]
        BY <2>1, <2>2 DEF Clocks!Prescalers
      <4> HIDE DEF k
      <4> QED
        BY <1>1, <4>1, <4>2
  <2>3. CASE ~\E a \in 0..127 : fits(a)
    BY <2>1, <2>3 DEF Clocks!Prescalers, Clocks!HalfWord
  <2> QED
    BY <2>2, <2>3
<1> QED
  BY <1>2, AloneClock
  DEF Clocks!InitRtcClock, Clocks!Clocked, ClockInv, Clocks!TypeOK, Clocks!tree, Clocks!driver

LEMMA InitSdioClock ==
  ASSUME ClockInv, Clocks!InitSdio
  PROVE  ClockInv'
<1>1. Clocks!Pll48 \in Nat
  BY VcoFreqType, Quotient DEF Clocks!Pll48, Clocks!Pll, ClockInv, Clocks!TypeOK
<1>2. Clocks!DividerFor(400) \in Int
  BY <1>1, Quotient DEF Clocks!DividerFor
<1>3. clkdiv' \in 0..255
  BY <1>2 DEF Clocks!InitSdio
<1> QED
  BY <1>3, AloneClock
  DEF Clocks!InitSdio, Clocks!Clocked, ClockInv, Clocks!TypeOK, Clocks!tree, Clocks!driver

LEMMA SpeedUpCardClock ==
  ASSUME ClockInv, Clocks!SpeedUpCard
  PROVE  ClockInv'
BY AloneClock
DEF Clocks!SpeedUpCard, Clocks!Clocked, ClockInv, Clocks!TypeOK, Clocks!tree, Clocks!driver

-----------------------------------------------------------------------------
(* The hardware.                                                           *)
LEMMA StartedClock ==
  ASSUME ClockInv, NEW s \in Clocks!Source, Clocks!Started(s)
  PROVE  ClockInv'
<1>1. /\ osc' \in [Clocks!Source -> {"off", "starting", "ready"}]
      /\ osc.pll = "ready" => osc'.pll = "ready"
  BY DEF Clocks!Started, ClockInv, Clocks!TypeOK, Clocks!Source
<1> QED
  BY <1>1, AloneClock DEF Clocks!Started, ClockInv, Clocks!TypeOK, Clocks!derived, Clocks!driver

LEMMA SwitchedClock ==
  ASSUME ClockInv, Clocks!Switched
  PROVE  ClockInv'
<1>1. UNCHANGED <<Clocks!driver, Clocks!derived, osc, Clocks!pll, sw, bus>> /\ sws' = sw
  BY DEF Clocks!Switched
<1>2. Clocks!TypeOK'
  BY <1>1 DEF ClockInv, Clocks!TypeOK, Clocks!derived, Clocks!driver, Clocks!pll
<1>3. InnerClock'
  BY <1>1
  DEF ClockInv, Clocks!TypeOK, InCall, BeforeIsSlow, OnPllWhere, PllPrepared, InnerClock, ForPll,
      AfterSwitch, Clocks!Conf, Covers, Clocks!pll, Clocks!driver
<1> QED
  BY <1>2, <1>3 DEF ClockInv, InnerClock

LEMMA HseFailsClock ==
  ASSUME ClockInv, Clocks!HseFails
  PROVE  ClockInv'
<1>1. /\ UNCHANGED <<attempt, before, result, gates, Clocks!derived, Clocks!pll, bus>>
      /\ clockPc' = "nmi"
  BY DEF Clocks!HseFails, Clocks!Goto
<1>2. \/ sw' = "hsi" /\ sws' = "hsi"
      \/ sw' = sw /\ sws' = sws
  BY DEF Clocks!HseFails
<1>3. osc' \in [Clocks!Source -> {"off", "starting", "ready"}]
  <2>1. osc \in [Clocks!Source -> {"off", "starting", "ready"}]
    BY DEF ClockInv, Clocks!TypeOK
  <2>2. \/ osc' = [s \in Clocks!Source |-> IF s = "hsi" THEN "ready" ELSE "off"]
        \/ osc' = [osc EXCEPT !.hse = "off", !.pll = "off"]
        \/ osc' = [osc EXCEPT !.hse = "off", !.pll = osc.pll]
    <3>1. CASE cfg.src = "hse"
      BY <3>1 DEF Clocks!HseFails
    <3>2. CASE cfg.src # "hse"
      <4>1. \/ osc' = [s \in Clocks!Source |-> IF s = "hsi" THEN "ready" ELSE "off"]
            \/ osc' = [osc EXCEPT !.hse = "off", !.pll = [osc EXCEPT !.hse = "off"].pll]
        BY <3>2 DEF Clocks!HseFails
      <4> QED
        BY <2>1, <4>1 DEF Clocks!Source
    <3> QED
      BY <3>1, <3>2
  <2>3. osc.pll \in {"off", "starting", "ready"}
    BY <2>1 DEF Clocks!Source
  <2> QED
    BY <2>1, <2>2, <2>3
<1>4. Clocks!TypeOK'
  BY <1>1, <1>2, <1>3
  DEF ClockInv, Clocks!TypeOK, Clocks!Steps, Clocks!Source, Clocks!derived, Clocks!pll
<1>5. InnerClock'
  BY <1>1, <1>2
  DEF ClockInv, Clocks!TypeOK, InCall, BeforeIsSlow, OnPllWhere, PllPrepared, InnerClock, ForPll,
      AfterSwitch, Clocks!Conf, Covers, Clocks!pll
<1> QED
  BY <1>4, <1>5 DEF ClockInv, InnerClock

LEMMA ResetClock ==
  ASSUME Clocks!ConfigsOK, ClockInv, Clocks!Reset
  PROVE  ClockInv'
<1>1. Clocks!TypeOK'
  <2>1. /\ osc' \in [Clocks!Source -> {"off", "starting", "ready"}]
        /\ sw' \in Clocks!Source /\ sws' \in Clocks!Source
    BY DEF Clocks!Reset, Clocks!Source
  <2>2. cfg' \in Clocks!Pll /\ bus' \in [apb1 : Clocks!Divider, apb2 : Clocks!Divider]
    BY DEF Clocks!Reset, Clocks!Pll, Clocks!PllReset, Clocks!Divider
  <2>3. prer' \in [a : 0..127, s : Clocks!HalfWord]
    BY DEF Clocks!Reset, ClockInv, Clocks!TypeOK
  <2>4. clockPc' \in Clocks!Steps /\ attempt' \in 0..Len(Configs)
    BY DEF Clocks!Reset, Clocks!Steps, Clocks!ConfigsOK
  <2>5. psc' \in Clocks!HalfWord /\ brr' \in Clocks!HalfWord
    BY DEF Clocks!Reset, Clocks!HalfWord
  <2>6. /\ before' \in Nat /\ latency' \in 0..6 /\ clkdiv' \in 0..255
        /\ result' \in {"none", "ok", "err"}
    BY DEF Clocks!Reset
  <2>7. gates' \in BOOLEAN
    BY DEF Clocks!Reset
  <2> QED
    BY <2>1, <2>2, <2>3, <2>4, <2>5, <2>6, <2>7 DEF Clocks!TypeOK
<1>2. InnerClock'
  BY
  DEF Clocks!Reset, InCall, BeforeIsSlow, OnPllWhere, PllPrepared, InnerClock, ForPll, AfterSwitch
<1> QED
  BY <1>1, <1>2 DEF ClockInv, InnerClock

-----------------------------------------------------------------------------
LEMMA NextClock ==
  ASSUME Clocks!ConfigsOK, ClockInv, [Clocks!Next]_Clocks!vars
  PROVE  ClockInv'
<1>1. CASE Clocks!InitRcc
  BY <1>1, SetupClock, SwitchOnClock, WaitForOscillatorClock, ReadFrequenciesClock,
     ClearLatencyClock, SetLatencyClock, StopPllClock, StartPllClock, WaitForPllClock,
     SelectSysClockClock, WaitForSwitchClock, LeaveOldClockClock, SetBusDividersClock,
     EnablePeripheralsClock
  DEF Clocks!InitRcc
<1>2. CASE Clocks!Derive
  BY <1>2, InitTimerClock, SetupUartClock, SwitchOnHseClock, InitRtcClockClock, InitSdioClock,
     SpeedUpCardClock
  DEF Clocks!Derive
<1>3. CASE Clocks!Hardware
  BY <1>3, StartedClock, SwitchedClock, HseFailsClock DEF Clocks!Hardware
<1>4. CASE Clocks!Reset
  BY <1>4, ResetClock
<1>5. CASE UNCHANGED Clocks!vars
  BY <1>5, StutterClock
<1> QED
  BY <1>1, <1>2, <1>3, <1>4, <1>5 DEF Clocks!Next

-----------------------------------------------------------------------------
(* What a call that succeeds leaves, and what the drivers make of it.      *)
Succeeded == clockPc = "call" /\ result = "ok"

(* A call that has switched runs on the clock of its configuration, which  *)
(* is up; nothing touches it after the call that ends with success.        *)
OnItsClock ==
  /\ clockPc \in AfterSwitch \/ Succeeded =>
       /\ attempt # 0 /\ sw = Clocks!Conf.source /\ osc[sw] = "ready"
       /\ sw = "pll" => cfg = Clocks!Conf.pll
  /\ clockPc \in AfterSwitch \ {"selected"} \/ Succeeded => sws = sw
  /\ Succeeded => bus = Clocks!Dividers

(* The calls come first and end with the first success.                    *)
CallsFirst ==
  /\ result = "ok" => clockPc \in {"call", "nmi"}
  /\ gates => clockPc \in {"call", "nmi"}

KnownPll ==
  cfg = Clocks!PllReset \/ \E k \in 1..Len(Configs) : cfg = Configs[k].pll

(* What the drivers have written is of the clock that runs.                *)
DividersCurrent ==
  /\ psc # 0 \/ brr # 0 => gates /\ result = "ok"
  /\ psc # 0 /\ clockPc # "nmi" => psc = (Clocks!TimerClock - 1) % 65536
  /\ brr # 0 /\ clockPc # "nmi" => brr = Clocks!Brr(Clocks!Apb2)

Settled == OnItsClock /\ CallsFirst /\ KnownPll /\ DividersCurrent

LEMMA InitSettled == Clocks!Init => Settled
BY DEF Clocks!Init, Settled, OnItsClock, CallsFirst, KnownPll, DividersCurrent, Succeeded,
   AfterSwitch

(* Steps of a call, which has written no divider of a driver.              *)
LEMMA BeforeSwitchSettled ==
  ASSUME ClockInv, Settled, clockPc \notin {"call", "nmi"},
         clockPc' \notin AfterSwitch, result' # "ok", KnownPll',
         UNCHANGED <<gates, Clocks!derived>>
  PROVE  Settled'
<1>1. ~gates /\ result # "ok" /\ psc = 0 /\ brr = 0
  BY DEF Settled, CallsFirst, DividersCurrent
<1> QED
  BY <1>1 DEF Settled, OnItsClock, CallsFirst, DividersCurrent, Succeeded, Clocks!derived

LEMMA CallSettled ==
  ASSUME Clocks!ConfigsOK, ClockInv, Settled, Clocks!InitRcc
  PROVE  Settled'
<1>1. ~gates /\ psc = 0 /\ brr = 0
  BY DEF Settled, CallsFirst, DividersCurrent, Clocks!InitRcc, Clocks!Setup, Clocks!SwitchOn,
     Clocks!WaitForOscillator, Clocks!ReadFrequencies, Clocks!ClearLatency, Clocks!SetLatency,
     Clocks!StopPll, Clocks!StartPll, Clocks!WaitForPll, Clocks!SelectSysClock,
     Clocks!WaitForSwitch, Clocks!LeaveOldClock, Clocks!SetBusDividers, Clocks!EnablePeripherals
<1>2. CASE Clocks!Setup
  <2>1. clockPc' = "on" /\ result' = "none" /\ UNCHANGED <<gates, psc, brr, cfg>>
    BY <1>2 DEF Clocks!Setup, Clocks!derived, Clocks!tree, Clocks!pll
  <2> QED
    BY <1>1, <2>1 DEF Settled, OnItsClock, CallsFirst, DividersCurrent, Succeeded, AfterSwitch,
       KnownPll
<1>3. CASE \/ Clocks!SwitchOn \/ Clocks!WaitForOscillator \/ Clocks!ReadFrequencies
           \/ Clocks!StopPll \/ Clocks!WaitForPll
  <2>1. /\ clockPc \notin {"call", "nmi"}
        /\ clockPc' \in {"wait", "latency", "select", "clear", "pllOff", "pllOn", "call"}
        /\ result' \in {result, "err"}
        /\ UNCHANGED <<gates, Clocks!derived, cfg>>
    BY <1>3 DEF Clocks!SwitchOn, Clocks!WaitForOscillator, Clocks!ReadFrequencies,
       Clocks!StopPll, Clocks!WaitForPll, Clocks!Goto, Clocks!GivesUp, Clocks!Return,
       Clocks!AfterOscillator, Clocks!tree, Clocks!pll
  <2>2. clockPc' \notin AfterSwitch /\ result' # "ok"
    BY <2>1 DEF AfterSwitch, Settled, CallsFirst
  <2>3. KnownPll'
    BY <2>1 DEF Settled, KnownPll
  <2> QED
    BY <2>1, <2>2, <2>3, BeforeSwitchSettled
<1>4. CASE Clocks!StartPll
  <2>1. /\ clockPc = "pllOn" /\ clockPc' = "pllWait" /\ cfg' = Configs[attempt].pll
        /\ UNCHANGED <<gates, Clocks!derived, result>>
    BY <1>4 DEF Clocks!StartPll, Clocks!Goto, Clocks!Conf
  <2>2. attempt \in 1..Len(Configs)
    BY <2>1 DEF ClockInv, InCall, Clocks!TypeOK, Clocks!ConfigsOK
  <2>3. clockPc' \notin AfterSwitch /\ result' # "ok"
    BY <2>1 DEF AfterSwitch, Settled, CallsFirst
  <2>4. KnownPll'
    BY <2>1, <2>2 DEF KnownPll
  <2> QED
    BY <2>1, <2>3, <2>4, BeforeSwitchSettled
<1>5. CASE Clocks!ClearLatency \/ Clocks!SetLatency
  <2>1. /\ \/ clockPc = "clear" /\ clockPc' = "raise"
           \/ clockPc = "clearDown" /\ clockPc' = "lower"
           \/ clockPc = "raise" /\ clockPc' = "pllOff"
           \/ clockPc = "lower" /\ clockPc' = "dividers"
        /\ UNCHANGED <<attempt, result, gates, psc, brr, osc, cfg, sw, sws, bus>>
    BY <1>5 DEF Clocks!ClearLatency, Clocks!SetLatency, Clocks!Goto, Clocks!derived
  <2> QED
    BY <1>1, <2>1 DEF Settled, OnItsClock, CallsFirst, DividersCurrent, Succeeded, AfterSwitch,
       KnownPll, Clocks!Conf
<1>6. CASE Clocks!SelectSysClock
  <2>1. clockPc = "select" /\ UNCHANGED <<attempt, gates, psc, brr, cfg, osc, sws, bus>>
    BY <1>6 DEF Clocks!SelectSysClock, Clocks!Goto, Clocks!GivesUp, Clocks!Return,
       Clocks!derived, Clocks!pll
  <2>2. \/ /\ clockPc' = "selected" /\ result' = result
           /\ sw' = Clocks!Conf.source /\ osc[sw'] = "ready"
        \/ clockPc' = "call" /\ result' = "err"
    BY <1>6 DEF Clocks!SelectSysClock, Clocks!Goto, Clocks!GivesUp, Clocks!Return
  <2>3. attempt # 0 /\ (Clocks!Conf.source = "pll" => cfg = Clocks!Conf.pll) /\ result # "ok"
    BY <2>1 DEF ClockInv, InCall, PllPrepared, Settled, CallsFirst
  <2> QED
    BY <1>1, <2>1, <2>2, <2>3 DEF Settled, OnItsClock, CallsFirst, DividersCurrent, Succeeded,
       AfterSwitch, KnownPll, Clocks!Conf
<1>7. CASE Clocks!WaitForSwitch
  <2>1. clockPc = "selected" /\ UNCHANGED <<attempt, gates, psc, brr, cfg, osc, sw, sws, bus>>
    BY <1>7 DEF Clocks!WaitForSwitch, Clocks!Goto, Clocks!GivesUp, Clocks!Return,
       Clocks!derived, Clocks!pll
  <2>2. \/ clockPc' = "leave" /\ result' = result /\ sws = Clocks!Conf.source
        \/ clockPc' = "call" /\ result' = "err"
    BY <1>7 DEF Clocks!WaitForSwitch, Clocks!Goto, Clocks!GivesUp, Clocks!Return
  <2> QED
    BY <1>1, <2>1, <2>2 DEF Settled, OnItsClock, CallsFirst, DividersCurrent, Succeeded,
       AfterSwitch, KnownPll, Clocks!Conf
<1>8. CASE Clocks!LeaveOldClock
  <2>1. /\ clockPc = "leave" /\ clockPc' \in {"clearDown", "dividers"}
        /\ UNCHANGED <<attempt, result, gates, psc, brr, cfg, sw, sws, bus>>
    BY <1>8 DEF Clocks!LeaveOldClock, Clocks!Goto, Clocks!derived, Clocks!pll
  <2>2. sw = Clocks!Conf.source /\ osc[sw] = "ready" /\ sws = sw
    BY <2>1 DEF Settled, OnItsClock, AfterSwitch
  <2>3. osc \in [Clocks!Source -> {"off", "starting", "ready"}] /\ sw \in Clocks!Source
    BY DEF ClockInv, Clocks!TypeOK
  <2>4. osc'[sw] = "ready"
    <3>1. CASE sw = "pll"
      BY <1>8, <2>2, <3>1 DEF Clocks!LeaveOldClock, Clocks!SwitchedOff
    <3>2. CASE sw = "hsi"
      BY <1>8, <2>2, <2>3, <3>2 DEF Clocks!LeaveOldClock, Clocks!SwitchedOff, Clocks!Stopped,
         Clocks!Source
    <3>3. CASE sw = "hse"
      BY <1>8, <2>2, <2>3, <3>3 DEF Clocks!LeaveOldClock, Clocks!SwitchedOff, Clocks!Stopped,
         Clocks!Source
    <3> QED
      BY <2>3, <3>1, <3>2, <3>3 DEF Clocks!Source
  <2> QED
    BY <1>1, <2>1, <2>2, <2>4 DEF Settled, OnItsClock, CallsFirst, DividersCurrent, Succeeded,
       AfterSwitch, KnownPll, Clocks!Conf
<1>9. CASE Clocks!SetBusDividers
  <2>1. /\ clockPc = "dividers" /\ clockPc' = "call" /\ bus' = Clocks!Dividers
        /\ UNCHANGED <<attempt, gates, psc, brr, cfg, osc, sw, sws>>
    BY <1>9 DEF Clocks!SetBusDividers, Clocks!Return, Clocks!derived, Clocks!pll
  <2> QED
    BY <1>1, <2>1 DEF Settled, OnItsClock, CallsFirst, DividersCurrent, Succeeded, AfterSwitch,
       KnownPll, Clocks!Conf, Clocks!Dividers
<1>10. CASE Clocks!EnablePeripherals
  <2>1. clockPc = "call" /\ UNCHANGED <<clockPc, attempt, result, psc, brr, cfg, osc, sw, sws, bus>>
    BY <1>10 DEF Clocks!EnablePeripherals, Clocks!derived, Clocks!tree, Clocks!pll
  <2> QED
    BY <1>1, <2>1 DEF Settled, OnItsClock, CallsFirst, DividersCurrent, Succeeded, AfterSwitch,
       KnownPll, Clocks!Conf, Clocks!Dividers
<1> QED
  BY <1>2, <1>3, <1>4, <1>5, <1>6, <1>7, <1>8, <1>9, <1>10 DEF Clocks!InitRcc

(* Steps that leave the calls and the clock of the system alone.           *)
LEMMA AloneSettled ==
  ASSUME Settled, UNCHANGED <<clockPc, attempt, result, gates, cfg, sw, sws, bus>>,
         osc[sw] = "ready" => osc'[sw] = "ready",
         psc' = psc \/ (Succeeded /\ gates /\ psc' = (Clocks!TimerClock - 1) % 65536),
         brr' = brr \/ (Succeeded /\ gates /\ brr' = Clocks!Brr(Clocks!Apb2))
  PROVE  Settled'
<1>1. /\ Succeeded' = Succeeded /\ Clocks!TimerClock' = Clocks!TimerClock
      /\ Clocks!Brr(Clocks!Apb2)' = Clocks!Brr(Clocks!Apb2)
      /\ Clocks!Dividers' = Clocks!Dividers /\ Clocks!Conf' = Clocks!Conf
  BY DEF Succeeded, Clocks!TimerClock, Clocks!Brr, Clocks!Mantissa, Clocks!Fraction,
     Clocks!Apb1, Clocks!Apb2, Clocks!Sysclk, Clocks!Dividers, Clocks!Conf
<1>2. OnItsClock' /\ CallsFirst' /\ KnownPll'
  BY <1>1 DEF Settled, OnItsClock, CallsFirst, KnownPll
<1>3. DividersCurrent'
  BY <1>1 DEF Settled, DividersCurrent, Succeeded
<1> QED
  BY <1>2, <1>3 DEF Settled

LEMMA DeriveSettled ==
  ASSUME ClockInv, Settled, Clocks!Derive
  PROVE  Settled'
<1>1. /\ UNCHANGED <<clockPc, attempt, result, gates, cfg, sw, sws, bus>>
      /\ Succeeded /\ gates
  BY DEF Clocks!Derive, Clocks!InitTimer, Clocks!SetupUart, Clocks!SwitchOnHse,
     Clocks!InitRtcClock, Clocks!InitSdio, Clocks!SpeedUpCard, Clocks!Clocked, Clocks!driver,
     Clocks!tree, Clocks!pll, Succeeded
<1>2. osc \in [Clocks!Source -> {"off", "starting", "ready"}] /\ sw \in Clocks!Source
  BY DEF ClockInv, Clocks!TypeOK
<1>3. osc[sw] = "ready" => osc'[sw] = "ready"
  BY <1>2 DEF Clocks!Derive, Clocks!InitTimer, Clocks!SetupUart, Clocks!SwitchOnHse,
     Clocks!InitRtcClock, Clocks!InitSdio, Clocks!SpeedUpCard, Clocks!tree, Clocks!Source
<1>4. psc' = psc \/ psc' = (Clocks!TimerClock - 1) % 65536
  BY DEF Clocks!Derive, Clocks!InitTimer, Clocks!SetupUart, Clocks!SwitchOnHse,
     Clocks!InitRtcClock, Clocks!InitSdio, Clocks!SpeedUpCard, Clocks!derived
<1>5. brr' = brr \/ brr' = Clocks!Brr(Clocks!Apb2)
  BY DEF Clocks!Derive, Clocks!InitTimer, Clocks!SetupUart, Clocks!SwitchOnHse,
     Clocks!InitRtcClock, Clocks!InitSdio, Clocks!SpeedUpCard, Clocks!derived
<1> QED
  BY <1>1, <1>3, <1>4, <1>5, AloneSettled

LEMMA HardwareSettled ==
  ASSUME ClockInv, Settled, Clocks!Hardware
  PROVE  Settled'
<1>1. osc \in [Clocks!Source -> {"off", "starting", "ready"}] /\ sw \in Clocks!Source
  BY DEF ClockInv, Clocks!TypeOK
<1>2. ASSUME NEW s \in Clocks!Source, Clocks!Started(s) PROVE Settled'
  <2>1. UNCHANGED <<clockPc, attempt, result, gates, cfg, sw, sws, bus, psc, brr>>
    BY <1>2 DEF Clocks!Started, Clocks!driver, Clocks!derived, Clocks!pll
  <2>2. osc[sw] = "ready" => osc'[sw] = "ready"
    BY <1>1, <1>2 DEF Clocks!Started
  <2> QED
    BY <2>1, <2>2, AloneSettled
<1>3. CASE Clocks!Switched
  <2>1. /\ sws # sw
        /\ UNCHANGED <<clockPc, attempt, result, gates, cfg, sw, osc, bus, psc, brr>>
    BY <1>3 DEF Clocks!Switched, Clocks!driver, Clocks!derived, Clocks!pll
  <2>2. ~Succeeded /\ clockPc \notin AfterSwitch \ {"selected"}
    BY <2>1 DEF Settled, OnItsClock
  <2>3. (psc = 0 /\ brr = 0) \/ clockPc = "nmi"
    BY <2>2 DEF Settled, CallsFirst, DividersCurrent, Succeeded
  <2> QED
    BY <2>1, <2>2, <2>3 DEF Settled, OnItsClock, CallsFirst, KnownPll, DividersCurrent, Succeeded,
       Clocks!Conf
<1>4. CASE Clocks!HseFails
  <2>1. clockPc' = "nmi" /\ UNCHANGED <<result, gates, cfg, psc, brr>>
    BY <1>4 DEF Clocks!HseFails, Clocks!Goto, Clocks!derived, Clocks!pll
  <2> QED
    BY <2>1 DEF Settled, OnItsClock, CallsFirst, KnownPll, DividersCurrent, Succeeded, AfterSwitch
<1> QED
  BY <1>2, <1>3, <1>4 DEF Clocks!Hardware

LEMMA NextSettled ==
  ASSUME Clocks!ConfigsOK, ClockInv, Settled, [Clocks!Next]_(Clocks!vars)
  PROVE  Settled'
<1>1. CASE Clocks!Reset
  BY <1>1 DEF Clocks!Reset, Settled, OnItsClock, CallsFirst, KnownPll, DividersCurrent, Succeeded,
     AfterSwitch
<1>2. CASE UNCHANGED Clocks!vars
  BY <1>2, AloneSettled DEF Clocks!vars, Clocks!driver, Clocks!tree, Clocks!pll, Clocks!derived
<1> QED
  BY <1>1, <1>2, CallSettled, DeriveSettled, HardwareSettled DEF Clocks!Next

LEMMA ClocksInvariance == Spec => [](ClockInv /\ Settled)
<1>1. Init => ClockInv /\ Settled
  BY InitClock, InitSettled, BootAssumption DEF Init
<1>2. ClockInv /\ Settled /\ [Next]_vars => (ClockInv /\ Settled)'
  BY NextClocks, NextClock, NextSettled, BootAssumption
<1> QED
  BY <1>1, <1>2, PTL DEF Spec

(* The types of the clock tree, under any program of this kind.            *)
THEOREM ClockTypes == Spec => []Clocks!TypeOK
<1>1. ClockInv => Clocks!TypeOK
  BY DEF ClockInv
<1> QED
  BY ClocksInvariance, <1>1, PTL

(* Whatever configurations are tried, however they end, whatever the       *)
(* oscillators do, and in every start after every reset, the processor     *)
(* never runs faster than the wait states of the flash allow (rcc.c:252    *)
(* and 283).                                                               *)
THEOREM NeverTooFast == Spec => []LatencySuffices
<1>1. ClockInv => LatencySuffices
  <2> SUFFICES ASSUME ClockInv PROVE Clocks!LatencySuffices
    BY DEF LatencySuffices
  <2>1. CASE sws # "pll"
    BY <2>1, SlowWithoutPll DEF ClockInv, Clocks!TypeOK, Clocks!LatencySuffices
  <2>2. CASE sws = "pll"
    <3>1. Clocks!Sysclk = Clocks!PllFreq(cfg)
      BY <2>2 DEF Clocks!Sysclk, Clocks!Freq
    <3> QED
      BY <2>2, <3>1 DEF ClockInv, OnPllWhere, Covers, Clocks!LatencySuffices
  <2> QED
    BY <2>1, <2>2
<1> QED
  BY ClocksInvariance, <1>1, PTL

-----------------------------------------------------------------------------
(* The frequencies that a success of init_rcc leads to.                    *)
InUartRange(f) ==
  /\ f = 16000 \/ (f >= 24000 /\ f <= 84000)
  /\ Clocks!Fraction(f) < 16

LEMMA ConfigInRange ==
  ASSUME NEW k \in 1..Len(Configs)
  PROVE  LET c == Configs[k]
             f == Clocks!Freq(c.source, c.pll)
         IN /\ f \div c.apb1 <= 42000
            /\ InUartRange(f \div c.apb2)
            /\ Clocks!VcoFreq(c.pll) \div c.pll.q = 48000
BY BootAssumption DEF Clocks!ConfigsInRange, InUartRange

LEMMA ClockOfConfig ==
  ASSUME ClockInv, Settled, Succeeded
  PROVE  /\ Clocks!Apb1 <= 42000
         /\ Clocks!Apb2 \in Nat /\ InUartRange(Clocks!Apb2)
         /\ sw = "hsi" =>
              Clocks!TimerClock \in Nat /\ Clocks!TimerClock > 0 /\ Clocks!TimerClock <= 16000
<1>1. attempt \in 1..Len(Configs) /\ Configs[attempt] \in Clocks!Config
  BY BootAssumption DEF ClockInv, Clocks!TypeOK, Settled, OnItsClock, Clocks!ConfigsOK
<1> DEFINE c == Configs[attempt]
           f == Clocks!Freq(c.source, c.pll)
<1>2. /\ sw = c.source /\ sws = c.source /\ bus = [apb1 |-> c.apb1, apb2 |-> c.apb2]
      /\ c.source = "pll" => cfg = c.pll
  BY DEF Settled, OnItsClock, Clocks!Conf, Clocks!Dividers
<1>3. c.source \in {"hsi", "hse", "pll"} /\ c.apb1 \in {1, 2, 4, 8, 16}
  BY <1>1 DEF Clocks!Config, Clocks!Source, Clocks!Divider
<1>4. Clocks!Sysclk = f
  BY <1>2, <1>3 DEF Clocks!Sysclk, Clocks!Freq
<1>5. f \div c.apb1 <= 42000 /\ InUartRange(f \div c.apb2)
  BY <1>1, ConfigInRange
<1>6. Clocks!Apb1 = f \div c.apb1 /\ Clocks!Apb2 = f \div c.apb2 /\ Clocks!Apb2 \in Nat
  <2>1. bus.apb2 \in Nat \ {0}
    BY DEF ClockInv, Clocks!TypeOK, Clocks!Divider
  <2> QED
    BY <1>2, <1>4, <2>1, SysclkBound, Quotient DEF Clocks!Apb1, Clocks!Apb2
<1>7. ASSUME sw = "hsi"
      PROVE  Clocks!TimerClock \in Nat /\ Clocks!TimerClock > 0 /\ Clocks!TimerClock <= 16000
  <2>1. f = 16000
    BY <1>2, <1>7 DEF Clocks!Freq
  <2>2. Clocks!TimerClock = IF c.apb1 > 1 THEN 2 * (16000 \div c.apb1) ELSE 16000 \div c.apb1
    BY <1>2, <1>6, <2>1 DEF Clocks!TimerClock
  <2>3. ASSUME NEW d \in {1, 2, 4, 8, 16}
        PROVE  LET t == IF d > 1 THEN 2 * (16000 \div d) ELSE 16000 \div d
               IN t \in Nat /\ t > 0 /\ t <= 16000
    <3>1. /\ 16000 \div 1 = 16000 /\ 16000 \div 2 = 8000 /\ 16000 \div 4 = 4000
          /\ 16000 \div 8 = 2000 /\ 16000 \div 16 = 1000
      OBVIOUS
    <3> QED
      BY <3>1
  <2> HIDE DEF c
  <2> QED
    BY <1>3, <2>2, <2>3
<1> HIDE DEF f
<1> QED
  BY <1>5, <1>6, <1>7

(* When init_rcc has answered 0 the system runs, to the end, on the clock  *)
(* of the configuration that succeeded, the buses are within their limits  *)
(* and, on HSI, TIM2 counts milliseconds (main.c:83-110).                  *)
THEOREM RunsAsConfigured == Spec => []OkMeansClocked
<1>1. ClockInv /\ Settled => OkMeansClocked
  <2> SUFFICES ASSUME ClockInv, Settled, gates, result = "ok", clockPc # "nmi"
               PROVE  /\ sw = Clocks!Conf.source /\ sws = sw /\ osc[sws] = "ready"
                      /\ sw = "pll" => cfg = Clocks!Conf.pll
                      /\ Clocks!Apb1 <= 42000 /\ Clocks!Apb2 <= 84000
                      /\ sw = "hsi" /\ psc # 0 => psc + 1 = Clocks!TimerClock
    BY DEF OkMeansClocked, Clocks!OkMeansClocked
  <2>1. Succeeded
    BY DEF Settled, CallsFirst, Succeeded
  <2>2. /\ sw = Clocks!Conf.source /\ sws = sw /\ osc[sws] = "ready"
        /\ sw = "pll" => cfg = Clocks!Conf.pll
    BY <2>1 DEF Settled, OnItsClock
  <2>3. Clocks!Apb1 <= 42000 /\ Clocks!Apb2 <= 84000
    <3>1. Clocks!Apb1 <= 42000 /\ Clocks!Apb2 \in Nat /\ InUartRange(Clocks!Apb2)
      BY <2>1, ClockOfConfig
    <3> QED
      BY <3>1 DEF InUartRange
  <2>4. ASSUME sw = "hsi", psc # 0 PROVE psc + 1 = Clocks!TimerClock
    <3>1. Clocks!TimerClock \in Nat /\ Clocks!TimerClock > 0 /\ Clocks!TimerClock <= 16000
      BY <2>1, <2>4, ClockOfConfig
    <3>2. psc = (Clocks!TimerClock - 1) % 65536
      BY <2>4 DEF Settled, DividersCurrent
    <3> QED
      BY <3>1, <3>2
  <2> QED
    BY <2>2, <2>3, <2>4
<1> QED
  BY ClocksInvariance, <1>1, PTL

-----------------------------------------------------------------------------
(* The arithmetic of the drivers.                                          *)
LEMMA BitsInTime ==
  ASSUME NEW f \in Nat, InUartRange(f)
  PROVE  (f * 1000 - Clocks!Brr(f) * Clocks!BaudRate) \in -((5 * f) \div 2)..((5 * f) \div 2)
<1> DEFINE b == Clocks!Brr(f)
<1>0. f = 16000 \/ f >= 24000
  BY DEF InUartRange
<1>1. PICK q \in Nat : q = (2 * f * 1000) \div 115200
  BY Quotient
<1>2. 115200 * q <= 2000 * f /\ 2000 * f < 115200 * (q + 1)
  BY <1>1
<1>3. b = (q + 1) \div 2
  <2>1. PICK m \in Nat : m = (f * 1000) \div 1843200
    BY Quotient
  <2>2. 1843200 * m <= f * 1000
    BY <2>1
  <2>3. PICK r \in Nat : r = (q + 1) \div 2
    BY Quotient
  <2>4. Clocks!Fraction(f) = r - 16 * m /\ r - 16 * m < 16
    BY <1>1, <2>1, <2>3 DEF InUartRange, Clocks!Fraction, Clocks!Mantissa, Clocks!BaudRate
  <2>5. 16 * m <= r
    BY <1>2, <2>2, <2>3
  <2>6. (r - 16 * m) % 16 = r - 16 * m
    BY <2>4, <2>5
  <2> QED
    BY <2>1, <2>3, <2>4, <2>6 DEF Clocks!Brr, Clocks!Mantissa, Clocks!BaudRate
<1> HIDE DEF b
<1>4. b \in Nat /\ 2 * b <= q + 1 /\ q <= 2 * b
  BY <1>3
<1>5. PICK h \in Int : h = (5 * f) \div 2 /\ 5 * f < 2 * h + 2
  BY <1>0
<1>6. -h <= f * 1000 - b * 115200 /\ f * 1000 - b * 115200 <= h
  <2>1. CASE f = 16000
    <3>1. q = 277 /\ h = 40000
      BY <1>1, <1>5, <2>1
    <3>2. b = 139
      BY <1>3, <3>1
    <3> QED
      BY <2>1, <3>1, <3>2
  <2>2. CASE f >= 24000
    <3>1. h >= 60000
      BY <1>5, <2>2
    <3>2. 2 * (f * 1000 - b * 115200) >= -115200 /\ 2 * (f * 1000 - b * 115200) <= 115200
      BY <1>2, <1>4
    <3> QED
      BY <1>4, <3>1, <3>2
  <2> QED
    BY <1>0, <2>1, <2>2
<1>7. f * 1000 - b * 115200 \in Int
  BY <1>4
<1> QED
  BY <1>5, <1>6, <1>7 DEF b, Clocks!BaudRate

LEMMA CardPll ==
  ASSUME Settled
  PROVE  Clocks!Pll48 = 48000
<1>1. CASE cfg = Clocks!PllReset
  BY <1>1 DEF Clocks!Pll48, Clocks!VcoFreq, Clocks!PllReset
<1>2. CASE \E k \in 1..Len(Configs) : cfg = Configs[k].pll
  BY <1>2, ConfigInRange DEF Clocks!Pll48
<1> QED
  BY <1>1, <1>2 DEF Settled, KnownPll

(* calculate_prescalers_rtc: 31 * 32258 is 2 short of a million.           *)
Second == [a |-> 30, s |-> 32257]

LEMMA SecondPrescalers == Clocks!Prescalers(Clocks!RtcClock) = Second
<1> DEFINE fits(a) == Clocks!Synchronous(Clocks!RtcClock, a) <= 32767
           least(a) == fits(a) /\ \A b \in 0..(a - 1) : ~fits(b)
           first == CHOOSE a \in 0..127 : least(a)
<1>1. Clocks!Synchronous(Clocks!RtcClock, 30) = 32257
  BY SMT DEF Clocks!Synchronous, Clocks!RtcClock
<1>2. ASSUME NEW b \in 0..29 PROVE ~fits(b)
  <2>1. b + 1 \in Nat \ {0} /\ b + 1 <= 30
    OBVIOUS
  <2>2. PICK q \in Nat : q = 1000000 \div (b + 1)
    BY <2>1, Quotient
  <2>3. 1000000 < (b + 1) * (q + 1)
    BY <2>1, <2>2, SMT
  <2>4. (b + 1) * (q + 1) <= 30 * (q + 1)
    BY <2>1, SMT
  <2> QED
    BY <2>2, <2>3, <2>4, SMT DEF Clocks!Synchronous, Clocks!RtcClock
<1>3. fits(30) /\ least(30)
  BY <1>1, <1>2
<1>4. first = 30
  <2>1. ASSUME NEW a \in 0..127, least(a) PROVE a = 30
    <3> HIDE DEF fits
    <3>1. fits(a) /\ \A b \in 0..(a - 1) : ~fits(b)
      BY <2>1
    <3>2. ~(a < 30)
      BY <1>2, <3>1
    <3>3. ~(a > 30)
      BY <1>3, <3>1
    <3> QED
      BY <3>2, <3>3
  <2> HIDE DEF least, fits
  <2> QED
    BY <1>3, <2>1
<1>5. \E a \in 0..127 : fits(a)
  BY <1>3
<1>6. Clocks!Prescalers(Clocks!RtcClock)
        = [a |-> first, s |-> Clocks!Synchronous(Clocks!RtcClock, first)]
  BY <1>5 DEF Clocks!Prescalers
<1> HIDE DEF first
<1> QED
  BY <1>1, <1>4, <1>6 DEF Second

-----------------------------------------------------------------------------
(* 3. The devices.  The card has the PLL when it is initialized, and nobody   *)
(* stops it after; what its divider is follows from the step.              *)
Devices ==
  /\ pc \notin {"board", "error"} => gates /\ result = "ok"
  /\ pc \in OnCard /\ ~Stopped => osc.pll = "ready"
  /\ pc = "sdcard" => clkdiv = 118
  /\ pc \in OnCard \ {"sdcard"} => clkdiv = 2
  /\ datetime => prer = Second

LEMMA BoardDevices ==
  ASSUME Devices, InitRcc \/ InitBoard \/ InitUart \/ InitRtc \/ InitRtcLate
  PROVE  Devices'
<1>1. pc' \notin OnCard
  BY DEF InitRcc, InitBoard, InitUart, InitRtc, InitRtcLate, Fail, OnCard
<1>2. pc' \notin {"board", "error"} => gates' /\ result' = "ok"
  BY DEF Devices, InitRcc, InitBoard, InitUart, InitRtc, InitRtcLate, Fail, clocks,
     Clocks!InitTimer, Clocks!SetupUart, Clocks!InitRtcClock, Clocks!SwitchOnHse, Clocks!Clocked,
     Clocks!driver
<1>3. datetime' => prer' = Second
  <2>1. CASE InitRcc
    <3>1. UNCHANGED <<datetime, prer>>
      BY <2>1 DEF InitRcc, Clocks!InitRcc, Clocks!Setup, Clocks!SwitchOn,
         Clocks!WaitForOscillator, Clocks!ReadFrequencies, Clocks!ClearLatency,
         Clocks!SetLatency, Clocks!StopPll, Clocks!StartPll, Clocks!WaitForPll,
         Clocks!SelectSysClock, Clocks!WaitForSwitch, Clocks!LeaveOldClock,
         Clocks!SetBusDividers, Clocks!EnablePeripherals, Clocks!Goto, Clocks!GivesUp,
         Clocks!Return, Clocks!derived
    <3> QED
      BY <3>1 DEF Devices
  <2>2. CASE InitBoard \/ InitUart
    <3>1. UNCHANGED <<datetime, prer>>
      BY <2>2 DEF InitBoard, InitUart, Clocks!InitTimer, Clocks!SetupUart, clocks
    <3> QED
      BY <3>1 DEF Devices
  <2>3. CASE InitRtc \/ InitRtcLate
    <3>1. prer' = Clocks!Prescalers(Clocks!RtcClock) \/ UNCHANGED <<datetime, prer>>
      BY <2>3 DEF InitRtc, InitRtcLate, Clocks!InitRtcClock, Clocks!SwitchOnHse, Clocks!derived,
         clocks
    <3> QED
      BY <3>1, SecondPrescalers DEF Devices
  <2> QED
    BY <2>1, <2>2, <2>3
<1> QED
  BY <1>1, <1>2, <1>3 DEF Devices, OnCard

LEMMA CardDevices ==
  ASSUME Settled, Devices, InitSd \/ InitSdCard
  PROVE  Devices'
<1>1. CASE InitSd
  <2>1. /\ UNCHANGED <<datetime, prer, gates, result, osc>> /\ pc = "sd"
        /\ (pc' = "sdcard" /\ osc.pll = "ready") \/ pc' = "error"
    BY <1>1 DEF InitSd, CardInitialized, Fail, Clocks!InitSdio, Clocks!Clocked, Clocks!driver,
       Clocks!tree
  <2>2. clkdiv' = 118
    <3>1. Clocks!DividerFor(400) = 118
      BY CardPll DEF Clocks!DividerFor
    <3> QED
      BY <1>1, <3>1 DEF InitSd, Clocks!InitSdio
  <2> QED
    BY <2>1, <2>2 DEF Devices, OnCard
<1>2. CASE InitSdCard
  <2>1. /\ UNCHANGED <<datetime, prer, gates, result, osc, clockPc>> /\ pc = "sdcard"
        /\ (pc' = "mount" /\ clkdiv' = 2) \/ pc' = "error"
    BY <1>2 DEF InitSdCard, Fail, Clocks!SpeedUpCard, Clocks!Clocked, Clocks!driver, Clocks!tree,
       clocks
  <2> QED
    BY <2>1 DEF Devices, OnCard, Stopped
<1> QED
  BY <1>1, <1>2

LEMMA FileSystemDevices ==
  ASSUME Devices,
         Mount \/ BeginFormat \/ EndFormat \/ Remount \/ Tests \/ Blink \/ PullOut \/ PutBack
  PROVE  Devices'
<1>1. UNCHANGED <<datetime, clockPc, prer, gates, result, osc, clkdiv>>
  BY DEF Mount, BeginFormat, EndFormat, Remount, Tests, Blink, PullOut, PutBack, clocks
<1>2. \/ pc' = pc \/ pc' = "error"
      \/ pc \in OnCard \ {"sdcard"} /\ pc' \in OnCard \ {"sdcard"}
  BY DEF Mount, NeedsFormat, BeginFormat, EndFormat, Remount, AfterRemount, Tests, Blink,
     PullOut, PutBack, Fail, OnCard
<1> QED
  BY <1>1, <1>2 DEF Devices, OnCard, Stopped

LEMMA HardwareDevices ==
  ASSUME ClockInv, Devices, Hardware
  PROVE  Devices'
<1>1. UNCHANGED <<pc, datetime, prer, gates, result, clkdiv>>
  BY DEF Hardware, Clocks!Hardware, Clocks!Started, Clocks!Switched, Clocks!HseFails, Clocks!Goto,
     Clocks!driver, Clocks!derived
<1>2. clockPc' = "nmi" \/ (clockPc' = clockPc /\ (osc.pll = "ready" => osc'.pll = "ready"))
  BY DEF Hardware, Clocks!Hardware, Clocks!Started, Clocks!Switched, Clocks!HseFails, Clocks!Goto,
     Clocks!driver, Clocks!Source, ClockInv, Clocks!TypeOK
<1> QED
  BY <1>1, <1>2 DEF Devices, Stopped

LEMMA NextDevices ==
  ASSUME ClockInv, Settled, Devices, [Next]_vars
  PROVE  Devices'
<1>1. CASE Reset
  BY <1>1 DEF Reset, Devices, OnCard
<1>2. CASE UNCHANGED vars
  BY <1>2 DEF vars, clocks, Devices, Stopped
<1> QED
  BY <1>1, <1>2, BoardDevices, CardDevices, FileSystemDevices, HardwareDevices DEF Next, Program

(* The card is identified at 400 kHz at the most and used at 25 MHz at the *)
(* most, out of a PLL that runs, the bits of the log are in time and the   *)
(* second of the RTC is right, whichever configuration has succeeded, in   *)
(* every start after every reset (sdio.c:117, SD.c:759).                   *)
THEOREM DevicesInRange == Spec => []DerivedClocksInRange
<1>1. Init => Devices
  BY DEF Init, Devices, OnCard
<1>2. ClockInv /\ Settled /\ Devices /\ [Next]_vars => Devices'
  BY NextDevices
<1>3. ClockInv /\ Settled /\ Devices => DerivedClocksInRange
  <2> SUFFICES ASSUME ClockInv, Settled, Devices PROVE DerivedClocksInRange
    OBVIOUS
  <2>1. Clocks!BitsInTime
    <3> SUFFICES ASSUME brr # 0, clockPc # "nmi" PROVE Clocks!BitsInTime
      BY DEF Clocks!BitsInTime
    <3>1. Succeeded /\ brr = Clocks!Brr(Clocks!Apb2)
      BY DEF Settled, CallsFirst, DividersCurrent, Succeeded
    <3>2. Clocks!Apb2 \in Nat /\ InUartRange(Clocks!Apb2)
      BY <3>1, ClockOfConfig
    <3>3. (Clocks!Apb2 * 1000 - Clocks!Brr(Clocks!Apb2) * Clocks!BaudRate)
            \in -((5 * Clocks!Apb2) \div 2)..((5 * Clocks!Apb2) \div 2)
      BY <3>2, BitsInTime
    <3> QED
      BY <3>1, <3>3 DEF Clocks!BitsInTime
  <2>2. pc \in OnCard /\ ~Stopped => osc.pll = "ready"
    BY DEF Devices
  <2>3. pc = "sdcard" => Clocks!CardClock <= 400
    BY CardPll DEF Devices, Clocks!CardClock
  <2>4. pc \in OnCard \ {"sdcard"} => Clocks!CardClock <= 25000
    BY CardPll DEF Devices, Clocks!CardClock
  <2>5. datetime => Clocks!RtcSecond - Clocks!RtcClock \in -100..100
    BY DEF Devices, Second, Clocks!RtcSecond, Clocks!RtcClock
  <2> QED
    BY <2>1, <2>2, <2>3, <2>4, <2>5 DEF DerivedClocksInRange
<1> QED
  BY ClocksInvariance, <1>1, <1>2, <1>3, PTL DEF Spec
=============================================================================
