----------------------------- MODULE ClockTree -----------------------------
(***************************************************************************)
(* The clocks of the board: setup_system_config_rcc and what it calls      *)
(* (rcc.c), init_rcc, which tries one configuration after another          *)
(* (main.c), and the drivers that derive theirs from what came of it: the  *)
(* millisecond (timer.c), the bit of the UART (usart.c), the second        *)
(* (RTC.c) and the clock of the card (sdio.c, SD.c).  Boot composes it     *)
(* with the program.                                                       *)
(*                                                                         *)
(* The oscillators and the PLL start in their own time or never, and the   *)
(* crystal (HSE) may stop at any time.  The processor runs all the while,  *)
(* on the clock that is selected, out of a flash that needs wait states.   *)
(* Frequencies are in kHz.                                                 *)
(***************************************************************************)
EXTENDS Integers, Sequences

CONSTANTS
  Configs  \* the configurations of init_rcc, in the order in which it tries them

Source == {"hsi", "hse", "pll"}

Pll == [src : {"hsi", "hse"}, m : Nat \ {0}, n : Nat, p : Nat \ {0}, q : Nat \ {0}]

(* RCC_SystemConfig: source, PLL and dividers of the two peripheral buses. *)
Divider == {1, 2, 4, 8, 16}
Config == [source : Source, pll : Pll, apb1 : Divider, apb2 : Divider]

VARIABLES
  pc,       \* the step of setup_system_config_rcc, or "call" between two calls
  attempt,  \* the call: the number of the configuration
  before,   \* current_freq.SYSCLK_Freq in switch_to_pll_rcc
  result,   \* of the last call
  osc,      \* the oscillators: off, starting or ready
  cfg,      \* PLLCFGR
  sw,       \* the clock selected for the system
  sws,      \* the clock that drives it
  latency,  \* wait states of the flash
  bus,      \* dividers of APB1 and APB2
  gates,    \* peripherals have clocks
  psc,      \* prescaler of TIM2, 0 before init_timer
  brr,      \* divider of USART1, 0 before setup_uart
  prer,     \* prescalers of the RTC, asynchronous and synchronous
  clkdiv    \* divider of the card's clock

driver == <<pc, attempt, before, result, gates>>
pll == <<cfg, latency>>
tree == <<osc, pll, sw, sws, bus>>
derived == <<psc, brr, prer, clkdiv>>
vars == <<driver, tree, derived>>

-----------------------------------------------------------------------------
VcoFreq(c) == ((IF c.src = "hse" THEN 25000 ELSE 16000) \div c.m) * c.n
PllFreq(c) == VcoFreq(c) \div c.p

Freq(s, c) == CASE s = "hsi" -> 16000 [] s = "hse" -> 25000 [] s = "pll" -> PllFreq(c)

(* get_clock_frequencies: SYSCLK, and the frequency of APB1.               *)
Sysclk == Freq(sws, cfg)
Apb1 == Sysclk \div bus.apb1
Apb2 == Sysclk \div bus.apb2

(* set_flash_latency: one wait state for every 30 MHz begun.               *)
LatencyForFasterFlash(f) == (f - 1) \div 20000
LatencyFor(f) == (f - 1) \div 30000

(* The configurations keep within the 168 MHz of the processor.            *)
ConfigsOK ==
  /\ Configs \in Seq(Config) /\ Configs # <<>>
  /\ \A k \in 1..Len(Configs) : LET f == PllFreq(Configs[k].pll) IN 0 < f /\ f <= 168000

(* calculate_USART_BRR: the cycles of f in a bit, as a number of sixteens  *)
(* and a rest, which is rounded.                                           *)
BaudRate == 115200
Mantissa(f) == (f * 1000) \div (16 * BaudRate)
Fraction(f) == ((2 * f * 1000) \div BaudRate + 1) \div 2 - 16 * Mantissa(f)

(* They were chosen for the devices: APB1 and APB2 have no more than their *)
(* 42 and 84 MHz, APB2 the 16 MHz of HSI or enough for a divider of a few  *)
(* hundred in the UART, whose fraction is below 16, and the third output   *)
(* of the PLL the card's 48 MHz.                                           *)
ConfigsInRange ==
  \A k \in 1..Len(Configs) :
    LET c == Configs[k]
        f == Freq(c.source, c.pll)
    IN /\ f \div c.apb1 <= 42000
       /\ f \div c.apb2 = 16000 \/ (f \div c.apb2 >= 24000 /\ f \div c.apb2 <= 84000)
       /\ Fraction(f \div c.apb2) < 16
       /\ VcoFreq(c.pll) \div c.pll.q = 48000

(* After reset HSI runs and PLLCFGR has its reset value.                   *)
PllReset == [src |-> "hsi", m |-> 16, n |-> 192, p |-> 2, q |-> 4]
PrerReset == [a |-> 127, s |-> 255]
Init ==
  /\ pc = "call" /\ attempt = 0 /\ before = 0 /\ result = "none"
  /\ osc = [s \in Source |-> IF s = "hsi" THEN "ready" ELSE "off"]
  /\ cfg = PllReset
  /\ sw = "hsi" /\ sws = "hsi"
  /\ latency = 0
  /\ bus = [apb1 |-> 1, apb2 |-> 1]
  /\ gates = FALSE
  /\ psc = 0 /\ brr = 0 /\ clkdiv = 0
  /\ prer = PrerReset

Conf == Configs[attempt]

Goto(label) ==
  pc' = label /\ UNCHANGED <<attempt, before, result, gates, derived>>

Return(r) ==
  /\ pc' = "call" /\ result' = r
  /\ UNCHANGED <<attempt, before, gates, derived>>

GivesUpNever == UNCHANGED <<driver, derived>>
GivesUp == Return("err")

(* init_rcc goes on to its next configuration when one fails.              *)
NextConfig == result # "ok" /\ attempt < Len(Configs)

Setup ==
  /\ pc = "call" /\ ~gates
  /\ NextConfig
  /\ attempt' = attempt + 1
  /\ pc' = "on"
  /\ result' = "none"
  /\ UNCHANGED <<before, gates, derived, tree>>

(* The oscillator of the configuration is switched on and awaited, unless  *)
(* it is on.                                                               *)
Oscillator == IF Conf.source = "pll" THEN Conf.pll.src ELSE Conf.source

AfterOscillator == IF Conf.source = "pll" THEN "latency" ELSE "select"

SwitchOn ==
  /\ pc = "on"
  /\ IF osc[Oscillator] = "off"
       THEN osc' = [osc EXCEPT ![Oscillator] = "starting"] /\ Goto("wait")
       ELSE Goto(AfterOscillator) /\ UNCHANGED osc
  /\ UNCHANGED <<pll, sw, sws, bus>>

WaitForOscillator ==
  /\ pc = "wait"
  /\ IF osc[Oscillator] = "ready" THEN Goto(AfterOscillator) ELSE GivesUp
  /\ UNCHANGED <<osc, pll, sw, sws, bus>>

-----------------------------------------------------------------------------
(* switch_to_pll_rcc.  set_flash_latency clears the field before it sets   *)
(* it.                                                                     *)
ReadFrequencies ==
  /\ pc = "latency"
  /\ before' = Sysclk
  /\ pc' = IF PllFreq(Conf.pll) > Sysclk THEN "clear" ELSE "pllOff"
  /\ UNCHANGED <<attempt, result, gates, derived, tree>>

ClearLatency ==
  /\ pc \in {"clear", "clearDown"}
  /\ latency' = 0
  /\ Goto(IF pc = "clear" THEN "raise" ELSE "lower")
  /\ UNCHANGED <<osc, cfg, sw, sws, bus>>

RaisedNever == latency
Raised == LatencyFor(PllFreq(Conf.pll))

SetLatency ==
  /\ pc \in {"raise", "lower"}
  /\ latency' = Raised
  /\ Goto(IF pc = "raise" THEN "pllOff" ELSE "dividers")
  /\ UNCHANGED <<osc, cfg, sw, sws, bus>>

(* The PLL is not stopped while the system runs on it.                     *)
Stopped(o) == IF sws = "pll" \/ sw = "pll" THEN o ELSE [o EXCEPT !.pll = "off"]

StopPll ==
  /\ pc = "pllOff"
  /\ osc' = Stopped(osc)
  /\ IF osc'.pll = "off" THEN Goto("pllOn") ELSE GivesUp
  /\ UNCHANGED <<pll, sw, sws, bus>>

StartPll ==
  /\ pc = "pllOn"
  /\ cfg' = Conf.pll
  /\ osc' = [osc EXCEPT !.pll = "starting"]
  /\ Goto("pllWait")
  /\ UNCHANGED <<latency, sw, sws, bus>>

WaitForPll ==
  /\ pc = "pllWait"
  /\ IF osc.pll = "ready" THEN Goto("select") ELSE GivesUp
  /\ UNCHANGED <<osc, pll, sw, sws, bus>>

(* select_sys_clock.  A clock that runs is switched to long before the     *)
(* loop has counted to its end.                                            *)
SelectSysClock ==
  /\ pc = "select"
  /\ IF osc[Conf.source] = "ready"
       THEN sw' = Conf.source /\ Goto("selected")
       ELSE GivesUp /\ UNCHANGED sw
  /\ UNCHANGED <<osc, pll, sws, bus>>

WaitForSwitch ==
  /\ pc = "selected"
  /\ IF sws = Conf.source THEN Goto("leave") ELSE osc[sw] # "ready" /\ GivesUp
  /\ UNCHANGED <<osc, pll, sw, sws, bus>>

(* The oscillators that the configuration does not use.                    *)
SwitchedOff ==
  CASE Conf.source = "pll" -> osc
    [] Conf.source = "hsi" -> Stopped([osc EXCEPT !.hse = "off"])
    [] Conf.source = "hse" -> Stopped([osc EXCEPT !.hsi = "off"])

LeaveOldClock ==
  /\ pc = "leave"
  /\ osc' = SwitchedOff
  /\ Goto(IF Conf.source = "pll" /\ PllFreq(Conf.pll) < before
             THEN "clearDown" ELSE "dividers")
  /\ UNCHANGED <<pll, sw, sws, bus>>

DividersSwapped == [apb1 |-> Conf.apb2, apb2 |-> Conf.apb1]
Dividers == [apb1 |-> Conf.apb1, apb2 |-> Conf.apb2]

SetBusDividers ==
  /\ pc = "dividers"
  /\ bus' = Dividers
  /\ Return("ok")
  /\ UNCHANGED <<osc, pll, sw, sws>>

-----------------------------------------------------------------------------
(* The end of init_rcc.                                                    *)
EnablePeripherals ==
  /\ pc = "call" /\ ~gates
  /\ result = "ok" \/ attempt = Len(Configs)
  /\ gates' = TRUE
  /\ UNCHANGED <<pc, attempt, before, result, derived, tree>>

-----------------------------------------------------------------------------
(* The drivers, once init_rcc has answered 0, write their dividers.        *)
Clocked ==
  /\ pc = "call" /\ gates /\ result = "ok"
  /\ UNCHANGED driver

(* The timers of APB1 run at twice its frequency when that is divided; PSC *)
(* has 16 bits.                                                            *)
TimerClock == IF bus.apb1 > 1 THEN 2 * Apb1 ELSE Apb1

InitTimer ==
  /\ Clocked
  /\ psc' = (TimerClock - 1) % 65536
  /\ UNCHANGED <<tree, brr, prer, clkdiv>>

(* USART_BRR keeps four bits of the fraction: one that was rounded up to a *)
(* whole sixteen is dropped.                                               *)
Brr(f) == 16 * Mantissa(f) + (Fraction(f) % 16)

SetupUart ==
  /\ Clocked
  /\ brr' = Brr(Apb2)
  /\ UNCHANGED <<tree, psc, prer, clkdiv>>

(* configure_rtc_clock_rcc switches HSE on, whatever drives the system.    *)
SwitchOnHse ==
  /\ Clocked
  /\ osc' = [osc EXCEPT !.hse = IF @ = "off" THEN "starting" ELSE @]
  /\ UNCHANGED <<pll, sw, sws, bus, derived>>

(* calculate_prescalers_rtc: the smallest asynchronous prescaler for which *)
(* the synchronous one has 15 bits.                                        *)
RtcClock == 1000000

Synchronous(f, a) == f \div (a + 1) - 1

Prescalers(f) ==
  LET fits(a) == Synchronous(f, a) <= 32767
  IN IF \E a \in 0..127 : fits(a)
       THEN LET a == CHOOSE a \in 0..127 : fits(a) /\ \A b \in 0..(a - 1) : ~fits(b)
            IN [a |-> a, s |-> Synchronous(f, a)]
       ELSE [a |-> 127, s |-> 32767]

InitRtcClock ==
  /\ Clocked
  /\ osc.hse = "ready"
  /\ prer' = Prescalers(RtcClock)
  /\ UNCHANGED <<tree, psc, brr, clkdiv>>

(* init_sdio derives the clock of the card from the third output of the    *)
(* PLL, whether or not the PLL runs; init_sd_card then sets a fixed        *)
(* divider.                                                                *)
Pll48 == VcoFreq(cfg) \div cfg.q

DividerForTwo(target) == Pll48 \div target - 3
DividerFor(target) == Pll48 \div target - 2

InitSdio ==
  /\ Clocked
  /\ clkdiv' = IF DividerFor(400) < 0 THEN 0
                ELSE IF DividerFor(400) > 255 THEN 255 ELSE DividerFor(400)
  /\ UNCHANGED <<tree, psc, brr, prer>>

SpeedUpCard ==
  /\ Clocked
  /\ clkdiv' = 2
  /\ UNCHANGED <<tree, psc, brr, prer>>

-----------------------------------------------------------------------------
(* The hardware.                                                           *)
Started(s) ==
  /\ osc[s] = "starting"
  /\ s = "pll" => osc[cfg.src] = "ready"
  /\ osc' = [osc EXCEPT ![s] = "ready"]
  /\ UNCHANGED <<driver, derived, pll, sw, sws, bus>>

Switched ==
  /\ sws # sw /\ osc[sw] = "ready"
  /\ sws' = sw
  /\ UNCHANGED <<driver, derived, osc, pll, sw, bus>>

(* HSE stops: if the system runs on it, HSI takes over.  The clock         *)
(* security system, on since the first call, interrupts the processor,     *)
(* and NMI_Handler is a loop.                                              *)
HseFails ==
  /\ osc.hse = "ready"
  /\ LET used == "hse" \in {sws, sw} \/ ("pll" \in {sws, sw} /\ cfg.src = "hse")
     IN IF used
          THEN /\ osc' = [s \in Source |-> IF s = "hsi" THEN "ready" ELSE "off"]
               /\ sw' = "hsi" /\ sws' = "hsi"
          ELSE /\ osc' = [osc EXCEPT !.hse = "off",
                                     !.pll = IF cfg.src = "hse" THEN "off" ELSE @]
               /\ UNCHANGED <<sw, sws>>
  /\ Goto("nmi")
  /\ UNCHANGED <<pll, bus>>

(* A reset of the processor.  The RTC is in the backup domain.             *)
Reset ==
  /\ pc' = "call" /\ attempt' = 0 /\ before' = 0 /\ result' = "none"
  /\ osc' = [s \in Source |-> IF s = "hsi" THEN "ready" ELSE "off"]
  /\ cfg' = PllReset
  /\ sw' = "hsi" /\ sws' = "hsi"
  /\ latency' = 0
  /\ bus' = [apb1 |-> 1, apb2 |-> 1]
  /\ gates' = FALSE
  /\ psc' = 0 /\ brr' = 0 /\ clkdiv' = 0
  /\ UNCHANGED prer

InitRcc ==
  \/ Setup \/ SwitchOn \/ WaitForOscillator
  \/ ReadFrequencies \/ ClearLatency \/ SetLatency \/ StopPll \/ StartPll \/ WaitForPll
  \/ SelectSysClock \/ WaitForSwitch \/ LeaveOldClock \/ SetBusDividers
  \/ EnablePeripherals

Derive == InitTimer \/ SetupUart \/ SwitchOnHse \/ InitRtcClock \/ InitSdio \/ SpeedUpCard

Hardware == (\E s \in Source : Started(s)) \/ Switched \/ HseFails

Next == InitRcc \/ Derive \/ Hardware \/ Reset

Spec == Init /\ [][Next]_vars

-----------------------------------------------------------------------------
Steps == {"call", "on", "wait", "latency", "clear", "raise", "clearDown", "lower",
          "pllOff", "pllOn", "pllWait", "select", "selected", "leave", "dividers", "nmi"}

HalfWord == {n \in Nat : n < 65536}

(* Every variable has a value of its type; six wait states are the most    *)
(* that set_flash_latency knows.                                           *)
TypeOK ==
  /\ pc \in Steps
  /\ attempt \in 0..Len(Configs)
  /\ before \in Nat
  /\ result \in {"none", "ok", "err"}
  /\ osc \in [Source -> {"off", "starting", "ready"}]
  /\ cfg \in Pll
  /\ sw \in Source /\ sws \in Source
  /\ latency \in 0..6
  /\ bus \in [apb1 : Divider, apb2 : Divider]
  /\ gates \in BOOLEAN
  /\ psc \in HalfWord /\ brr \in HalfWord
  /\ prer \in [a : 0..127, s : HalfWord]
  /\ clkdiv \in 0..255

(* The processor never fetches from the flash faster than the wait states  *)
(* allow: not before, during or after a switch, whichever configurations   *)
(* failed before and whatever the crystal does (rcc.c:252 and 283).        *)
LatencySuffices == Sysclk <= 30000 * (latency + 1)

(* When init_rcc has answered 0 the system runs, to the end, on the clock  *)
(* of the configuration that succeeded, that clock is up, and the buses    *)
(* are within their 42 and 84 MHz, although earlier configurations may     *)
(* have left oscillators half started.  On HSI, if not on the PLL, whose   *)
(* 84 MHz need a prescaler of 17 bits, TIM2 counts milliseconds.           *)
OkMeansClocked ==
  gates /\ result = "ok" /\ pc # "nmi" =>
    /\ sw = Conf.source /\ sws = sw /\ osc[sws] = "ready"
    /\ sw = "pll" => cfg = Conf.pll
    /\ Apb1 <= 42000 /\ Apb2 <= 84000
    /\ sw = "hsi" /\ psc # 0 => psc + 1 = TimerClock

(* What the drivers derive: the bits of the UART are within a quarter of a *)
(* percent of its rate.                                                    *)
BitsInTime ==
  brr # 0 /\ pc # "nmi" => (Apb2 * 1000 - brr * BaudRate) \in -((5 * Apb2) \div 2)..((5 * Apb2) \div 2)

CardClock == Pll48 \div (clkdiv + 2)
RtcSecond == (prer.a + 1) * (prer.s + 1)
=============================================================================
