-------------------------------- MODULE Rtc --------------------------------
(***************************************************************************)
(* The real-time clock: init_rtc, the functions that set and read it       *)
(* (RTC.c) and configure_rtc_clock_rcc (rcc.c).                            *)
(*                                                                         *)
(* The calendar counts in its own clock domain, which stands still without *)
(* the crystal (HSE).  The program sees shadow registers: they are copied  *)
(* from the calendar, and the copy of DR waits from a read of TR to a read *)
(* of DR.  The build does not optimise, so every GET_RTS_* reads its       *)
(* register anew.                                                          *)
(*                                                                         *)
(* The months are of one length.  The day of the week matters only in what *)
(* it does to the year.                                                    *)
(***************************************************************************)
EXTENDS Integers, Sequences

CONSTANTS
  Ops,        \* the setters that are called
  Arguments,  \* what they are called with
  LastOf,     \* the last value of every unit
  MaxTicks,   \* bound: seconds that pass
  MaxResets   \* bound: resets of the processor

Field == {"second", "minute", "hour", "day", "month", "year"}
Order == <<"second", "minute", "hour", "day", "month", "year">>
TrField == {"second", "minute", "hour"}
DrField == {"day", "month", "year"}

BSD_START_YEAR == 1980
BSD_MAX_YEAR == 99

First(f) == IF f \in {"day", "month"} THEN 1 ELSE 0

(* What two digits of four bits hold.                                      *)
TwoDigits == {n \in Nat : n <= 165}

HalfWord == {n \in Nat : n < 65536}

(* The days of DayOfWeek, in a byte.                                       *)
Day == {0, 1, 16, 17}

ASSUME RtcAssumption ==
  /\ Ops \subseteq {"set_datetime", "set_time", "set_date"}
  /\ LastOf \in [Field -> TwoDigits] /\ LastOf.year = BSD_MAX_YEAR
  /\ \A a \in Arguments :
       /\ a.year \in HalfWord /\ a.week \in Day
       /\ \A f \in Field \ {"year"} : a[f] \in Nat /\ First(f) <= a[f] /\ a[f] <= LastOf[f]
  /\ MaxTicks \in Nat /\ MaxResets \in Nat

VARIABLES
  pc, op, arg,  \* the call: its step, the function and its argument
  reads,        \* get_datetime_rtc: the number of the field to read next
  got,          \* ... and the fields read
  result,
  initialized,  \* rtc_initialized
  isSync,       \* is_sync_date_rtc
  hse,          \* the crystal
  clocked,      \* RTCEN
  wp,           \* registers are protected (WPR)
  init, initf,  \* ISR: initialisation asked for, reached
  rsf,          \* ISR: the shadow has been copied
  now,          \* the calendar
  shadow,       \* TR and DR as the program reads them
  locked,       \* DR is not copied
  asked,        \* the year it is by the last set_datetime_rtc, 0 if not known
  seen,         \* what a reader may find: now and asked since a second ago
  ticks, resets

call == <<op, arg, reads, got, result, initialized>>
clock == <<hse, clocked>>
calendar == <<now, asked, seen>>
copy == <<rsf, shadow, locked>>
mode == <<wp, init, initf>>
count == <<ticks, resets>>
vars == <<pc, call, isSync, clock, calendar, copy, mode, count>>

-----------------------------------------------------------------------------
Full(c, f) == c[f] >= LastOf[f]
Rank(f) == CHOOSE i \in DOMAIN Order : Order[i] = f

(* One second later.                                                       *)
After(c) ==
  [f \in Field |->
    IF \E g \in Field : Rank(g) < Rank(f) /\ ~Full(c, g) THEN c[f]
    ELSE IF Full(c, f) THEN First(f) ELSE c[f] + 1]

(* The calendar after a reset of the backup domain.                        *)
Epoch == [f \in Field |-> First(f)]

(* SET_RTS_YEAR | SET_RTS_WDU: two digits of four bits, and the enumerator *)
(* of the day shifted to bit 13, whose bit 4 is bit 1 of the units.        *)
TensUnmasked(y) == y \div 10
Tens(y) == (y \div 10) % 16
Units(y, week) ==
  LET u == y % 10
  IN IF (week \div 16) % 2 = 1 /\ (u \div 2) % 2 = 0 THEN u + 2 ELSE u
YearRegister(y, week) == 10 * Tens(y) + Units(y, week)

(* set_datetime_rtc counts years in a byte, set_date_rtc does not count    *)
(* them but checks that it could.                                          *)
Years(a) == (a.year - BSD_START_YEAR) % 256

Refused(o, a) ==
  CASE o = "set_datetime" -> Years(a) > BSD_MAX_YEAR
    [] o = "set_date" -> a.year - BSD_START_YEAR \notin 0..BSD_MAX_YEAR
    [] OTHER -> FALSE

YearWithoutOffset(o, a) == YearRegister(a.year, a.week)
YearWritten(o, a) ==
  YearRegister(IF o = "set_datetime" THEN Years(a) ELSE a.year, a.week)

(* The calls whose year is to be found in the calendar: the byte does not  *)
(* wrap to a year it takes for another, and the day stays in its field.    *)
Faithful(a) ==
  /\ BSD_START_YEAR <= a.year /\ a.year < BSD_START_YEAR + 256
  /\ a.week \in {0, 1}

SetsTime(o) == o \in {"set_datetime", "set_time"}
SetsDate(o) == o \in {"set_datetime", "set_date"}

(* The calendar once TR and DR have been written.                          *)
Written(c, o, a) ==
  [f \in Field |->
    CASE f = "year" /\ SetsDate(o) -> YearWritten(o, a)
      [] f \in {"day", "month"} /\ SetsDate(o) -> a[f]
      [] f \in TrField /\ SetsTime(o) -> a[f]
      [] OTHER -> c[f]]

NoArgument == [f \in Field \cup {"week"} |-> 0]
Nothing == [f \in Field |-> 0]

Running == clocked /\ hse = "ready"

-----------------------------------------------------------------------------
Init ==
  /\ pc = "idle" /\ op = "none" /\ arg = NoArgument /\ result = "none"
  /\ reads = 1 /\ got = Nothing
  /\ initialized = FALSE /\ isSync = FALSE
  /\ hse \in {"ready", "off"} /\ clocked = FALSE
  /\ wp = TRUE /\ init = FALSE /\ initf = FALSE
  /\ rsf = FALSE /\ shadow = Epoch /\ locked = FALSE
  /\ now = Epoch /\ asked = 0 /\ seen = {<<now, asked>>}
  /\ ticks = 0 /\ resets = 0

Goto(label) == pc' = label /\ UNCHANGED call

(* The arguments and locals of a call end with it.                         *)
Answer(r) ==
  /\ pc' = "idle" /\ result' = r
  /\ op' = "none" /\ arg' = NoArgument /\ reads' = 1 /\ got' = Nothing

Return(r) == Answer(r) /\ UNCHANGED initialized

(* init_rtc.  configure_rtc_clock_rcc resets the backup domain: RTCEN,     *)
(* the calendar, the protection and the modes.                             *)
InitRtc ==
  /\ pc = "idle" /\ ~initialized
  /\ op' = "init" /\ arg' = NoArgument
  /\ clocked' = FALSE /\ wp' = TRUE /\ init' = FALSE /\ initf' = FALSE
  /\ now' = Epoch /\ asked' = 0 /\ seen' = {<<now', asked'>>}
  /\ rsf' = FALSE /\ shadow' = Epoch /\ locked' = FALSE
  /\ IF hse = "ready" THEN pc' = "clock" /\ UNCHANGED hse
                      ELSE pc' = "hse" /\ hse' = "starting"
  /\ UNCHANGED <<reads, got, result, initialized, isSync, count>>

(* The loop over HSERDY and timeout-- leaves 0 in timeout only if the last *)
(* look finds the crystal ready; one more makes it 2^32 - 1.               *)
AwaitHse ==
  /\ pc = "hse"
  /\ \/ Goto("clock")
     \/ hse = "ready" /\ Return("err")
  /\ UNCHANGED <<isSync, clock, calendar, copy, mode, count>>

EnableRtc ==
  /\ pc = "clock"
  /\ clocked' = TRUE
  /\ Goto("enter")
  /\ UNCHANGED <<isSync, hse, calendar, copy, mode, count>>

(* The setters.                                                            *)
Set(o, a) ==
  /\ pc = "idle" /\ initialized /\ o \in Ops
  /\ IF Refused(o, a)
       THEN Return("err")
       ELSE /\ pc' = "enter" /\ op' = o /\ arg' = a
            /\ UNCHANGED <<reads, got, result, initialized>>
  /\ UNCHANGED <<isSync, clock, calendar, copy, mode, count>>

(* WPR takes the keys, INIT is set; a protected register ignores the write. *)
UnlockForgotten == wp
Unlock == FALSE

EnterInit ==
  /\ pc = "enter"
  /\ wp' = Unlock
  /\ init' = ~wp'
  /\ Goto("initf")
  /\ UNCHANGED <<isSync, clock, calendar, copy, initf, count>>

(* PRER, or TR and DR, are written when INITF is up.                       *)
Write ==
  /\ pc = "initf" /\ initf
  /\ now' = Written(now, op, arg)
  /\ asked' = CASE op = "set_datetime" /\ Faithful(arg) -> arg.year
              [] SetsDate(op) /\ ~(op = "set_datetime" /\ Faithful(arg)) -> 0
              [] OTHER -> asked
  /\ seen' = {<<now', asked'>>}
  /\ Goto("exit")
  /\ UNCHANGED <<isSync, clock, copy, mode, count>>

(* The setters protect the registers before they wait, init_rtc after.     *)
ExitInit ==
  /\ pc = "exit"
  /\ init' = FALSE /\ initf' = FALSE
  /\ wp' = (op # "init")
  /\ Goto(IF op = "init" THEN "first" ELSE "clear")
  /\ UNCHANGED <<isSync, clock, calendar, copy, count>>

(* RSF is cleared, if it may be, and awaited; init_rtc does that itself    *)
(* before it calls rtc_wait_sync.                                          *)
ClearRsf ==
  /\ pc \in {"first", "clear"}
  /\ rsf' = (rsf /\ wp)
  /\ Goto(IF pc = "first" THEN "firstWait" ELSE "wait")
  /\ UNCHANGED <<isSync, clock, calendar, shadow, locked, mode, count>>

AwaitFirst ==
  /\ pc = "firstWait" /\ rsf
  /\ Goto("clear")
  /\ UNCHANGED <<isSync, clock, calendar, copy, mode, count>>

SyncedAtOnce == TRUE
Synced == rsf

AwaitSync ==
  /\ pc = "wait" /\ Synced
  /\ isSync' = TRUE
  /\ wp' = TRUE
  /\ IF op = "get"
       THEN Goto("read") /\ UNCHANGED initialized
       ELSE Answer("ok") /\ initialized' = TRUE
  /\ UNCHANGED <<clock, calendar, copy, init, initf, count>>

-----------------------------------------------------------------------------
(* get_datetime_rtc; get_date_rts and get_time_rts keep a part of it.      *)
Get ==
  /\ pc = "idle"
  /\ IF ~initialized
       THEN Return("err")
       ELSE /\ pc' = (IF isSync THEN "read" ELSE "clear") /\ op' = "get"
            /\ UNCHANGED <<arg, reads, got, result, initialized>>
  /\ UNCHANGED <<isSync, clock, calendar, copy, mode, count>>

ReadOrder == <<"hour", "minute", "second", "day", "month", "year">>

(* What is added to a field of a register.                                 *)
Offset(f) == IF f = "year" THEN BSD_START_YEAR ELSE 0

Read ==
  /\ pc = "read" /\ reads <= Len(ReadOrder)
  /\ LET f == ReadOrder[reads]
     IN /\ got' = [got EXCEPT ![f] = shadow[f] + Offset(f)]
        /\ locked' = (f \in TrField)
  /\ reads' = reads + 1
  /\ UNCHANGED <<pc, op, arg, result, initialized, isSync, clock, calendar, rsf, shadow,
                 mode, count>>

Finish ==
  /\ pc = "read" /\ reads > Len(ReadOrder)
  /\ Return("ok")
  /\ UNCHANGED <<isSync, clock, calendar, copy, mode, count>>

-----------------------------------------------------------------------------
(* The hardware.  The copy is made far more often than once a second.      *)
Copied == [f \in Field |-> IF locked /\ f \in DrField THEN shadow[f] ELSE now[f]]

Tick ==
  /\ Running /\ ~initf /\ ticks < MaxTicks
  /\ Copied = shadow
  /\ now' = After(now)
  /\ asked' = CASE now'.year = now.year -> asked
              [] asked # 0 /\ now'.year = now.year + 1 -> asked + 1
              [] OTHER -> 0
  /\ seen' = (IF pc = "read" THEN seen ELSE {<<now, asked>>}) \cup {<<now', asked'>>}
  /\ ticks' = ticks + 1
  /\ UNCHANGED <<pc, call, isSync, clock, copy, mode, resets>>

Copy ==
  /\ Running /\ ~initf
  /\ ~rsf \/ Copied # shadow
  /\ shadow' = Copied /\ rsf' = TRUE
  /\ UNCHANGED <<pc, call, isSync, clock, calendar, locked, mode, count>>

(* In initialisation mode the calendar stands and RSF falls.               *)
InitMode ==
  /\ init /\ ~initf /\ Running
  /\ initf' = TRUE /\ rsf' = FALSE
  /\ UNCHANGED <<pc, call, isSync, clock, calendar, shadow, locked, wp, init, count>>

HseStarts ==
  /\ hse = "starting"
  /\ hse' = "ready"
  /\ UNCHANGED <<pc, call, isSync, clocked, calendar, copy, mode, count>>

(* The processor restarts; the backup domain does not, but the shadow is   *)
(* not valid any more.  The crystal may have been started again.           *)
Reset ==
  /\ resets < MaxResets
  /\ resets' = resets + 1
  /\ Answer("none")
  /\ initialized' = FALSE /\ isSync' = FALSE
  /\ hse' \in {"ready", "off"}
  /\ rsf' = FALSE /\ locked' = FALSE
  /\ UNCHANGED <<clocked, calendar, shadow, mode, ticks>>

Driver ==
  \/ InitRtc \/ AwaitHse \/ EnableRtc
  \/ EnterInit \/ Write \/ ExitInit \/ ClearRsf \/ AwaitFirst \/ AwaitSync
  \/ Read \/ Finish

Caller == Get \/ \E o \in Ops, a \in Arguments : Set(o, a)

Hardware == Tick \/ Copy \/ InitMode \/ HseStarts

Next == Driver \/ Caller \/ Hardware \/ Reset

Spec == Init /\ [][Next]_vars

(* The program runs on, and so does a clock that is clocked.  Nothing      *)
(* makes the crystal start.                                                *)
FairSpec == Spec /\ WF_vars(Driver) /\ WF_vars(Copy) /\ WF_vars(InitMode)

-----------------------------------------------------------------------------
Steps == {"idle", "hse", "clock", "enter", "initf", "exit", "first", "firstWait",
          "clear", "wait", "read"}

Moment == [Field -> TwoDigits]
Reading == [Field -> {n \in Nat : n <= 165 + BSD_START_YEAR}]

(* Every variable has a value of its type.  A year register holds two      *)
(* digits of four bits.                                                    *)
TypeOK ==
  /\ pc \in Steps
  /\ op \in {"none", "init", "get"} \cup Ops
  /\ arg \in Arguments \cup {NoArgument}
  /\ reads \in 1..7
  /\ got \in Reading
  /\ result \in {"none", "ok", "err"}
  /\ initialized \in BOOLEAN /\ isSync \in BOOLEAN /\ clocked \in BOOLEAN
  /\ wp \in BOOLEAN /\ init \in BOOLEAN /\ initf \in BOOLEAN
  /\ rsf \in BOOLEAN /\ locked \in BOOLEAN
  /\ hse \in {"off", "starting", "ready"}
  /\ now \in Moment /\ shadow \in Moment
  /\ asked \in Nat /\ seen \subseteq Moment \X Nat
  /\ ticks \in Nat /\ ticks <= MaxTicks
  /\ resets \in Nat /\ resets <= MaxResets

(* get_datetime_rtc waits for the shadow only once in the life of the      *)
(* program (RTC.c:164).  All the same every field it returns is one the    *)
(* calendar had in the second before the call or during it: never what the *)
(* shadow held before the clock was set or the processor reset.            *)
FieldsAreRecent ==
  pc = "read" =>
    \A i \in 1..(reads - 1) :
      \E s \in seen : got[ReadOrder[i]] = s[1][ReadOrder[i]] + Offset(ReadOrder[i])

(* A year that set_datetime_rtc has taken, of those it does not take for   *)
(* another (RTC.c:58) and on a day whose enumerator stays in its field (a  *)
(* Monday), is counted on by the calendar to the end of its hundred years, *)
(* and a reader finds the year it is in the second before the call or      *)
(* during it - until set_date_rtc writes a year without its offset         *)
(* (RTC.c:131).                                                            *)
YearKept ==
  pc = "read" /\ reads > Len(ReadOrder) /\ asked # 0 =>
    \E s \in seen : got.year = s[2]

(* init_rtc, the setters and the readers return, unless the crystal was    *)
(* switched on and never starts: however late it comes, also after the     *)
(* loop of rcc.c:452 has given it up and RTC.c:34 waits for a mode that    *)
(* cannot be reached yet.  Without it init_rtc waits there for ever, and   *)
(* "Error launch Driver RTC" (sd_fat32.c:91) is not logged.                *)
CrystalStarts == []<>(hse # "starting")

CallsReturn == CrystalStarts => (pc # "idle" ~> pc = "idle")
=============================================================================
