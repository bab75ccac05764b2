----------------------------- MODULE Rtc_proof -----------------------------
(***************************************************************************)
(* What is proved of the real-time clock, for every argument of the        *)
(* setters, every number of seconds and of resets, and units of any        *)
(* length: its types, that a reader returns nothing stale although it      *)
(* waits for the shadow registers only once (FieldsAreRecent), and that    *)
(* the year that was set is the year that is read (YearKept).              *)
(***************************************************************************)
EXTENDS Rtc, TLAPS

-----------------------------------------------------------------------------
(* A call is in a step of its own.                                         *)
Initializing == {"hse", "clock", "first", "firstWait"}
Working == {"enter", "initf", "exit", "clear", "wait"}

CallInv ==
  /\ initialized = isSync
  /\ op = "get" <=> pc = "read"
  /\ op = "none" <=> pc = "idle"
  /\ pc \in Initializing => op = "init"
  /\ op = "init" => ~initialized
  /\ op \in Ops => /\ initialized /\ arg \in Arguments
                   /\ ~Refused(op, arg)
  /\ pc = "read" => initialized
  /\ pc # "read" => reads = 1

(* The calendar runs between the calls, and the shadow has been copied     *)
(* since it was last written; initialisation mode takes that back.         *)
ModeInv ==
  /\ initf => ~rsf
  /\ pc \notin {"enter", "initf", "exit"} /\ (initialized \/ pc # "idle") => ~init /\ ~initf
  /\ initialized /\ pc \in {"idle", "read"} => rsf
  /\ locked => pc = "read" /\ reads \in {2, 3, 4}

(* What the shadow holds is recent once it has been copied: every field    *)
(* of it, if not all of them of one moment.                                *)
ShadowInv ==
  /\ <<now, asked>> \in seen
  /\ rsf => \A f \in Field : \E s \in seen : shadow[f] = s[1][f]

(* A year that is known is the one in the calendar.                        *)
YearInv ==
  \A s \in seen :
    s[2] # 0 => s[2] = s[1].year + BSD_START_YEAR /\ s[1].year <= BSD_MAX_YEAR

(* In the second before a call the year may have become unknown, but it    *)
(* does not become known again but by a setter.                            *)
KnownInv == asked # 0 => \A s \in seen : s[2] # 0

IInv == TypeOK /\ CallInv /\ ModeInv /\ ShadowInv /\ YearInv /\ KnownInv /\ FieldsAreRecent

-----------------------------------------------------------------------------
(* The numbers of the clock.                                               *)
LEMMA FieldFacts ==
  /\ TrField \cup DrField = Field /\ TrField \cap DrField = {}
  /\ "year" \in DrField
  /\ \A f \in Field : First(f) \in Nat /\ First(f) <= 1
  BY DEF TrField, DrField, Field, First

LEMMA LastFacts ==
  /\ LastOf["year"] = BSD_MAX_YEAR
  /\ \A f \in Field : LastOf[f] \in Nat /\ LastOf[f] <= 165
  BY RtcAssumption DEF TwoDigits

LEMMA ReadOrderFacts ==
  /\ Len(ReadOrder) = 6
  /\ \A i \in 1..6 : ReadOrder[i] \in Field
  /\ \A i, j \in 1..6 : i # j => ReadOrder[i] # ReadOrder[j]
  /\ \A i \in 1..6 : ReadOrder[i] \in TrField <=> i \in {1, 2, 3}
  /\ ReadOrder[6] = "year"
  BY DEF ReadOrder, Field, TrField

(* A second later the calendar still has two digits in every unit, and     *)
(* the year is the same, the next one or the first.                        *)
LEMMA AfterType ==
  ASSUME NEW c \in Moment
  PROVE  After(c) \in Moment
<1>1. SUFFICES ASSUME NEW f \in Field
               PROVE  After(c)[f] \in TwoDigits
  BY DEF After, Moment
<1>2. c[f] \in Nat /\ c[f] <= 165
  BY DEF Moment, TwoDigits
<1>3. CASE \E g \in Field : Rank(g) < Rank(f) /\ ~Full(c, g)
  BY <1>2, <1>3 DEF After, TwoDigits
<1>4. CASE ~\E g \in Field : Rank(g) < Rank(f) /\ ~Full(c, g)
  <2>1. CASE Full(c, f)
    <3>1. After(c)[f] = First(f)
      BY <1>4, <2>1 DEF After
    <3>2. QED
      BY <3>1, FieldFacts DEF TwoDigits
  <2>2. CASE ~Full(c, f)
    <3>1. After(c)[f] = c[f] + 1
      BY <1>4, <2>2 DEF After
    <3>2. c[f] < LastOf[f]
      BY <1>2, <2>2, LastFacts DEF Full
    <3>3. QED
      BY <1>2, <3>1, <3>2, LastFacts DEF TwoDigits
  <2>3. QED
    BY <2>1, <2>2
<1>5. QED
  BY <1>3, <1>4

LEMMA AfterYear ==
  ASSUME NEW c \in Moment
  PROVE  \/ After(c)["year"] = c["year"]
         \/ After(c)["year"] = c["year"] + 1 /\ c["year"] < BSD_MAX_YEAR
         \/ After(c)["year"] = 0
<1>1. "year" \in Field /\ First("year") = 0 /\ c["year"] \in Nat
  BY DEF Field, First, Moment, TwoDigits
<1>2. \/ After(c)["year"] = c["year"]
      \/ After(c)["year"] = First("year")
      \/ After(c)["year"] = c["year"] + 1 /\ ~Full(c, "year")
  BY <1>1 DEF After
<1>3. ~Full(c, "year") => c["year"] < BSD_MAX_YEAR
  BY <1>1, LastFacts DEF Full, BSD_MAX_YEAR
<1>4. QED
  BY <1>1, <1>2, <1>3

(* A year fits its register, whatever bit of it the day sets; one of two   *)
(* digits is kept on the days that set none.                               *)
LEMMA YearFits ==
  ASSUME NEW y \in Nat, NEW week \in Day
  PROVE  YearRegister(y, week) \in TwoDigits
<1>1. Tens(y) \in Nat /\ Tens(y) <= 15
  BY SMT DEF Tens
<1>2. Units(y, week) \in Nat /\ Units(y, week) <= 11
  <2>1. y % 10 \in Nat /\ y % 10 <= 9
    BY SMT
  <2>2. QED
    BY <2>1 DEF Units
<1>3. QED
  BY <1>1, <1>2 DEF YearRegister, TwoDigits

LEMMA YearIsKept ==
  ASSUME NEW y \in Nat, y <= BSD_MAX_YEAR, NEW week \in {0, 1}
  PROVE  YearRegister(y, week) = y
<1>1. Units(y, week) = y % 10
  BY DEF Units
<1>2. Tens(y) = y \div 10
  BY DEF Tens, BSD_MAX_YEAR
<1>3. 10 * (y \div 10) + (y % 10) = y
  BY SMT
<1>4. QED
  BY <1>1, <1>2, <1>3 DEF YearRegister

LEMMA YearsFacts ==
  ASSUME NEW a \in Arguments
  PROVE  /\ Years(a) \in Nat
         /\ Faithful(a) => Years(a) = a.year - BSD_START_YEAR
<1>1. a.year \in Nat
  BY RtcAssumption DEF HalfWord
<1>2. QED
  BY <1>1 DEF Years, Faithful, BSD_START_YEAR

(* What the setters write.                                                 *)
LEMMA WrittenType ==
  ASSUME NEW c \in Moment, NEW o, NEW a,
         SetsTime(o) \/ SetsDate(o) => a \in Arguments
  PROVE  Written(c, o, a) \in Moment
<1>1. SUFFICES ASSUME NEW f \in Field
               PROVE  Written(c, o, a)[f] \in TwoDigits
  BY DEF Written, Moment
<1>2. c[f] \in TwoDigits
  BY DEF Moment
<1>3. CASE f = "year" /\ SetsDate(o)
  <2>1. a.year \in Nat /\ a.week \in Day
    BY <1>3, RtcAssumption DEF HalfWord
  <2>2. YearWritten(o, a) \in TwoDigits
    BY <1>3, <2>1, YearFits, YearsFacts DEF YearWritten
  <2>3. QED
    BY <1>3, <2>2 DEF Written, TrField
<1>4. CASE f # "year" /\ (SetsTime(o) \/ SetsDate(o))
  <2>1. a[f] \in Nat /\ a[f] <= LastOf[f]
    BY <1>4, RtcAssumption
  <2>2. a[f] \in TwoDigits
    BY <2>1, LastFacts DEF TwoDigits
  <2>3. Written(c, o, a)[f] \in {a[f], c[f]}
    BY <1>4 DEF Written
  <2>4. QED
    BY <1>2, <2>2, <2>3
<1>5. CASE ~SetsTime(o) /\ ~SetsDate(o)
  BY <1>2, <1>5 DEF Written
<1>6. CASE f = "year" /\ ~SetsDate(o)
  <2>1. Written(c, o, a)[f] = c[f]
    BY <1>6 DEF Written, TrField
  <2>2. QED
    BY <1>2, <2>1
<1>7. QED
  BY <1>3, <1>4, <1>5, <1>6

(* The year that is known after a write is the one written.                *)
LEMMA WrittenYear ==
  ASSUME NEW c \in Moment, NEW o, NEW a
  PROVE  /\ o = "set_datetime" /\ a \in Arguments /\ Faithful(a) /\ ~Refused(o, a) =>
              /\ Written(c, o, a)["year"] = a.year - BSD_START_YEAR
              /\ Written(c, o, a)["year"] <= BSD_MAX_YEAR
         /\ ~SetsDate(o) => Written(c, o, a)["year"] = c["year"]
<1>1. "year" \in Field /\ "year" \notin TrField
  BY DEF Field, TrField
<1>2. ASSUME o = "set_datetime", a \in Arguments, Faithful(a), ~Refused(o, a)
      PROVE  /\ Written(c, o, a)["year"] = a.year - BSD_START_YEAR
             /\ Written(c, o, a)["year"] <= BSD_MAX_YEAR
  <2>1. Years(a) \in Nat /\ Years(a) = a.year - BSD_START_YEAR
    BY <1>2, YearsFacts
  <2>2. Years(a) <= BSD_MAX_YEAR
    BY <1>2, <2>1 DEF Refused, BSD_MAX_YEAR
  <2>3. a.week \in {0, 1}
    BY <1>2 DEF Faithful
  <2>4. YearRegister(Years(a), a.week) = Years(a)
    BY <2>1, <2>2, <2>3, YearIsKept
  <2>5. Written(c, o, a)["year"] = YearRegister(Years(a), a.week)
    BY <1>1, <1>2 DEF Written, SetsDate, YearWritten
  <2>6. QED
    BY <2>1, <2>2, <2>4, <2>5
<1>3. ASSUME ~SetsDate(o)
      PROVE  Written(c, o, a)["year"] = c["year"]
  BY <1>1, <1>3 DEF Written
<1>4. QED
  BY <1>2, <1>3

-----------------------------------------------------------------------------
(* Every action keeps the types: of the call, and of the clock.            *)
CallTypes ==
  /\ pc \in Steps
  /\ op \in {"none", "init", "get"} \cup Ops
  /\ arg \in Arguments \cup {NoArgument}
  /\ reads \in 1..7 /\ got \in Reading
  /\ result \in {"none", "ok", "err"}
  /\ initialized \in BOOLEAN /\ isSync \in BOOLEAN

ClockTypes ==
  /\ clocked \in BOOLEAN /\ hse \in {"off", "starting", "ready"}
  /\ wp \in BOOLEAN /\ init \in BOOLEAN /\ initf \in BOOLEAN
  /\ rsf \in BOOLEAN /\ locked \in BOOLEAN
  /\ now \in Moment /\ shadow \in Moment
  /\ asked \in Nat /\ seen \subseteq Moment \X Nat

CountTypes ==
  /\ ticks \in Nat /\ ticks <= MaxTicks
  /\ resets \in Nat /\ resets <= MaxResets

LEMMA TypeParts ==
  TypeOK <=> CallTypes /\ ClockTypes /\ CountTypes
  BY DEF TypeOK, CallTypes, ClockTypes, CountTypes

LEMMA StartTypes ==
  Init => TypeOK
<1>. SUFFICES ASSUME Init
              PROVE  TypeOK
  OBVIOUS
<1>1. Epoch \in Moment
  BY FieldFacts DEF Epoch, Moment, TwoDigits
<1>2. CallTypes
  <2>1. Nothing \in Reading
    BY DEF Nothing, Reading, BSD_START_YEAR
  <2>2. reads \in 1..7
    BY DEF Init
  <2>3. initialized \in BOOLEAN /\ isSync \in BOOLEAN
    BY DEF Init
  <2>4. QED
    BY <2>1, <2>2, <2>3 DEF Init, CallTypes, Steps
<1>3. ClockTypes
  <2>1. now \in Moment /\ shadow \in Moment /\ asked \in Nat /\ seen \subseteq Moment \X Nat
    BY <1>1 DEF Init
  <2>2. clocked \in BOOLEAN /\ wp \in BOOLEAN /\ init \in BOOLEAN /\ initf \in BOOLEAN
    BY DEF Init
  <2>3. rsf \in BOOLEAN /\ locked \in BOOLEAN /\ hse \in {"off", "starting", "ready"}
    BY DEF Init
  <2>4. QED
    BY <2>1, <2>2, <2>3 DEF ClockTypes
<1>4. CountTypes
  BY RtcAssumption DEF Init, CountTypes
<1>5. QED
  BY <1>2, <1>3, <1>4, TypeParts

LEMMA CallTypesStep ==
  ASSUME TypeOK, CallInv, [Next]_vars
  PROVE  CallTypes'
<1>. USE DEF CallTypes, Steps
<1>1. CallTypes
  BY TypeParts
<1>2. Nothing \in Reading
  BY DEF Nothing, Reading, BSD_START_YEAR
<1>3. ASSUME pc' \in Steps, UNCHANGED <<call, isSync>>
      PROVE  CallTypes'
  BY <1>1, <1>3 DEF call
<1>4. ASSUME NEW r \in {"none", "ok", "err"}, Answer(r),
             initialized' \in BOOLEAN, isSync' \in BOOLEAN
      PROVE  CallTypes'
  BY <1>2, <1>4 DEF Answer
<1>5. CASE InitRtc
  BY <1>1, <1>5 DEF InitRtc
<1>6. CASE AwaitHse
  <2>1. CASE Goto("clock")
    BY <1>3, <1>6, <2>1 DEF AwaitHse, Goto
  <2>2. CASE Return("err")
    BY <1>1, <1>4, <1>6, <2>2 DEF AwaitHse, Return
  <2>3. QED
    BY <1>6, <2>1, <2>2 DEF AwaitHse
<1>7. CASE EnableRtc \/ EnterInit \/ Write \/ ExitInit \/ ClearRsf \/ AwaitFirst
  BY <1>3, <1>7 DEF EnableRtc, EnterInit, Write, ExitInit, ClearRsf, AwaitFirst, Goto
<1>8. CASE AwaitSync
  <2>1. Answer("ok") /\ initialized' = TRUE /\ isSync' = TRUE
    BY <1>8 DEF AwaitSync, CallInv
  <2>2. QED
    BY <1>4, <2>1
<1>9. CASE Read
  <2>1. reads \in 1..6 /\ ReadOrder[reads] \in Field
    BY <1>1, <1>9, ReadOrderFacts DEF Read
  <2>2. shadow[ReadOrder[reads]] \in Nat /\ shadow[ReadOrder[reads]] <= 165
    BY <2>1 DEF TypeOK, Moment, TwoDigits
  <2>3. got' \in Reading
    BY <1>1, <1>9, <2>1, <2>2 DEF Read, Reading, Offset, BSD_START_YEAR
  <2>4. QED
    BY <1>1, <1>9, <2>1, <2>3 DEF Read
<1>10. CASE Finish
  BY <1>1, <1>4, <1>10 DEF Finish, Return
<1>11. CASE Get
  <2>1. CASE initialized
    BY <1>1, <1>11, <2>1 DEF Get
  <2>2. CASE ~initialized
    BY <1>1, <1>4, <1>11, <2>2 DEF Get, Return
  <2>3. QED
    BY <2>1, <2>2
<1>12. ASSUME NEW o \in Ops, NEW a \in Arguments, Set(o, a)
       PROVE  CallTypes'
  <2>1. CASE Refused(o, a)
    BY <1>1, <1>4, <1>12, <2>1 DEF Set, Return
  <2>2. CASE ~Refused(o, a)
    BY <1>1, <1>12, <2>2 DEF Set
  <2>3. QED
    BY <2>1, <2>2
<1>13. CASE Hardware
  BY <1>1, <1>3, <1>13 DEF Hardware, Tick, Copy, InitMode, HseStarts
<1>14. CASE Reset
  BY <1>4, <1>14 DEF Reset
<1>15. CASE UNCHANGED vars
  BY <1>1, <1>3, <1>15 DEF vars
<1>16. QED
  BY <1>5, <1>6, <1>7, <1>8, <1>9, <1>10, <1>11, <1>12, <1>13, <1>14, <1>15
     DEF Next, Driver, Caller

LEMMA ClockTypesStep ==
  ASSUME TypeOK, CallInv, [Next]_vars
  PROVE  ClockTypes'
<1>. USE DEF ClockTypes
<1>1. ClockTypes
  BY TypeParts
<1>2. CASE InitRtc
  <2>1. Epoch \in Moment
    BY FieldFacts DEF Epoch, Moment, TwoDigits
  <2>2. now' \in Moment /\ asked' \in Nat /\ seen' \subseteq Moment \X Nat /\ shadow' \in Moment
    BY <1>2, <2>1 DEF InitRtc
  <2>3. QED
    BY <1>1, <1>2, <2>2 DEF InitRtc
<1>3. CASE AwaitHse \/ EnableRtc \/ AwaitFirst \/ Finish \/ Get
  BY <1>1, <1>3 DEF AwaitHse, EnableRtc, AwaitFirst, Finish, Get, clock, calendar, copy, mode
<1>4. CASE EnterInit \/ ExitInit
  BY <1>1, <1>4 DEF EnterInit, ExitInit, Unlock, clock, calendar, copy
<1>5. CASE Write
  <2>1. SetsTime(op) \/ SetsDate(op) => arg \in Arguments
    BY <1>5, TypeParts DEF Write, CallInv, CallTypes, SetsTime, SetsDate
  <2>2. now' \in Moment
    BY <1>1, <1>5, <2>1, WrittenType DEF Write
  <2>3. op = "set_datetime" => arg.year \in Nat
    BY <2>1, RtcAssumption DEF SetsTime, HalfWord
  <2>4. asked' \in Nat
    BY <1>1, <1>5, <2>3 DEF Write
  <2>5. QED
    BY <1>1, <1>5, <2>2, <2>4 DEF Write, clock, copy, mode
<1>6. CASE ClearRsf
  BY <1>1, <1>6 DEF ClearRsf, clock, calendar, mode
<1>7. CASE AwaitSync
  BY <1>1, <1>7 DEF AwaitSync, clock, calendar, copy
<1>8. CASE Read
  <2>1. locked' \in BOOLEAN
    BY <1>8 DEF Read
  <2>2. QED
    BY <1>1, <1>8, <2>1 DEF Read, clock, calendar, mode
<1>9. ASSUME NEW o \in Ops, NEW a \in Arguments, Set(o, a)
      PROVE  ClockTypes'
  BY <1>1, <1>9 DEF Set, clock, calendar, copy, mode
<1>10. CASE Tick
  <2>1. now' \in Moment
    BY <1>1, <1>10, AfterType DEF Tick
  <2>2. asked' \in Nat
    BY <1>1, <1>10 DEF Tick
  <2>3. seen' \subseteq Moment \X Nat
    BY <1>1, <1>10, <2>1, <2>2 DEF Tick
  <2>4. QED
    BY <1>1, <1>10, <2>1, <2>2, <2>3 DEF Tick, clock, copy, mode
<1>11. CASE Copy
  <2>1. Copied \in Moment
    BY <1>1 DEF Copied, Moment
  <2>2. QED
    BY <1>1, <1>11, <2>1 DEF Copy, clock, calendar, mode
<1>12. CASE InitMode \/ HseStarts
  BY <1>1, <1>12 DEF InitMode, HseStarts, clock, calendar, copy, mode
<1>13. CASE Reset
  BY <1>1, <1>13 DEF Reset, calendar, mode
<1>14. CASE UNCHANGED vars
  BY <1>1, <1>14 DEF vars, clock, calendar, copy, mode
<1>15. QED
  BY <1>2, <1>3, <1>4, <1>5, <1>6, <1>7, <1>8, <1>9, <1>10, <1>11, <1>12, <1>13, <1>14
     DEF Next, Driver, Caller, Hardware

LEMMA CountTypesStep ==
  ASSUME TypeOK, [Next]_vars
  PROVE  CountTypes'
<1>1. CountTypes
  BY TypeParts
<1>2. CASE Tick
  BY <1>1, <1>2, RtcAssumption DEF Tick, CountTypes
<1>3. CASE Reset
  BY <1>1, <1>3, RtcAssumption DEF Reset, CountTypes
<1>4. CASE UNCHANGED count
  BY <1>1, <1>4 DEF CountTypes, count
<1>5. Driver => UNCHANGED count
  BY DEF Driver, InitRtc, AwaitHse, EnableRtc, EnterInit, Write, ExitInit, ClearRsf, AwaitFirst,
         AwaitSync, Read, Finish
<1>6. Next => Tick \/ Reset \/ UNCHANGED count
  BY <1>5 DEF Next, Caller, Get, Set, Hardware, Copy, InitMode, HseStarts
<1>7. QED
  BY <1>2, <1>3, <1>4, <1>6 DEF vars

LEMMA TypeStep ==
  ASSUME TypeOK, CallInv, [Next]_vars
  PROVE  TypeOK'
  BY CallTypesStep, ClockTypesStep, CountTypesStep
     DEF TypeOK, CallTypes, ClockTypes, CountTypes

-----------------------------------------------------------------------------
(* The calls and the modes.                                                *)
LEMMA CallStep ==
  ASSUME TypeOK, CallInv, ModeInv, [Next]_vars
  PROVE  CallInv'
<1>. USE DEF CallInv, Initializing
<1>1. "init" \notin Ops /\ "get" \notin Ops /\ "none" \notin Ops
  BY RtcAssumption
<1>2. CASE InitRtc
  BY <1>1, <1>2 DEF InitRtc
<1>3. CASE AwaitHse
  BY <1>1, <1>3 DEF AwaitHse, Goto, Return, Answer, call
<1>4. CASE EnableRtc \/ EnterInit \/ Write \/ ClearRsf \/ AwaitFirst
  BY <1>1, <1>4 DEF EnableRtc, EnterInit, Write, ClearRsf, AwaitFirst, Goto, call
<1>5. CASE ExitInit
  BY <1>1, <1>5 DEF ExitInit, Goto, call
<1>6. CASE AwaitSync
  BY <1>1, <1>6 DEF AwaitSync, Answer
<1>7. CASE Read
  BY <1>1, <1>7 DEF Read
<1>8. CASE Finish
  BY <1>1, <1>8 DEF Finish, Return, Answer
<1>9. CASE Get
  BY <1>1, <1>9 DEF Get, Return, Answer
<1>10. ASSUME NEW o \in Ops, NEW a \in Arguments, Set(o, a)
       PROVE  CallInv'
  BY <1>1, <1>10 DEF Set, Return, Answer
<1>11. CASE Hardware
  BY <1>11 DEF Hardware, Tick, Copy, InitMode, HseStarts, call
<1>12. CASE Reset
  BY <1>1, <1>12 DEF Reset, Answer
<1>13. CASE UNCHANGED vars
  BY <1>13 DEF vars, call
<1>14. QED
  BY <1>2, <1>3, <1>4, <1>5, <1>6, <1>7, <1>8, <1>9, <1>10, <1>11, <1>12, <1>13
     DEF Next, Driver, Caller

LEMMA ModeStep ==
  ASSUME TypeOK, CallInv, ModeInv, [Next]_vars
  PROVE  ModeInv'
<1>. USE DEF ModeInv, CallInv
<1>1. "init" \notin Ops /\ "get" \notin Ops /\ "none" \notin Ops
  BY RtcAssumption
<1>2. CASE InitRtc
  BY <1>2 DEF InitRtc
<1>3. CASE AwaitHse
  BY <1>3 DEF AwaitHse, Goto, Return, Answer, copy, mode, call, Initializing
<1>4. CASE EnableRtc \/ Write \/ AwaitFirst
  BY <1>4 DEF EnableRtc, Write, AwaitFirst, Goto, copy, mode, call
<1>5. CASE EnterInit
  BY <1>5 DEF EnterInit, Goto, copy, call
<1>6. CASE ExitInit
  BY <1>6 DEF ExitInit, Goto, copy, call
<1>7. CASE ClearRsf
  BY <1>7 DEF ClearRsf, Goto, mode, call
<1>8. CASE AwaitSync
  BY <1>8 DEF AwaitSync, Synced, Answer, copy
<1>9. CASE Read
  <2>1. reads \in 1..6
    BY <1>9, ReadOrderFacts DEF Read, TypeOK
  <2>2. locked' => reads \in {1, 2, 3}
    BY <1>9, <2>1, ReadOrderFacts DEF Read
  <2>3. locked' => reads' \in {2, 3, 4}
    BY <1>9, <2>1, <2>2 DEF Read
  <2>4. QED
    BY <1>9, <2>3 DEF Read, mode
<1>10. CASE Finish
  BY <1>10, ReadOrderFacts DEF Finish, Return, Answer, copy, mode
<1>11. CASE Get
  BY <1>11 DEF Get, Return, Answer, copy, mode
<1>12. ASSUME NEW o \in Ops, NEW a \in Arguments, Set(o, a)
       PROVE  ModeInv'
  BY <1>12 DEF Set, Return, Answer, copy, mode
<1>13. CASE Tick \/ HseStarts
  BY <1>13 DEF Tick, HseStarts, call, copy, mode
<1>14. CASE Copy
  BY <1>14 DEF Copy, call, mode
<1>15. CASE InitMode
  BY <1>15 DEF InitMode, call
<1>16. CASE Reset
  BY <1>16 DEF Reset, Answer, mode
<1>17. CASE UNCHANGED vars
  BY <1>17 DEF vars, call, copy, mode
<1>18. QED
  BY <1>2, <1>3, <1>4, <1>5, <1>6, <1>7, <1>8, <1>9, <1>10, <1>11, <1>12, <1>13, <1>14, <1>15,
     <1>16, <1>17
     DEF Next, Driver, Caller, Hardware

-----------------------------------------------------------------------------
(* Most steps leave the calendar and its past alone.                       *)
LEMMA CalendarMoves ==
  ASSUME [Next]_vars
  PROVE  InitRtc \/ Write \/ Tick \/ UNCHANGED calendar
<1>1. Driver => InitRtc \/ Write \/ UNCHANGED calendar
  BY DEF Driver, AwaitHse, EnableRtc, EnterInit, ExitInit, ClearRsf, AwaitFirst, AwaitSync, Read,
         Finish, calendar
<1>2. Caller => UNCHANGED calendar
  BY DEF Caller, Get, Set
<1>3. Hardware \/ Reset => Tick \/ UNCHANGED calendar
  BY DEF Hardware, Copy, InitMode, HseStarts, Reset
<1>4. QED
  BY <1>1, <1>2, <1>3 DEF Next, vars

LEMMA SeenStep ==
  ASSUME TypeOK, ShadowInv, [Next]_vars
  PROVE  <<now, asked>>' \in seen'
<1>1. CASE InitRtc \/ Write \/ Tick
  BY <1>1 DEF InitRtc, Write, Tick
<1>2. CASE UNCHANGED calendar
  BY <1>2 DEF ShadowInv, calendar
<1>3. QED
  BY <1>1, <1>2, CalendarMoves

(* A second that passes while a reader reads takes nothing away.           *)
LEMMA TickGrows ==
  ASSUME Tick, pc = "read"
  PROVE  seen \subseteq seen'
  BY DEF Tick

(* The registers and what was copied to them: before a second passes the   *)
(* copy is complete, but for what a reader has locked.                     *)
LEMMA ShadowStep ==
  ASSUME TypeOK, CallInv, ModeInv, ShadowInv, [Next]_vars
  PROVE  ShadowInv'
<1>1. SUFFICES ASSUME rsf', NEW f \in Field
               PROVE  \E s \in seen' : shadow'[f] = s[1][f]
  BY SeenStep DEF ShadowInv
<1>2. rsf => \E s \in seen : shadow[f] = s[1][f]
  BY DEF ShadowInv
<1>3. CASE InitRtc \/ InitMode \/ Reset
  BY <1>1, <1>3 DEF InitRtc, InitMode, Reset
<1>4. CASE Write
  BY <1>1, <1>4 DEF Write, ModeInv, copy
<1>5. CASE Tick
  <2>1. rsf /\ shadow' = shadow
    BY <1>1, <1>5 DEF Tick, copy
  <2>2. CASE pc = "read"
    BY <1>2, <1>5, <2>1, <2>2, TickGrows
  <2>3. CASE pc # "read"
    <3>1. ~locked
      BY <2>3 DEF ModeInv
    <3>2. shadow[f] = now[f]
      BY <1>5, <3>1 DEF Tick, Copied
    <3>3. <<now, asked>> \in seen'
      BY <1>5, <2>3 DEF Tick
    <3>4. QED
      BY <2>1, <3>2, <3>3
  <2>4. QED
    BY <2>2, <2>3
<1>6. CASE Copy
  <2>1. seen' = seen /\ shadow' = Copied
    BY <1>6 DEF Copy, calendar
  <2>2. CASE locked /\ f \in DrField
    <3>1. rsf
      BY <2>2 DEF ModeInv, CallInv
    <3>2. shadow'[f] = shadow[f]
      BY <2>1, <2>2 DEF Copied
    <3>3. QED
      BY <1>2, <2>1, <3>1, <3>2
  <2>3. CASE ~(locked /\ f \in DrField)
    <3>1. shadow'[f] = now[f]
      BY <2>1, <2>3 DEF Copied
    <3>2. QED
      BY <2>1, <3>1 DEF ShadowInv
  <2>4. QED
    BY <2>2, <2>3
<1>7. CASE ClearRsf \/ Read
  BY <1>1, <1>2, <1>7 DEF ClearRsf, Read, calendar
<1>8. CASE UNCHANGED <<calendar, copy>>
  BY <1>1, <1>2, <1>8 DEF calendar, copy
<1>9. Driver => InitRtc \/ Write \/ ClearRsf \/ Read \/ UNCHANGED <<calendar, copy>>
  BY DEF Driver, AwaitHse, EnableRtc, EnterInit, ExitInit, AwaitFirst, AwaitSync, Finish
<1>10. Caller \/ HseStarts \/ UNCHANGED vars => UNCHANGED <<calendar, copy>>
  BY DEF Caller, Get, Set, HseStarts, vars
<1>11. QED
  BY <1>3, <1>4, <1>5, <1>6, <1>7, <1>8, <1>9, <1>10 DEF Next, Hardware

(* The year that is known and the calendar change together.                *)
LEMMA YearStep ==
  ASSUME TypeOK, CallInv, ShadowInv, YearInv, [Next]_vars
  PROVE  YearInv'
<1>1. CASE UNCHANGED calendar
  BY <1>1 DEF YearInv, calendar
<1>2. ASSUME asked' # 0 => now'.year + BSD_START_YEAR = asked' /\ now'.year <= BSD_MAX_YEAR,
             \A s \in seen' : s = <<now', asked'>> \/ s \in seen
      PROVE  YearInv'
  BY <1>2 DEF YearInv
<1>3. asked # 0 => asked = now.year + BSD_START_YEAR /\ now.year <= BSD_MAX_YEAR
  BY DEF ShadowInv, YearInv
<1>4. CASE InitRtc
  BY <1>2, <1>4 DEF InitRtc
<1>5. CASE Write
  <2>1. now \in Moment /\ now' = Written(now, op, arg)
    BY <1>5 DEF Write, TypeOK
  <2>2. CASE op = "set_datetime" /\ Faithful(arg)
    <3>1. arg \in Arguments /\ ~Refused(op, arg)
      BY <1>5, <2>2 DEF Write, CallInv, TypeOK
    <3>2. now'.year = arg.year - BSD_START_YEAR /\ now'.year <= BSD_MAX_YEAR
      BY <2>1, <2>2, <3>1, WrittenYear
    <3>3. asked' = arg.year /\ arg.year \in Nat
      BY <1>5, <2>2, <3>1, RtcAssumption DEF Write, HalfWord
    <3>4. seen' = {<<now', asked'>>}
      BY <1>5 DEF Write
    <3>5. QED
      BY <1>2, <3>2, <3>3, <3>4 DEF BSD_START_YEAR
  <2>3. CASE SetsDate(op) /\ ~(op = "set_datetime" /\ Faithful(arg))
    BY <1>2, <1>5, <2>3 DEF Write
  <2>4. CASE ~SetsDate(op)
    <3>1. asked' = asked
      BY <1>5, <2>4 DEF Write, SetsDate
    <3>2. now'.year = now.year
      BY <2>1, <2>4, WrittenYear
    <3>3. seen' = {<<now', asked'>>}
      BY <1>5 DEF Write
    <3>4. QED
      BY <1>2, <1>3, <3>1, <3>2, <3>3
  <2>5. QED
    BY <2>2, <2>3, <2>4
<1>6. CASE Tick
  <2>1. now.year \in Nat
    BY DEF TypeOK, Moment, TwoDigits, Field
  <2>2. \/ now'.year = now.year
        \/ now'.year = now.year + 1 /\ now.year < BSD_MAX_YEAR
        \/ now'.year = 0
    BY <1>6, AfterYear DEF Tick, TypeOK
  <2>3. asked' # 0 => now'.year + BSD_START_YEAR = asked' /\ now'.year <= BSD_MAX_YEAR
    <3>1. CASE now'.year = now.year
      <4>1. now'.year # now.year + 1
        BY <2>1, <3>1
      <4>2. asked' = asked
        BY <1>6, <3>1, <4>1 DEF Tick
      <4>3. QED
        BY <1>3, <3>1, <4>2
    <3>2. CASE asked # 0 /\ now'.year = now.year + 1
      <4>1. now'.year # now.year /\ now.year < BSD_MAX_YEAR
        BY <2>1, <2>2, <3>2
      <4>2. asked' = asked + 1
        BY <1>6, <3>2, <4>1 DEF Tick
      <4>3. QED
        BY <1>3, <2>1, <3>2, <4>1, <4>2 DEF BSD_START_YEAR, BSD_MAX_YEAR
    <3>3. CASE now'.year # now.year /\ ~(asked # 0 /\ now'.year = now.year + 1)
      BY <1>6, <3>3 DEF Tick
    <3>4. QED
      BY <3>1, <3>2, <3>3
  <2>4. \A s \in seen' : s = <<now', asked'>> \/ s \in seen
    BY <1>6 DEF Tick, ShadowInv
  <2>5. QED
    BY <1>2, <2>3, <2>4
<1>7. QED
  BY <1>1, <1>4, <1>5, <1>6, CalendarMoves

LEMMA KnownStep ==
  ASSUME TypeOK, ShadowInv, KnownInv, [Next]_vars
  PROVE  KnownInv'
<1>1. CASE InitRtc \/ Write
  BY <1>1 DEF InitRtc, Write, KnownInv
<1>2. CASE Tick
  <2>1. asked' # 0 => asked # 0
    <3>1. now.year \in Nat
      BY DEF TypeOK, Moment, TwoDigits, Field
    <3>2. ~(now'.year = now.year /\ now'.year = now.year + 1)
      BY <3>1
    <3>3. QED
      BY <1>2, <3>2 DEF Tick
  <2>2. \A s \in seen' : s = <<now', asked'>> \/ s \in seen
    BY <1>2 DEF Tick, ShadowInv
  <2>3. QED
    BY <2>1, <2>2 DEF KnownInv
<1>3. CASE UNCHANGED calendar
  BY <1>3 DEF KnownInv, calendar
<1>4. QED
  BY <1>1, <1>2, <1>3, CalendarMoves

(* A reader finds one field more, or the calendar has gone on.             *)
LEMMA RecentStep ==
  ASSUME TypeOK, CallInv, ModeInv, ShadowInv, FieldsAreRecent, [Next]_vars
  PROVE  FieldsAreRecent'
<1>1. CASE Read
  <2>1. reads \in 1..6 /\ reads' = reads + 1 /\ pc = "read" /\ seen' = seen
    BY <1>1, ReadOrderFacts DEF Read, TypeOK, calendar
  <2>2. SUFFICES ASSUME NEW i \in 1..(reads' - 1)
                 PROVE  \E s \in seen :
                          got'[ReadOrder[i]] = s[1][ReadOrder[i]] + Offset(ReadOrder[i])
    BY <2>1 DEF FieldsAreRecent
  <2>3. i \in 1..6 /\ ReadOrder[i] \in Field /\ ReadOrder[reads] \in Field
    BY <2>1, ReadOrderFacts
  <2>4. got' = [got EXCEPT ![ReadOrder[reads]] =
                  shadow[ReadOrder[reads]] + Offset(ReadOrder[reads])]
    BY <1>1 DEF Read
  <2>5. CASE i = reads
    <3>1. got'[ReadOrder[i]] = shadow[ReadOrder[i]] + Offset(ReadOrder[i])
      BY <2>3, <2>4, <2>5 DEF TypeOK, Reading
    <3>2. \E s \in seen : shadow[ReadOrder[i]] = s[1][ReadOrder[i]]
      BY <2>1, <2>3 DEF ShadowInv, ModeInv, CallInv
    <3>3. QED
      BY <3>1, <3>2
  <2>6. CASE i # reads
    <3>1. i \in 1..(reads - 1)
      BY <2>1, <2>6
    <3>2. got'[ReadOrder[i]] = got[ReadOrder[i]]
      BY <2>1, <2>3, <2>4, <2>6, ReadOrderFacts DEF TypeOK, Reading
    <3>3. QED
      BY <2>1, <3>1, <3>2 DEF FieldsAreRecent
  <2>7. QED
    BY <2>5, <2>6
<1>2. CASE Tick
  <2>1. CASE pc = "read"
    BY <1>2, <2>1, TickGrows DEF Tick, FieldsAreRecent, call
  <2>2. CASE pc # "read"
    BY <1>2, <2>2 DEF Tick, FieldsAreRecent
  <2>3. QED
    BY <2>1, <2>2
<1>3. CASE Copy \/ InitMode \/ HseStarts
  BY <1>3 DEF Copy, InitMode, HseStarts, FieldsAreRecent, call, calendar
<1>4. CASE Get
  <2>1. CASE initialized
    BY <1>4, <2>1 DEF Get, CallInv, FieldsAreRecent
  <2>2. CASE ~initialized
    BY <1>4, <2>2 DEF Get, Return, Answer, FieldsAreRecent
  <2>3. QED
    BY <2>1, <2>2
<1>5. CASE UNCHANGED vars
  BY <1>5 DEF vars, call, calendar, FieldsAreRecent
<1>6. ASSUME pc' # "read"
      PROVE  FieldsAreRecent'
  BY <1>6 DEF FieldsAreRecent
<1>7. CASE InitRtc \/ AwaitHse \/ EnableRtc \/ EnterInit \/ Write \/ ExitInit
  BY <1>6, <1>7 DEF InitRtc, AwaitHse, EnableRtc, EnterInit, Write, ExitInit, Goto, Return, Answer
<1>8. CASE ClearRsf \/ AwaitFirst \/ Finish \/ Reset
  BY <1>6, <1>8 DEF ClearRsf, AwaitFirst, Finish, Reset, Goto, Return, Answer
<1>9. CASE AwaitSync
  BY <1>6, <1>9 DEF AwaitSync, Answer, CallInv
<1>10. ASSUME NEW o \in Ops, NEW a \in Arguments, Set(o, a)
       PROVE  FieldsAreRecent'
  BY <1>6, <1>10 DEF Set, Return, Answer
<1>11. QED
  BY <1>1, <1>2, <1>3, <1>4, <1>5, <1>7, <1>8, <1>9, <1>10 DEF Next, Driver, Caller, Hardware

-----------------------------------------------------------------------------
LEMMA StartInv ==
  Init => IInv
<1>. SUFFICES ASSUME Init
              PROVE  IInv
  OBVIOUS
<1>1. "init" \notin Ops /\ "get" \notin Ops /\ "none" \notin Ops
  BY RtcAssumption
<1>2. CallInv /\ ModeInv
  BY <1>1 DEF Init, CallInv, ModeInv, Initializing
<1>3. ShadowInv /\ KnownInv /\ FieldsAreRecent
  BY DEF Init, ShadowInv, KnownInv, FieldsAreRecent
<1>4. YearInv
  BY DEF Init, YearInv
<1>5. QED
  BY <1>2, <1>3, <1>4, StartTypes DEF IInv

LEMMA Invariance ==
  Spec => []IInv
<1>1. IInv /\ [Next]_vars => IInv'
  BY TypeStep, CallStep, ModeStep, ShadowStep, YearStep, KnownStep, RecentStep DEF IInv
<1>2. QED
  BY <1>1, StartInv, PTL DEF Spec

(* init_rtc and the crystal.  INITF is not reached without it, and a step  *)
(* behind the wait for INITF is.                                           *)
BehindInitf == {"exit", "first", "firstWait", "clear", "wait"}

CrystalInv == op = "init" /\ (initf \/ pc \in BehindInitf) => hse = "ready"

LEMMA CrystalStep ==
  ASSUME CallInv, CrystalInv, [Next]_vars
  PROVE  CrystalInv'
<1> USE DEF CrystalInv, BehindInitf
<1>1. "init" \notin Ops
  BY RtcAssumption
<1>2. CASE InitRtc
  BY <1>2 DEF InitRtc
<1>3. CASE AwaitHse \/ EnableRtc \/ EnterInit \/ Write \/ ClearRsf \/ AwaitFirst
  BY <1>3 DEF AwaitHse, EnableRtc, EnterInit, Write, ClearRsf, AwaitFirst, Goto, Return, Answer,
     call, clock, mode
<1>4. CASE ExitInit \/ AwaitSync \/ Read \/ Finish
  BY <1>4 DEF ExitInit, AwaitSync, Read, Finish, Goto, Return, Answer, CallInv, call, clock, mode
<1>5. CASE Get
  BY <1>5 DEF Get, Return, Answer
<1>6. ASSUME NEW o \in Ops, NEW a \in Arguments, Set(o, a)
      PROVE  CrystalInv'
  BY <1>1, <1>6 DEF Set, Return, Answer
<1>7. CASE Hardware
  BY <1>7 DEF Hardware, Tick, Copy, InitMode, HseStarts, Running, call, clock, mode
<1>8. CASE Reset
  BY <1>8 DEF Reset, Answer
<1>9. CASE UNCHANGED vars
  BY <1>9 DEF vars, call, clock, mode
<1> QED
  BY <1>2, <1>3, <1>4, <1>5, <1>6, <1>7, <1>8, <1>9 DEF Next, Driver, Caller

(* init_rtc answers only with a crystal that is ready: it gives no answer  *)
(* to a dead one, whose error init_sd_fat32 would log and go on            *)
(* (sd_fat32.c:91, rcc.c:452, RTC.c:34).                                   *)
THEOREM NoAnswerWithoutCrystal ==
  Spec => [][op = "init" /\ pc' = "idle" /\ UNCHANGED resets => hse = "ready"]_vars
<1>1. Init => CrystalInv
  BY DEF Init, CrystalInv
<1>2. IInv /\ CrystalInv /\ [Next]_vars => CrystalInv'
  BY CrystalStep DEF IInv
<1>3. ASSUME IInv, CrystalInv, Next, op = "init", pc' = "idle", UNCHANGED resets
      PROVE  hse = "ready"
  <2> USE <1>3
  <2>1. pc \notin {"idle", "read"}
    BY DEF IInv, CallInv
  <2>2. CASE Driver
    BY <2>1, <2>2 DEF Driver, InitRtc, AwaitHse, EnableRtc, EnterInit, Write, ExitInit, ClearRsf,
       AwaitFirst, AwaitSync, Read, Finish, Goto, CrystalInv, BehindInitf
  <2>3. CASE Caller
    BY <2>1, <2>3 DEF Caller, Get, Set
  <2>4. CASE Hardware
    BY <2>1, <2>4 DEF Hardware, Tick, Copy, InitMode, HseStarts
  <2>5. CASE Reset
    BY <2>5 DEF Reset, IInv, TypeOK
  <2> QED
    BY <2>2, <2>3, <2>4, <2>5 DEF Next
<1>4. IInv /\ CrystalInv /\ [Next]_vars
        => [op = "init" /\ pc' = "idle" /\ UNCHANGED resets => hse = "ready"]_vars
  BY <1>3
<1> QED
  BY Invariance, <1>1, <1>2, <1>4, PTL DEF Spec

(* Every variable keeps its type, whatever is written to the year register *)
(* (RTC.c:72, RTC.c:131).                                                  *)
THEOREM TypeCorrect ==
  Spec => []TypeOK
<1>1. IInv => TypeOK
  BY DEF IInv
<1>2. QED
  BY <1>1, Invariance, PTL

(* Although get_datetime_rtc waits for the shadow only if nobody has done  *)
(* so before (RTC.c:164), no field it returns is older than a second:      *)
(* every way to a calendar that was written leads through a fall of RSF    *)
(* and a wait for it.                                                      *)
THEOREM NothingStale ==
  Spec => []FieldsAreRecent
<1>1. IInv => FieldsAreRecent
  BY DEF IInv
<1>2. QED
  BY <1>1, Invariance, PTL

(* The year that set_datetime_rtc takes (RTC.c:58) goes through four bits  *)
(* for every digit (RTC.h:118), the calendar's carries and the shadow, and *)
(* is the year that get_datetime_rtc returns (RTC.c:174).                  *)
THEOREM SetYearIsRead ==
  Spec => []YearKept
<1>1. IInv => YearKept
  <2>1. SUFFICES ASSUME IInv, pc = "read", reads > 6, asked # 0
                 PROVE  \E s \in seen : got["year"] = s[2]
    BY ReadOrderFacts DEF YearKept
  <2>2. 6 \in 1..(reads - 1)
    BY <2>1 DEF IInv, TypeOK
  <2>3. PICK s \in seen : got["year"] = s[1]["year"] + Offset("year")
    BY <2>1, <2>2, ReadOrderFacts DEF IInv, FieldsAreRecent
  <2>4. s[2] = s[1]["year"] + BSD_START_YEAR
    BY <2>1 DEF IInv, YearInv, KnownInv
  <2>5. QED
    BY <2>3, <2>4 DEF Offset
<1>2. QED
  BY <1>1, Invariance, PTL

(* set_date_rtc writes the year without its offset (RTC.c:131): of three   *)
(* digits the tens keep four bits.  Whatever year it takes, on a day that  *)
(* stays in its field, is read back 60 years late.                         *)
THEOREM DateIsSetLate ==
  ASSUME NEW c \in Moment, NEW a \in Arguments, ~Refused("set_date", a), a.week \in {0, 1}
  PROVE  Written(c, "set_date", a)["year"] + Offset("year") = a.year + 60
<1>1. a.year \in Nat /\ 1980 <= a.year /\ a.year <= 2079
  BY RtcAssumption DEF HalfWord, Refused, BSD_START_YEAR, BSD_MAX_YEAR
<1>2. Written(c, "set_date", a)["year"] = YearRegister(a.year, a.week)
  BY DEF Written, Field, TrField, SetsDate, YearWritten
<1>3. PICK tens \in Nat, units \in Nat :
        a.year = 10 * tens + units /\ units < 10 /\ a.year \div 10 = tens /\ a.year % 10 = units
  <2>1. \A y \in Nat : /\ y \div 10 \in Nat /\ y % 10 \in Nat /\ y % 10 < 10
                       /\ y = 10 * (y \div 10) + (y % 10)
    BY SMT
  <2>2. QED
    BY <1>1, <2>1
<1>4. 198 <= tens /\ tens <= 207
  BY <1>1, <1>3
<1>5. tens % 16 = tens - 192
  BY <1>4, SMT
<1>6. Units(a.year, a.week) = units
  BY <1>3 DEF Units
<1>7. YearRegister(a.year, a.week) = 10 * (tens - 192) + units
  BY <1>3, <1>5, <1>6 DEF YearRegister, Tens
<1>8. QED
  BY <1>1, <1>2, <1>3, <1>4, <1>7 DEF Offset, BSD_START_YEAR
=============================================================================
