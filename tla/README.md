# stm32-sdio-fat32 in TLA+

A verification project for the firmware in `src/`: TLA+ modules of its parts,
TLC configurations that check them on small instances, and TLAPS proofs of
what matters most for instances of every size.

The firmware drives an SD card over the SDIO controller of an STM32F407 for a
FAT32 library. It has no operating system and no interrupt handler that does
work: `main` calls everything and the drivers poll. What runs concurrently
with the program is hardware: the card, which executes commands and programs
blocks in its own time; the data path of the SDIO controller (DPSM), which
moves blocks and latches flags; a DMA stream and the transmitter of the UART;
the oscillators; the calendar of the real-time clock. Most of what is hard
about this code is the polling of that hardware, and what is left of a call
that failed half-way when the next call begins.

## 1. The parts of the system

| part | code | modules |
| --- | --- | --- |
| SD transfers and erase | `drivers/devices/SD/SD.c`, the retry loops of `middleware/sd_fat32.c` | `SdTransfer`, abstractly `BlockDevice`, over `SdBlocks` |
| SD card initialization | `init_sd`, `init_sd_card` in `SD.c` | `SdInit`, with `SdCsd` |
| Block adapter | `read_sd`, `write_sd`, `clear_sd` in `sd_fat32.c` | `BlockAdapter`, abstractly `BlockDevice` |
| File buffer | `sd_fat32_open`, `_write`, `_flush`, `_close` in `sd_fat32.c` | `FileBuffer` |
| Pool allocator | `allocator/pool_memory.c` | `PoolMemory`, step by step `PoolScan` |
| Clock tree, derived clocks | `rcc.c`, `timer.c`, `init_rcc` in `main.c`, dividers in `usart.c`, `RTC.c`, `sdio.c` | `ClockTree`, run by `Boot` |
| Real-time clock | `RTC.c`, `configure_rtc_clock_rcc` in `rcc.c` | `Rtc` |
| Logging | `logger/log.c`, `usart_board.c`, `usart.c`, `dma.c` | `UartLog` |
| Start of the program | `main.c`, `init_sd_fat32`, `init_fat32` in `sd_fat32.c` | `Boot` |
| CSD register, erase chunk | `read_csd_data`, `get_optimal_erase_chunk` in `SD.c` | `SdCsd`; the chunk, never asked for, not |
| DMA write to the card | `write_blocks_dma` in `SD.c` | not modelled: never called |
| FAT32 library | a git submodule, empty here | external; modelled where it is used |
| GPIO, LEDs, IRQ, FPU, power, flash | `drivers/core/` | not modelled: single register writes |
| Device tests | `middleware/sd_fat32_test.c` | one step of `Boot` |
| Startup, linker scripts, stubs, build | | not modelled: vendor code, configuration |

How they interact:

    main -> init_board -> init_rcc (ClockTree), init_timer, UART (UartLog)
         -> init_sd_fat32 -> init_rtc (Rtc), sd_card_init (SdInit),
                             init_fat32: mount | format, mount again (Boot)
         -> tests -> sd_fat32_open/_write/_flush/_close (FileBuffer)
                       -> FAT32 library -> pool_alloc ... (PoolMemory)
                                        -> read_sd, write_sd (BlockAdapter)
                                             -> read_safe_sd, write_safe_sd,
                                                erase_sd (SdTransfer)

All of these are calls; the shared state is `sd_device`, the SD handle with
RCA, version and last card state, and the pool. The FAT32 library calls back
into the block adapter through function pointers that `init_fat32` sets.

For each part its state, what is hard about it, and what makes it correct:

**Transfers.** State: the retry counter, the poll counter of
`wait_card_ready`, flags latched in `SDIO->STA`, whether the DPSM is armed,
and in the card its state, pending error bits, and a half-given erase
sequence. Hard: the loop that feeds the FIFO ends on any of five flags; a
failed attempt leaves the card sending, receiving or programming and the next
attempt meets it there; CMD18 arms the data path before it is answered; the
clear mask lacks `STBITERR`; error bits of an earlier command fail a later one
that was executed. Correct: an answer of 0 means carried out, nothing outside
the request is touched, every request is answered.

**Initialization.** State: pc, attempts, trials, RCA, version, bus width; in
the card state, address, bus width. Hard: answers lost after the card obeyed;
a processor reset while the card keeps its state; the retry that depends on an
uninitialized local (`SD.c:349`). Correct: a success means that driver and
card agree on address, width and addressing; a clean attempt recovers from
what the last one left; without a card there is an error and not a hang.

**Block adapter.** State: the temporary block, the blocks held from the pool.
Hard: read-modify-write of a shared block, failures between its two halves,
a full pool, arithmetic in bytes. Correct: exactly the sectors asked for are
read and written, the rest of a shared block is kept, no block leaks.

**File buffer.** State: buffer, index. Hard: a failed write leaves the buffer
full, and the next call must write it once. Correct: every byte taken reaches
the file once and in order; no write loops for ever.

**Pool.** State: bitmap, `last_free_block`. Hard: the hint moves with each
grant and free; two passes with their own counters. Correct: no byte is held
twice, none leaks, an allocation fails only for want of room.

**Clocks.** State: oscillators, selected and actual clock, wait states,
dividers, and what the timer, the UART, the RTC and the SDIO controller derive
from them. Hard: three configurations, each of which may fail half-way and
leave oscillators on; a crystal that stops, also while a driver relies on it;
the order of wait states and switch. Correct: the flash is never read too
fast, the board ends with a clock, and the derived clocks are within the
limits of their devices whichever configuration it was.

**Real-time clock.** State: protection, initialization mode, shadow registers,
the calendar. Hard: two clock domains; copies of the calendar awaited once in
the life of the program. Correct: fields read are recent, years set are read
back, calls return.

**Logging.** State: the buffer on the stack, the data and shift registers, the
stream. Hard: with DMA the stream reads the buffer after its frame is gone.
Correct: polled lines are whole, in order, and sent when the call returns.

**Start.** State: the step, LEDs, what the card holds. Hard: a failed mount
leads to formatting, resets and a card pulled out come at any point. Correct:
LED 14 signals only success, files survive, a start that nothing disturbs
ends at work.

`PROJECT.json` lists under `hazards` the places of the code where these things
bite, with the properties aimed at each.

## 2. The models

A definition that names what it gets wrong and precedes the one it varies
(`ReturnForever` before `Return`) is a seeded fault: with it in place the run
must find the paired property violated. The models themselves do not use it.
`PROJECT.json` maps every other definition to its lines.

### SdBlocks, BlockDevice

`SdBlocks` has blocks, requests and what a request asks of each block.
`BlockDevice` is what a caller of the driver may rely on: a request is
submitted, then any of its blocks may be carried out, one after another and
more than once, and it ends with an answer; an answer of 0 only when each has
been carried out or the card itself lost it. Blocks outside the request, and
anything between two requests, do not change. It is the abstract specification
both of `SdTransfer` and, with sectors for blocks, of `BlockAdapter`.

### SdTransfer

`read_safe_sd` and `write_safe_sd` over `read_multi_block_sd`,
`read_single_block_sd` and their writing twins, `erase_sd`,
`wait_card_ready`, `CmdResp1Error`. One action per command and answer, one per
block moved, one per check; `pc` names the call or the command to send next.
`Exchange` are steps that send a command, `DataPhase` the moving blocks and
their faults, `Environment` the card and the DPSM by themselves. A fault is
drawn from a budget: a command lost or garbled (the card then reports
COM_CRC), an answer lost or garbled, any data flag in any block, a block the
card fails to program. The card ignores a command that is illegal in its
state, stays silent, and reports it in its next answer. The card is
external and follows the SD state machine as far as this driver exercises it.

Properties: `OkMeansCarriedOut`, `SuccessLeavesNothingPending`,
`EndMeansAllMoved`, `RetriesAbsorbDataFaults`, `EveryRequestAnswered`, and
`ImplementsBlockDevice`.

`CheckClass` is the class check of `erase_sd`, on the set `Classes` of the
card's command classes; a card without class 5 ignores the erase commands.
`ErasesOnlyWithClass5` is violated (section 4).

Abstracted: timing (a flag may come at any time), the words of a block, the
clock division.

### SdInit, SdCsd

`sd_card_init`: reset, CMD8, ACMD41 with its trials, CMD2, CMD3, CSD, CMD7,
ACMD6, CMD15 for a card that is given up. A command without an answer that the
controller does not report as sent in time (`CmdNoRespError`) ends the
initialization too; it draws on the budget of faults. `kind` says what the
card's registers say. The uninitialized local of `send_command_specific` is a choice
between both of its values. Assumed of the hardware: CCS reads 0 until the
card is powered up; a garbled command is treated as a lost one; R3 carries no
CRC, so a garbled R3 says anything.

`SdCsd` is the CSD as a set of bits: `Meant` cuts it into fields where the SD
specification has them, `Decoded` where `read_csd_data` does. The five fields
of version 1 that the code takes from the wrong word are named by `Misread`.
The kinds of card of `MCSdInit` carry registers with their version, capacity
and a bit in every field that the code's shifts touch.

Properties: `OkMeansAgreed`, `FieldsAgree`, `WideOnlyTogether`,
`CleanInitSucceeds`, `AbsentCardIsReported`; `ReadyCardIsTaken` is violated
(section 4).

### BlockAdapter

The arithmetic from sectors to blocks with the widths of the code (`Word` for
2^32), the read-modify-write of a last partial block, the temporary block,
every error path, and a reset at any point. The driver below it is
`BlockDevice` step by step: it stores and fetches blocks, loses one, fails.
`Fits` is what is assumed of the FAT32 library, whose source is not in the
repository: requests begin on a block boundary, and `clear_sd` is asked only
what it gets right.

Properties: `NothingHeld`, `ImplementsBlockDevice`; the latter is violated when
the card is larger than `Word` (section 4).

### FileBuffer

`sd_fat32_open`, `_write`, `_flush`, `_close`. The FAT32 library appends all
it is given or fails and appends nothing; what a partial append would do is
not in the repository. Properties: `EachByteOnce`, `CallsReturn`. A close that
fails to flush and still answers 0 (`sd_fat32.c:314`) forgets what is
buffered: the model does so too, and `EachByteOnce` speaks of open files.

### PoolMemory, PoolScan

`PoolMemory` has each call as one action; `Found` is the first-fit search in
two windows. `PoolScan` replaces `pool_alloc` by its loop, one step for each
block looked at, and implements `PoolMemory` (`ImplementsFirstFit`). `live` is
a ghost: what the callers hold. They free exactly what they were given, or
pass something that is refused.

Properties: `RegionsDisjoint`, `UsedIsGranted`, `TwiceTheRoomIsEnough` (a
search may miss a run across `last_free_block`, but never one of twice the
size less one).

### ClockTree

`setup_system_config_rcc` register write by register write, over oscillators
that start in their time or never and a crystal that may stop;
`init_rcc` tries the three configurations of `main.c`, whose frequencies are
the real ones, in kHz. `wait_for_flags` may give up whenever its flag is not
up. Assumed: a clock that runs is switched to before `select_sys_clock` has
counted to its end. The actions of `Derive` are what the drivers compute later
from the clock they find: the prescaler of TIM2, the divider of USART1, the
prescalers of the RTC, the two dividers of the card's clock, in the integer
arithmetic of the code.

It has no run of its own: `Boot` uses it through
`Clocks == INSTANCE ClockTree`, with the program calling its operations and
its hardware running beside. Properties, checked there: `LatencySuffices`,
`OkMeansClocked`, `DerivedClocksInRange`, `FallsBack`.

### Rtc

`init_rtc`, the three setters, the readers. `now` is the calendar, `shadow`
what TR and DR show; reading TR locks DR until DR is read. Copies are made
many times a second, so `Tick` waits for one. The build is `-O0`: each
`GET_RTS_*` reads its register. `LastOf` is where each unit ends; the run has
units of two values, so that a few seconds carry into all of them, and years of
two digits, as the hardware has. `asked` is a ghost: the year it is by the last
call of `set_datetime_rtc`, counted on, and 0 once nobody can know it. A reader
is checked against `seen`, the calendar since a second before its call. The
weekday matters only in what its enumerator does to the year.

Properties: `FieldsAreRecent`, `YearKept`, `CallsReturn`.

### UartLog

A line from `vstm_log` to the wire. `mode` is how the UART was set up. `buff`
is the buffer on the stack, which `Clobber` overwrites once the call has
returned. "[file:line] " is taken to fit the buffer.

Properties: `LinesWhole` (polling, and a bound on what a stream sends),
`ReturnsWhenSent`, `LogReturns`.

### Boot

`main`, start after start, with one card, composed with `ClockTree`: each
driver runs on the clocks that `init_rcc` has left, and an oscillator may come
up, or the crystal stop, between any two steps. The PLL that clocks the card
is up or the card is not identified; the RTC waits for HSE. A card is selected
only if it was identified, and answers only if it was selected, since it was
put in its slot. A mount of a
readable card fails only by a fault.

Properties: `SignalsOnlySuccess`, `DerivedClocksInRange`, `FilesSurvive`,
`StartsUp`, and those of `ClockTree`; `FormatsOnlyUnformatted` is violated
(section 4).

## 3. The runs

| run | question | bounds | states |
| --- | --- | --- | --- |
| `transfer` | safety of transfers, refinement of `BlockDevice`, every request is answered | 2 blocks, 1 value and erased, 2 faults, 3 attempts, 2 polls | 552217 |
| `erase_class` | a card without class 5 gets no erase command (violated) | no fault | |
| `init` | safety of the initialization, fields of the CSD, an absent card | 5 kinds of card, 2 trials, 2 attempts, 2 polls, 2 faults, 1 reset | 7391 |
| `init_standard` | a standard card is taken (violated) | no fault | |
| `adapter` | refinement of `BlockDevice`, no leak | 6 units, blocks of 2, sectors of 1, 2 and 3 | 34754 |
| `adapter_wrap` | the same beyond a word of bytes (violated) | 8 units, a word of 4 | |
| `file_buffer` | no byte lost or repeated, calls return | buffer of 3, writes of 0, 1, 3, 7, 2 faults | 54657 |
| `pool` | invariants of the pool, the scan implements it | 5 blocks, sizes 0, 1, 2, 3, 6 | 25630 |
| `rtc` | recent fields, years, calls return | units of two, five settings, 3 seconds, 1 reset | 369651 |
| `uart` | lines, calls return | buffer of 4, lines to 5, 3 lines | 142456 |
| `boot` | clocks, LEDs, files, fallbacks, a start that nothing disturbs | the three configurations, 2 faults, 2 resets, 1 pull | 51882 |
| `boot_format` | only unformatted cards are formatted (violated) | 1 fault | |

Why the bounds suffice. Transfers: two blocks tell a single from a multiple
block transfer, first from last, inside from outside of a request; two faults
reach a fault during the recovery from a fault; three attempts are one more
than the faults, as in `write_safe_sd`; two polls tell the last from another.
Later requests meet what earlier ones left, in any number. Initialization:
counters of 2 have a last and another value. Pool: five blocks hold two
regions, a hole and a run across `last_free_block`; six is a size that cannot
fit. Adapter: sectors of a part of a block, of a block and of one and a half.
File buffer: nothing, a part, exactly a buffer, more than two. Real-time
clock: the settings put a carry through all six units within three seconds,
the last second of 2079 included, after which the year is 1980 again.
Logging: a line that is empty, fits, fills or overflows; a stream interrupted
twice. Start: a second fault or reset meets what the first left, and a card
is put back after it was pulled out at any step.

Deadlock is checked except where the program may rightly stop: `Boot` ends in
a loop of `main` or of `NMI_Handler`, `SdInit` ends with its answer or hangs,
`Rtc` waits for a clock that stands still, `UartLog` ends when its lines are
logged.

### Fairness

- The processor runs nothing but the program, so the program's step that is
  enabled is taken: `WF` of the driver's steps in every `FairSpec`. It covers
  the data phase in `SdTransfer`, since `DTIMER` ends each one.
- Hardware that is running goes on: the transmitter and an enabled stream in
  `UartLog`, copies and the initialization mode of a clocked calendar in
  `Rtc`, the switch to a clock that is up (`Clocks!Switched`) in `Boot`.
- Nothing makes an oscillator, a card or a caller start. In `Rtc` the crystal
  may start late or never; `CallsReturn` is about the behaviours in which it
  does not stay in its start for ever (`CrystalStarts`), and in no other case
  would it hold (section 4).
- No fairness of faults, resets or a card that is put back.

## 4. Where the code and its documentation disagree

Four runs show a statement of the repository violated:

- `init_standard`: `OCR_Type` (`SD.h:154-161`) is one bit short, so its busy
  field is the card's CCS bit and a standard capacity card never seems ready,
  although `README.md:43` lists SD, SDHC and SDXC. The log of `README.md:198`
  shows the shift.
- `erase_class`: `erase_sd` tests `csd.CCC & CARD_CLASS_5`, the number of the
  class for a mask (`SD.c:1237`), and so asks for class 0 or 2, of which every
  card has one; "Error class unsupported" (`SD.c:1239`) is never reached.
- `adapter_wrap`: the byte address of a sector is a `uint32_t`
  (`sd_fat32.c:193`): beyond 4 GiB sectors are served at the start of the card,
  although `README.md:67` has every operation right on an 8 GB card.
- `boot_format`: `init_fat32` formats after any failure of the mount, a read
  that failed five times included, and logs "SD card is not formatted"
  (`sd_fat32.c:67`). `FilesSurvive` has the other side: it takes a failing
  operation.

The following came up while modelling. The models contain them; properties
are stated with the condition under which they hold, and that is named there:

- `clear_sd` passes a count where `erase_sd` takes an address
  (`sd_fat32.c:242`); the run asks for ranges where both agree. The theorem
  `ClearedRange` says which they are: those that begin at the second block.
- `wait_card_ready` polls past an answer with an error bit (`SD.c:703`), so a
  block that the card reports it failed to program is answered with 0.
  `OkMeansCarriedOut` sets such blocks apart (`lost`).
- `pool_alloc` misses a free run across `last_free_block`
  (`pool_memory.c:33`), where `pool_memory.h:30` has NULL mean too little
  memory; `TwiceTheRoomIsEnough` is what holds. Sizes from 65536 are cut to 16
  bits (`pool_memory.c:19`); the proofs assume smaller ones.
- When CMD55 before ACMD6 fails, `init_sd_card` waits for ever for an answer
  to a command it did not send (`SD.c:747`); `CleanInitSucceeds` excludes it
  only in the absence of faults.
- The capacity is computed in 32 bits (`SD.c:599`), so no card is recognized as
  SDXC by its size; `OkMeansAgreed` asks only for SDSC or not.
- The capacity of a card of version 1 lacks the + 2 of its exponent, and
  `C_SIZE_MULT` and four currents are cut out of the first word of the CSD
  instead of the third (`SD.c:536`); the classes lose four bits in a `uint8_t`.
  `FieldsAgree` names these fields (`Misread`) and is about the others.
- With a crystal that never starts `timeout--` passes 0 (`rcc.c:452`), is taken
  for a success, and `init_rtc` waits for INITF for ever (`RTC.c:34`), where
  `init_sd_fat32` would log "Error launch Driver RTC" (`sd_fat32.c:91`) and go
  on. The theorem `NoAnswerWithoutCrystal` says so; `CallsReturn` excludes this
  crystal, and `Boot` then stays at `pc = "rtcWait"`.
- The fraction of the UART's divider is rounded, then masked (`usart.c:43`,
  `usart.h:19`): one that rounds to 16 sixteenths is dropped instead of carried,
  and each bit is 16 cycles too short. None of the configurations of `main.c`
  meets that, and `ConfigsInRange` excludes it.
- When `init_rcc` has fallen back to a clock other than the PLL nothing clocks
  the card, and its initialization cannot succeed (`CardInitialized` in
  `Boot`); the program ends in its error loop with a board that works.
- `set_date_rtc` writes the year without its offset (`RTC.c:131`), and every
  year it takes is read back 60 years late (`DateIsSetLate`); the
  enumerators of the weekdays are hexadecimal (`RTC.h:136`), so that a Tuesday
  sets a bit of the year; 1980 + 256 years is taken for 1980 (`RTC.c:58`).
  `YearKept` is about `set_datetime_rtc` with a year and a day that are
  `Faithful`; the run has a Tuesday too.
- At 168 MHz the prescaler for a millisecond has 17 bits (`timer.c:18`): the
  timer counts 4.5 times too fast. `OkMeansClocked` claims milliseconds on HSI
  only. The bus dividers are set after the switch (`rcc.c:66`): for a moment
  both peripheral buses run at 168 MHz.
- `README.md:44` says that logging uses DMA; `usart_board.c:47` configures
  polling, and with DMA lines are overwritten or cut off (`dma.c:83`).

## 5. Proofs

Each theorem holds for every value of the constants that the named assumptions
of its module admit. The argument is the same throughout: a strengthened
invariant `IInv` with a lemma that the initial states have it and a lemma for
each action, or each group of actions, that it is kept; the property follows
from it.

`SdTransfer_proof` (every number of blocks, attempts, polls and faults; the
assumptions are those of `SdBlocks` and `SdTransfer`):
`Invariance`, `TypeCorrect`, `EndIsNeverStale`, `OkIsCarriedOut`. The
invariants are not inductive: that a request answered with 0 was carried out
depends on which blocks had moved when the loop ended, on whether `DATAEND`
may be from an earlier transfer, and on what the armed data path of an earlier
request can still latch. `IInv` ties `DATAEND` to a complete transfer and to
the points before the flags are cleared, the blocks moved so far to the buffer
or the card, and each point of the driver to the states of the card it can
meet there.

In its second half, from the same `IInv`, what a caller may rely on:
- `Refinement`: the initial states are initial states of `BlockDevice`, and
  each action is one of its steps or a stutter: a block that moved is `Store`
  or `Fetch`, a failed programming `Lose`, a return `Succeed` or `Fail`, the
  rest stutters. That `Succeed` is enabled is `OkMeansCarriedOut`.
- `SuccessIsClean`: `QInv` adds to `IInv` where an erase sequence may have
  begun, that `DATAEND` disarms the data path, and what the check of the flags
  leaves latched in each direction.
- `RetriesSuffice`: `CInv` follows a request that has met nothing but data
  faults: the faults so far and the attempts left add up, and at each point
  the card is in the state the driver's next command needs.

`SdInit_proof` (every set of cards, every number of trials, attempts, polls,
faults and resets): `TypeCorrect`, `OkIsAgreed`, `FieldsAreRead`,
`NeverWiderThanCard`, `CleanInitIsEnough`. `IInv` says what the driver has
learnt at each point (`Identified`), how far the card must have come for it to
be there (`Selected`), and, since the last reset of the processor and without a
fault, that card and driver are in step (`CleanRun`).
`RegisterIsReadAsMeant` is about the register alone: for each of its 2^128
contents the decoded fields are the meant ones, but for `Misread`.

`FileBuffer_proof` (every size of buffer and write, every number of failures):
`TypeCorrect`, `NoByteIsLostOrRepeated`. `IInv` says that the file is 1, 2, 3
and so on, and that the buffer goes on where it ends, also when it is full.

`PoolMemory_proof` (every pool smaller than `Word`, sizes below `Word`):
`TypeCorrect`, `NobodyShares`, `NothingLeaks`, `RoomIsFound`. `IInv` says that the bitmap is
the disjoint union of what is granted, that each region lies in the pool, and
that nothing is held before `pool_init`;
`RoomIsFound` splits a long run at `last_free_block` and finds the size in one
of the halves. `ScanIsFirstFit` is the refinement: `ScanAt` says what the loop
knows before each block it looks at, that no run that is long enough begins in
its window before the free blocks just counted, and so the step that grants is
the call of `PoolMemory`, and so is the step that gives up.

`BlockAdapter_proof` (every card, size of block and of sector, word and set of
requests): `TypeCorrect`, `BlockIsReturned`, `Refinement`. `IInv` has, for each
point of a call, which blocks the driver still has to serve, and for the second
half of a shared block that the temporary one holds what the card does. The
refinement adds `RInv`: a unit of the request that is not in a block still due
has been served or is lost. It is proved for requests that `Fit` on a card that
`Word` covers (`AllFit`); beyond, it is false (`adapter_wrap`). `ClearedRange`
is about the arithmetic of `clear_sd` alone: which requests to erase can fit.

`Boot_proof` (every number of faults, resets and pulls, and every list of
configurations that `BootAssumption` admits): first the program. `TypeCorrect`,
`SignalIsTrue`, `FilesAreSafe`: the LEDs and the mount are tied to the step of
the program (`Signals`); until an operation fails a card that answers and is
about to be formatted, or just was, has no files (`NothingToLose`).
`ImplementsClocks` says that every step of the program is a step of `ClockTree`
or leaves it alone.

Then the clocks, under the program, its resets and its drivers, with
oscillators that come, stay away or stop at any step:
- `ClockTypes`, `NeverTooFast`. `LatencySuffices` is not inductive, since the
  switch comes after the wait states: `ClockInv` says that until the switch
  the wait states suffice for the PLL that was configured too, that the PLL
  drives the processor only where it may, and that they are lowered only for a
  clock that is slow.
- `RunsAsConfigured`. A configuration that failed may leave an oscillator half
  started and a PLL other than the one of the next. `Settled` has, from the
  switch on, the selected clock ready and the one the call asks for, and the bus
  dividers once it has succeeded (`OnItsClock`); `PLLCFGR` always with its
  reset value or one of the configurations (`KnownPll`); and the prescaler of
  the timer and the divider of the UART derived from the clock that drives them
  now (`DividersCurrent`).
- `DevicesInRange`. `Devices` ties what a driver has derived to the step of the
  program. The bits of the UART are within a quarter of a percent because its
  divider is a few hundred at 24 MHz or more, and by inspection at 16 MHz.

The assumptions on the configurations are `ConfigsOK` (between 0 and 168 MHz)
and `ConfigsInRange`, which `RunsAsConfigured` and `DevicesInRange` need:
APB1 within 42 MHz, APB2 at 16 MHz or from 24 to 84 with a fraction of the
UART's divider below 16, 48 MHz for the card. TLC
evaluates both on the configurations of `main.c` in the run `boot`.

`UartLog_proof` (every size of buffer, length and number of lines):
`TypeCorrect`, `NothingAddedOrLost`, `SentOnReturn`. The wire, the shift and the
data register and what the loop has left of the buffer always make up the lines
logged, in order; a call that has returned has an empty transmitter. For DMA the
bytes the stream may still move and those sent never exceed those logged.

`Rtc_proof` (every argument of the setters, units of any length, every number
of seconds and resets): `TypeCorrect`, `NothingStale`, `SetYearIsRead`,
`NoAnswerWithoutCrystal`.
`get_datetime_rtc` waits only while `is_sync_date_rtc` is 0, which it never is
when the clock is initialized (`CallInv`); so all depends on what the setters
and the hardware leave. `ModeInv`: initialization mode and RSF exclude each
other, the calendar runs between the calls, and the copy of DR waits only while
a reader is between TR and DR. `ShadowInv`: whenever RSF is up every field of
the shadow is one the calendar has had since a second ago. `YearInv` and
`KnownInv`: a year that is known is the calendar's, in all of `seen`. The
arguments' units lie in their ranges (`RtcAssumption`; the setters do not check
them), years are any 16 bits. `DateIsSetLate` follows the year of
`set_date_rtc` through the two digits of the register. `CrystalInv`: in
`init_rtc` INITF is not up, and no step behind the wait for it is reached,
without the crystal.

Every safety property, action property and refinement that a passing run checks
is proved. Only model-checked: liveness (`EveryRequestAnswered`,
`AbsentCardIsReported`, `CallsReturn` of `FileBuffer` and of `Rtc`,
`LogReturns`, `FallsBack`, `StartsUp`), which the prover does not reach.

## 6. Not modelled

- `get_optimal_erase_chunk` and `write_blocks_dma` (`SD.c`): nothing calls
  them, and nothing sets up the DMA stream the latter expects. It would pass
  the address of its parameter instead of the buffer's and multiply the block
  address of an SDHC card by 512.
- The FAT32 library is a submodule that is empty here. What the code expects
  of it is in `BlockAdapter`, `FileBuffer`, `PoolMemory` and `Boot`; a write
  that appends a part of its data and then fails is not, since nothing says
  whether it can happen.
- GPIO, LEDs, interrupt controller, FPU, power, flash: single register writes
  without state of their own. Startup code, linker scripts and stubs: vendor
  code and configuration.
- `delay_timer` and `enable_and_reset_rcc`: a wait and three register writes.
- The device tests print what they find; `Boot` has only what they do to the
  card.
- Results that are only logged or returned to callers that are not in the
  repository: `sd_fat32_exists` answers 0 for a path that exists, while the
  example in `README.md:154` tests it as true.

What could be added: `FileBuffer` over a library that appends through
`BlockAdapter`, and `BlockAdapter` over `SdTransfer` instead of `BlockDevice`.
The two refinements already fit together: `SdTransfer` implements the block
device that `BlockAdapter` is written over.
