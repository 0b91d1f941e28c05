# Mysook: a TLA+ verification project

Mysook is a family of small lit-up devices (a hat sign, a toddler clock, an
on-air light, a door light), the Arduino libraries they share, and the web
services they fetch their programs and alarms from. This directory holds
TLA+ models of that code, TLC configurations that check them on small
instances, and proofs that TLAPS checks for every value of the constants.
Paths below are relative to the repository's root (`src/` in `PROJECT.json`).

## 1. Inventory

### The shared device libraries (`device/lib`)

| Component | State | Operations | What is hard, what makes it correct |
|---|---|---|---|
| Ticking timer (`Firmware/Firmware.h`, `Firmware.cpp`) | `previous_tick`, `next_tick`, `rollover` | `ready_for_tick`, `nudge_tick`, `reset_tick`, `next_tick_after` | The microsecond counter wraps every 71 minutes. A timer must never be early, never run ahead of the clock and, as far as the code allows, never miss a tick. |
| Ticker array (`Firmware/Firmware.h`) | array of pointers, count, capacity | `add` (with `stretch`), `remove`, `run` | Growth while an entry is being added, removal from the middle; it is the list of everything a firmware does. |
| Firmware loop (`Firmware/Firmware.h`, `Firmware.cpp`) | pre-tickers, post-tickers, the main timer | `setup`, `loop`, `start`, `tick`, `idle` | One thread of control: whatever a ticker does, the next pass must come. |
| WiFi network (`MC_Network`) | connection memory, `current`, scan in progress, `connect_status` | `tick`, `find_connection`, `begin_connection`, events | Written by the loop and by the WiFi task at the same time; asynchronous scan. |
| UDP listener (`Network`, `MC_UDP.h`) | listener socket, handlers | `tick`, dispatch | At most one packet per pass, only while connected. |
| LED, button (`LED.h`, `Button.h`) | blink phase, last level | `tick` | Sampling a level that changes between polls. |
| Panel, glyphs, RTC, RF24, Receiver | pixels; date fields; a ring of messages | drawing; date arithmetic; `store`, `notify` | Carries across midnight and month ends; a ring written and read at the same end. |

### The devices

| Component | State | Interaction |
|---|---|---|
| Hat sign (`device/hatsign/src/nametag.*`) | the fetched flag, the flipper's signal, the current VM, `web_binary` | Its main tick fetches a queue of programs over HTTP, flips to the next program on a signal from the flipper (30 s) or from a UDP packet, starts over on another UDP packet, and puts the built-in program in the place of a VM that halted. |
| Program fetcher (`nametag-fetch.*`) | up to 32 pointers to reference-counted programs, an index | Called from the main tick only; fails at any request or read. |
| Nametag virtual machine (`vm.h`) | program counter, stack, segment, heap of registers, sub index, tick mode | A post-ticker of the hat sign; runs words the web gave it, in slices of bounded time. |
| Toddler clock (`device/tclock`) | the alarm, `pinged`, what the real time clock shows, a watchdog | Fetches the time and the alarm over HTTP every ten seconds, is pinged over UDP. |
| NoPush button, igniter, on-air switch and light, door light, older nametag | a few flags each | They send or poll for the small messages the others react to. |

### The services and tools

The nametag service (`service/nametag`, Raku) keeps programs, queues of them
and nonces in a database, which all its requests reach over one connection, and
validates programs; the toddler clock service
(`service/tclock`, Raku) keeps one alarm and one time zone offset, each in a JSON
file, and answers GET of the time with the latter; the Go package
`internal/image/manic` writes the animations the devices read. BearSSL,
a copy of Adafruit GFX and an HTTP client are vendored. `PROJECT.json`
lists every component with its status.

### Where the difficulty is

- **wrapping arithmetic**: timers, registers of the VM, date fields;
- **bytes from outside run as a program**: nothing between the network and
  `VM::step_exec` checks a word;
- **pointers with a life of their own**: a program is referred to by the list,
  by `web_binary` and by the running VM, and each learns of its deletion in a
  different way;
- **partial failure**: a queue is a dozen HTTP requests, each of which can stop
  half way and is retried 100 ms later from the beginning;
- **lists that change while they steer the loop**: `remove` is called from a
  tick that the loop is in the middle of;
- **requests that share what they change**: one database connection, with one
  transaction at a time on it, and files, truncated before they are written;
- **the WiFi task**: the only true concurrency on a device, changing `connected()` (and the
  network's `current`) between any two steps of the loop.

## 2. Modules

| Module | Models | State and actions against the code |
|---|---|---|
| `Timer` | `TickingVariableTimer` | Its three fields and the counter it is polled with. `Advance` is a pass of the loop, `Fire`/`NotReady` are the two outcomes of `ready_for_tick`, `Nudge` is `nudge_tick` and `next_tick_after`, `ResetTick` is `reset_tick`. The width of the counter is a parameter. `laps` and `wait` are history variables. |
| `TickerList` | the abstract specification | A sequence, the position a pass is at, and `FirstHalf` for `remove`. |
| `TickArray` | `mysook::TickArray`, loop by loop | The array is zero based, a slot of a new array is `Uninit` until it is written, each turn of each loop is a step. It implements `TickerList` under `list <- Live`. |
| `Hatsign` | `NameTag`, `NameTagFlipper`, `NameTagFetch`, `UdpListener`, `Firmware::loop` | Composes two instances of `TickerList` (pre- and post-tickers) with the fetcher, the signal, the VM as the firmware sees it, and the heap of program objects with their reference counts. One action per handler; where a handler makes HTTP requests (and takes seconds) it is cut at each entry of the reply, so that WiFi events fall between them. |
| `VM` | `VM` in `vm.h` | Machine `m` has the program counter, stack, registers, tick speed and the panel's settings. Each instruction is an action (`Op...`), each frame of a tick mode too (`Mode...`); `Turn` is the loop of `tick_exec`, `Overrun` its time slice: `tick_start + MAX_TIME_SLICE < get_micros()` on a counter that wraps at `ULONG_MAX`, read after each instruction, which takes one of `Durations`. `Begin`, `ScanStep`, `FinishBegin` are `begin()` and `scan_subs()`. Words have `WordBits` bits, signed where the code casts to `int`. |
| `CallStack` | the abstract specification of calls | The position of the next instruction, the running sub's segment, and the unfinished calls as a sequence of return addresses and segments; `Call`, `Return`, `Move`. |
| `VMCalls` | `jump_sub` and `return_sub` as a program sees them | Extends `VM` with two history variables: `calls`, the calls a program has made and not returned from, and `loose`, set once it reaches below its segment (pops more than it pushed there, sets the segment's register, or writes below it: `Meddles`). The record follows the instructions, never the words on the stack. It implements `CallStack`. |
| `WiFiNetwork` | `MC_Network` on the ESP32 | `Pass` is `ready_for_tick` and the first return of `find_connection`; `ScanNetworks` and `ScanComplete` its two calls that count, `Look` one turn of its inner loop, `PickNetwork` and `Fallback` its two ends (with `begin_connection`), `HandleWifiEvent` the callback of the WiFi task. The radio (`ScanDone`, `ScanFails`, `JoinSucceeds`, `JoinFails`, `LinkLost`) is the environment, in the terms in which this code uses it. `since` and `lapped` are history variables. |
| `AlarmFile` | the toddler clock service's alarm | `Put` is the fetch and merge of a PUT (`enmesh`), `Open` and `Write` are the two halves of `spurt` (it truncates, then writes), of any of `Users` at once; `Die` is the service's end and restart. `body`, `expected` and `spoilt` are history variables. |
| `ZoneFile` | the service's time zone | `ZonePut`, `ZoneOpen`, `ZoneWrite` and `ZoneDie` in the same way, of a file of which only matters whether it can be read: the stores under way are counted, and the offset is left out. |
| `ToddlerClock` | `TClock`, `TClockConfig`, the packet handler | Extends `AlarmFile` and `ZoneFile`, the two files of one service, which ends with both (`Service`). One pass of the loop is `Udp` (or `Ping`, `Zostayify`, with a packet), `ConfigTick`, `FetchTime` and `FetchAlarm` (each only while its file can be read) or their failures, `Draw`; what it shows is the operator `Phase`, with `TransitionStart` and `BeforeTime` as in `tclock.cpp`. The network, the service, the chip's drift and a restart (the watchdog, the power) act between any two steps. |
| `ProgramQueue` | the abstract specification of the nametag service | Programs, queues as sets of placed programs, and three operations, each in one step: `Save`, `Enqueue`, `Replace`. |
| `QueueDB` | `DB.pm6`, and the requests of `Routes.pm6` that use it | A statement is a step. `Begin`, `Commit`, `CommitLoad`, `Rollback` are `txn` with its ENTER, KEEP, UNDO and its one retry; `Save`, `Load`, `Create`, `Look`, `Insert`, `Check`, `Clear`, `Fill` and `Take` the statements between them. The database (`db`, what is committed of it in `durable`, whether a transaction is `open`, whether the connection is `alive`) is the environment, in the terms in which this code uses it. It implements `ProgramQueue` until two transactions cross. |
| `TimerProofs`, `TickArrayProofs`, `VMProofs`, `VMCallsProofs`, `HatsignProofs`, `WiFiNetworkProofs`, `ToddlerClockProofs`, `QueueDBProofs` | | Theorems and proofs about the modules they extend. |
| `MCTimer`, `MCHatsign`, `MCVM`, `MCVMCalls`, `MCWiFiNetwork`, `MCToddlerClock`, `MCQueueDB` | | Constants for TLC. |

Every module that is checked also holds, above the definition it changes, one
or more definitions marked `(wrong: ...)`. They are what a plausible bug would
have made of that definition; nothing uses them, and each serves to show that a
property notices: with the wrong definition in place TLC must report the
property violated (`PROJECT.json`, `mutants`).

### How the modules fit together

`Hatsign` abstracts a VM to what `NameTag` can see of it (which one, halted or
not, whose words) and allows it to halt or, for a web program, to trap at any
tick. `VM` has the rest and shows what those two words stand for: a division by
zero traps, the stack's limits and invalid words halt. `Hatsign` allows any
timer to be ready or not at any poll; `Timer` shows when it is. `Hatsign`'s
lists are `TickerList`'s, and `TickArray` is proved to implement that. Where
`Hatsign` lets `connected()` change between any two steps, `WiFiNetwork` shows
what makes it change, and that it settles on the truth. `ToddlerClock` takes its
connection from the same place, in the same way, and composes the device with
its service: the alarm that `FetchAlarm` reads is the file that `AlarmFile`'s
requests are in the middle of writing.

## 3. Runs

| Run | What it asks | Bounds, and why they are enough |
|---|---|---|
| `timer` | A timer is never early (`NeverEarly`), its schedule never overtakes the clock (`NeverAhead`), and a due tick is missed in one case only (`MissOnlyAcrossWrap`). | A 4-bit counter, waits 0, 3 and 7, gaps up to 3, three laps: every alignment of schedule, poll and wrap happens. The theorems remove the bounds. |
| `timer_rollover` | The comment over `ready_for_tick` says rollovers are accounted for. **Violated**: a schedule that did not wrap is not ready after the counter did. | as above |
| `ticker_array` | The loops of `TickArray` stay in the array (`LoopInv`) and implement the list (`Implements`). | Up to seven entries, starting with two slots and growing by two: three stretches, odd and even lengths, tickers absent, first, middle, last and repeated. |
| `vm_safety` | Memory bounds (`NoOverread`, `StackBounds`), settings kept twice (`SettingsMirrored`, `CursorMirrored`), what a frame of a tick mode uses up (`ModeConsumes`), where `OP_RETURN` in main leads (`MainReturnEnds`); and until a program reaches below its segment, that the frames of its unfinished calls are as `jump_sub` left them (`FramesKept`) and that calls and returns nest (`CallsNest`, which is `CallStack`). | All programs of up to three words over an alphabet with one instruction of each kind, and written programs that reach every instruction, both limits of the stack and calls within calls, with words of their own between the frames, and one whose sub takes its own frame off and makes another. A stack of 8 words instead of 4,096, a heap of 11, a panel of 3 by 2, 16-bit words so that TLC's integers hold every product. A clock of four values, slices of one. |
| `vm_live` | Every tick whose slice does not end within an instruction of the wrap gives the loop back (`TickReturns`), every tick mode ends (`TickModeEnds`), and `OP_RETURN` in main halts a program that only its terminator ends, or traps when its last word divides (`MainReturnHalts`). | The written programs, and a return to a last word of every kind; a clock of six values, slices of two, instructions that take no, one or two units: a slice ends before the wrap, in the excepted stretch, or wraps itself. With the exception one unit narrower TLC finds a program that loops and keeps the loop for ever. |
| `vm_main_return` | The comment in `begin()`, "Make it so OP_RETURN in main will halt". **Violated**: the frame is `max_ptr - 1`, which may be an operand. | one program |
| `hatsign` | The lists stay right (`ListsSound`), the VM is owned once (`VmOwned`), reference counts are entry counts (`CountsSound`), a VM runs the entry the index has just passed (`RunsListedProgram`), and what a reset costs (`DeafAfterReset`); a halted VM is replaced (`HaltRecovers`), every program of a fetched queue is shown (`EveryProgramShown`). | A program list of two instead of 32, replies of up to three entries over two programs, three heap objects of which one may leak: the list fills, overflows, repeats a program, and fetches fail at every point. |
| `queue` | What an answer promised is kept (`AckedKept`), no row is left without its program or queue (`NoOrphans`), and until two transactions cross what is committed changes as the state of an atomic store does (`Implements`). | Two clients, three requests that write and any number that do not, one program stored and one that may come to be, two names of which one is too long for its column, a list to set that names both programs, the same with an id between them that is none (the PUT that is answered 400). Two requests are enough to cross, a third to see what they left; the connection may be lost at any step. |
| `clock` | What the clock shows is right around the hour and around midnight (`PhaseRight`); stores one after the other add up (`StoresAddUp`); an unreadable file stays so (`Bricked`); a stored alarm reaches the clock (`AlarmArrives`), the time too while the time zone can be read and until a ping (`TimeArrives`), which ends the setting of the clock (`PingLosesTime`). | A day of three hours of four minutes and times of day at midnight, on the hour and within one, so that every borrow happens; two stores at once, of either file or of both; alarms of two lengths in JSON, so that a longer one may be overwritten in part; any number of restarts. `PhaseRight` is proved for every day and alarm. |
| `network_safety` | The status settles on the truth (`StatusSettles`), the strongest configured network is picked (`PicksStrongest`), an attempt has its time (`AttemptLeftAlone`), and the next look is late only across a wrap (`SilentOnlyAcrossWrap`). | Two configured networks; scans that find none, another, both in either order of strength, or one twice; a clock of five, timeouts of two, so that a schedule wraps or does not; up to two events on their way, so that news of an older link arrives after a newer attempt began. A byte that counts to five keeps the bogus counts 3 and 4 apart from the real ones, up to two. |
| `network_live` | The sign is connected again after any loss (`Reconnects`). | The first network of the memory, the one fallen back to, is out of reach; scans show the other one or a stranger; a clock of three, a byte of four. |
| `network_byte` | The comment over the fallback, "No configured network was found". **Violated**: the branch is taken while the first scan is still running. | as `network_safety` |

**Deadlock** is checked in every run but the two of `Timer`, where the history
variable `laps` reaches its bound.

**Fairness.** `VM`: the loop polls a VM that has not halted again and again
(`WF(TickExec)`); a tick, once begun, goes on, for `tick_exec` is a plain call, and
meanwhile time does not stand still (`WF(TimedStep)`: single instructions may
take no measurable time, endlessly many may not). Nothing is assumed of when a
slice ends; the code's test decides. `Hatsign`: the loop never stops
(`WF(LoopStep)`): every HTTP request times out, a reply is finite, and a tick of the
VM returns. For the last it leans on `TickReturns` and so leaves out the slices which
that excepts; they need a program that loops without a tick and a tick that begins
at one of a few of 2^32 microseconds. The 100 ms main timer and the 30 s
flipper are polled on every pass and come due again and again, though not on
every pass: `SF` on the main tick and on `PollFlipper(TRUE)`. Nothing is
assumed of packets, of the network or of a fetch's success. (`Timer` shows the
one exception, a schedule overtaken by the wrap, ends when the counter comes
round.) `WiFiNetwork`: `WF` on the loop and on the arrival of events; `SF` on a
pass that takes time. Of the radio it assumes that what is asked for again and
again succeeds now and then (`SF` on `JoinSucceeds`, on a scan that starts, and on
one that shows a configured network and ends while `scanning` is set). The last
is the strongest assumption: the passes alternate between `scanNetworks` and
`scanComplete`, results that come before a turn of the former are thrown away,
and the radio knows nothing of that alternation. `ToddlerClock`: `WF` on the pass
(a fetch times out) and on the ten seconds (`Elapse`); `SF` on each of the two
fetches' success, while the clock is connected and the file that the service reads
for it can be read, `time-zone.json` for the time and `alarm.json` for the alarm: what
is asked again and again is answered some time. Nothing is assumed of the service's
stores, of which at most `MaxRequests` are under way at once, of its restarts, of
packets or of the clock's restarts.

### What the code does that a reader may not expect

These hold of the code and are in the model; no comment or document of the
repository says otherwise, except for the runs marked "violated".

- `TickArray::remove` keeps the first half of the list, whatever it is asked to
  remove. The hat sign calls it with four pre-tickers, so a reset removes the UDP
  listener together with the flipper, and a sign once reset hears no packet
  again (`DeafAfterReset`). A second remove is never reached.
- After a reset, or a flip before the first complete fetch, the VM goes on
  running words that `clear_programs` has freed (`RunsListedProgram` says exactly
  when it does not).
- `fetch_queue` uses an object it has just deleted in a log line when the list
  is full (`UseDeleted`), and loses the object of a read that fails (`ShortRead`).
- The flipper and the UDP dispatch write one signal slot; a flip in the same
  pass wins over a reset.
- The first `find_connection` only starts a scan. Its result, -1, is 255 in a
  `byte`, so it compares 255 networks that are not there with the memory, finds
  none, and takes the branch of the fallback, where `memory[0]` becomes `current`
  (`network_byte`). A connection to it is begun there only when
  `last_fallback + FALLBACK_PERIOD < micros()`, so not in the first 30 s; later the
  same count, or that of a scan that failed (254), does begin one, and gives up an
  attempt that was under way.
- `MC_Network::ready_for_tick` compares with a schedule that may have wrapped
  and does not know. A schedule computed shortly before the wrap is in the past at
  once, so the attempt is not left alone (the exception of `AttemptLeftAlone`); one
  that stopped short of it is in the future after the wrap, for up to 71 minutes
  (the exception of `SilentOnlyAcrossWrap`).
- The time slice of a VM is tested as `tick_start + MAX_TIME_SLICE < get_micros()`, in
  32 bits. When the sum wraps and the counter does not yet, the tick is over after its
  first instruction. When the sum stops short of `ULONG_MAX` by less than the
  instruction during which the counter wraps, the end is missed for a round of 71
  minutes; at `ULONG_MAX` it is never found (the exception of `TickReturns`).
- `jump_sub` counts the words of the frame it pushes in `REG_MARK`,
  `return_sub` does not count them back.
- `OP_RETURN` in main executes the program's last word once more, on an empty
  stack. Whatever needs an operand halts there, and a division traps, by a 0
  that nobody pushed (the exception of `MainReturnHalts`).
- `TClockConfig::ping` sets a flag that nothing clears. A clock that got a packet
  fetches its alarm on every turn and returns before it comes to the time, until it
  restarts (`PingLosesTime`, and the exception of `TimeArrives`).
- A morning time of 0:00 makes it night all day, and a sleeping time of 0:00 ends
  the day a minute before midnight without dusk: `transition_start` borrows from a
  day that does not exist (the exceptions of `PhaseRight`).
- The alarm file is truncated and then written, unlocked. Of two PUTs at once one is
  lost, or the file is left unreadable, as it is after a crash between the two
  steps. PUT reads the file before it writes it, so nothing repairs it: only a
  person does (`Bricked`). `time-zone.json` is written in the same way, by a PUT that
  reads it first, and every GET of the time reads it: once it is unreadable no clock
  is set right (`Bricked`, and the condition of `TimeArrives`).
- A PUT to a queue whose list has a bad id is answered 400, but `bad-request` does not
  return: `set-queue` runs with the whole list, and the queue then holds those of its
  programs that are stored (`Write`, `Check`). `Implements` is about the committed
  tables only and allows it.
- All requests of the nametag service share one database connection. The BEGIN of
  one commits what another has half done; the ROLLBACK of one undoes what another
  is doing, which goes on and answers with success (the exceptions of `AckedKept`,
  `NoOrphans` and `Implements`, and the history variables `hit`, `undone` and
  `crossed`, which say when).
- `dequeue-program` orders by a column its table does not have. It always fails and
  is always tried again, so every request for the next program is two ROLLBACKs,
  which is what makes the exceptions above likely.
- A queue whose name has more than 20 characters comes into being under its first
  20 and is not found under its own: POST and PUT to it fail, or do nothing.
- Seen while reading, and in no model: the requests for one segment of an alarm
  (a PUT is never found, a GET of a colour neither, for a misspelt method); a
  brightness that overshoots while colours fade (`60 - 2` in `tclock.cpp`); an HTTP
  timeout as long as the watchdog's five seconds; `check-nonce`, which asks for a
  table that does not exist and which no route calls; an on-air switch that takes
  no packet for complete; an igniter that polls its receiver never.

## 4. Proofs

`tlapm` checks every leaf of these modules; no step is left without a proof.

- **`TimerProofs`** (assumptions: the counter's maximum is positive, waits are
  below it, gaps positive). `IInv` adds to the type invariant that the schedule
  has one of two shapes (`ScheduleShape`: unwrapped and open ended, or wrapped,
  one microsecond late, closed at `previous_tick`) and that time has passed
  between polls. `NeverEarly` alone is not inductive: it needs to know which wait
  `next_tick` was computed from. Proved: `TimerTypeCorrect`,
  `TimerNeverEarly`, `TimerNeverAhead`, `TimerMissOnlyAcrossWrap`, for every
  width of the counter.
- **`TickArrayProofs`** (capacity and stretch are naturals, the stretch positive;
  `Uninit` is no ticker). `TypeOK /\ LoopInv` is inductive; with it every step
  of the array is a step or a stutter of `TickerList`: `TickArrayImplements`.
- **`VMProofs`** (word size, stack, heap and panel of any size that holds the
  begin frame and the system registers). One inductive invariant gives type
  correctness, `VMNoOverread`, `VMStackBounds`, `VMSettingsMirrored` and
  `VMIndexSound` for *every* program. The argument for `NoOverread`: words
  behind the program read as `OP_HALT`, a second one follows the first because an
  operand may swallow it, every jump goes through the index, and every entry
  of the index is an `OP_SUB` (`IndexSound`) or is refused. For `StackBounds`:
  each helper that moves the pointer halts the machine in the same step in
  which it leaves the stack, so a machine that runs is inside.

  Two of the machine's liveness properties rest on action properties that are
  proved as well. `VMModeConsumes`: while a tick mode stays on each frame takes
  words off the stack and nothing gives any back, so the mode lasts no more
  frames than the stack had words, wherever `REG_MARK` has wrapped to.
  `VMMainReturnEnds`: after `OP_RETURN` in main the machine is behind its last
  word or at it with an empty stack (`Ending`), and every instruction from there
  halts, traps or moves it on. Its proof goes through all opcodes; it showed that
  the liveness property had to except a division, which no checked program then
  ended in. What fairness adds, that the loop polls the machine, is left to
  TLC. `VMCursorMirrored` is the third action property.
- **`VMCallsProofs`** (the same assumptions). `CallInv` is `VM`'s invariant with
  `FramesKept`. Every operation of the machine has a lemma that it keeps what lies
  below a given place (`Kept`); every step then either keeps all below the running
  sub's segment, or is a call, a return, a start, an end or a loosening, and is
  recorded as what it is (`StepKinds`). That the frames lie one above the other is
  said of every two of them, not of neighbours, so that no induction over the calls
  is needed. Proved: `VMCallsFrames`, and `VMCallsNest`, that the machine
  implements `CallStack`. `RecordsOnly` proves that the history variables add
  behaviours of `VM` and no others (`CallSpec => Spec`); that they forbid none can
  be read off the guards of the records, one of which every step satisfies.

- **`HatsignProofs`** (any list length, any sets of programs and heap objects,
  any replies). None of the sign's properties is inductive alone. `IInv` adds
  `PreTickersShape`: the pre-ticker list is one of six lists, which follow from
  what was fetched and whether a reset was acted on (from these the flipper's place
  and `remove()`'s damage can be read off); that a pending reset is found only
  before one was acted on, since the UDP listener is gone after; and that in the
  phases of a fetch the list is not yet counted as fetched. `CountsSound` carries
  most of the work: a re-add, a refusal of a full list and a short read each
  touch the list and the counts at one place, and the lemmas say what each does to
  the number of entries of an object. Proved: type correctness,
  `HatsignListsSound`, `HatsignVmOwned`, `HatsignCountsSound`,
  `HatsignRunsListedProgram`, `HatsignDeafAfterReset`. `RunsListedProgram` says which
  entry the VM runs, the one the index has just passed, and that its object is still
  allocated; both need the counts of the list's entries.
- **`WiFiNetworkProofs`** (a memory that is not empty, scans that a byte can count
  with two values to spare, timeouts shorter than the clock's circle). `IInv` has
  one part for each hazard. `LastEventTells`: the last event on its way agrees
  with the link there is, and the radio never has a link and an attempt at once;
  hence `StatusSettles`. `CountSound`: a count is that of the results, which then
  stay, or one that no scan has; with `BestSoFar`, the invariant of the nested
  loops over the first `k` pairs, it gives `PicksStrongest` (`PairLemma` says that
  a turn belongs to one pair). `ScheduleSound`: until the wait is over, nothing
  wraps between a pick and a schedule that did not; hence `AttemptLeftAlone` and
  `SilentOnlyAcrossWrap`.

- **`ToddlerClockProofs`** (a day of at least two hours of at least two minutes, any
  alarms, any requests). `PhaseRight` needs nothing but
  the types: the lemmas turn `BeforeTime` and `TransitionStart` into comparisons of
  minutes of the day, and the rest is arithmetic. `StoresAddUp` needs an inductive
  invariant of the file's requests (`OneAtATime`): unless two overlapped or one was
  cut off, at most one is under way, and what it will write is what the count
  expects with its body merged in. Proved: `ClockTypeCorrect`, `ClockPhaseRight`,
  `ClockStoresAddUp`, `ClockBricked`, `ClockPingLosesTime`; the
  last needs that a pass which asks for the time began before any packet
  (`PingedPass`).
- **`QueueDBProofs`** (any clients, names and lists, any idempotent column, any
  number of writes). `Typed` is `TypeOK` with what the program counter says of each
  request's variables. `Keeping` is the invariant behind `AckedKept` and
  `NoOrphans`: what a request has done so far is in the tables as they are seen,
  unless a transaction was undone during it, and what was answered for is
  in both. Neither property is inductive without it: a request commits in another
  step than it inserts in, and any other request may begin, commit or fail
  between. Proved: `QueueTypeCorrect`, `QueueAckedKept`, `QueueNoOrphans`.

  The refinement is in the same module. `Uncrossed` says what holds while no
  transaction has begun in another's: at most one request is in a transaction
  (`Single`), what is committed is whole (`Whole`), and `Stage` says for each
  statement how the tables as they are seen differ from those committed: by a queue
  that was made (`CreateDone`), a row at the end (`EnqueueDone`), the first programs
  of a list in their order (`SetDone`). Every step but a commit then leaves what is
  committed, and a commit makes of it what one operation of `ProgramQueue` does:
  `QueueImplements`, a statement about the committed tables and not about answers. `Implements` needs all of it: that a set-queue's rows come out
  in order is a fact about its whole loop, and that an enqueue comes last about ids
  that any failed attempt may have used up.

The type invariants of `Timer`, `WiFiNetwork`, `ToddlerClock` and `QueueDB` are in no
run: the theorems `TimerTypeCorrect`, `WiFiTypeCorrect`, `ClockTypeCorrect` and
`QueueTypeCorrect` say more.

### Only model-checked

Liveness (`vm_live`, `HaltRecovers`, `EveryProgramShown`, `network_live`,
`AlarmArrives`, `TimeArrives`), since the prover has neither `ENABLED` nor
fairness. Every invariant, action property and refinement that a run checks is
proved.

## 5. Not modelled, and why

- Output: the contents of the panel and of masks, the clock's colours and
  brightness, the frames of the door light.
- HTTP, JSON and the words of a program: any words, any failure.
- Of `MC_Network` its ESP8266 variant, the signal strength, the announcements in the
  log and `disconnect()`, which no firmware calls. `TickingTimer`, the simpler timer
  in `Firmware.h`: nothing polls the one object that uses it.
- Of the services the requests that only read, status codes, the offset of the time
  zone, the nonces that no
  route uses, the requests for a segment of an alarm, which fail.
- Components with little behaviour of their own, or unfinished: the real time clock
  (a chip behind a few registers), the NoPush button (it sends the packets that
  `Hatsign` and `ToddlerClock` receive at any moment), the igniter and the radio
  (nothing polls the receiver), the on-air switch and light (unfinished), the older
  nametag (an earlier copy of the hat sign). `PROJECT.json` has the reason of each.
- The Go package `manic` and `Animation.h`, its reader: sequential code that
  tests reach; see the plan.
- Vendored code, simulators, loggers. Most of the repository's lines are
  vendored: the C sources of BearSSL, which only the simulator's HTTP client
  (`SimHTTPClient.h`, vendored too) refers to, and fonts. A share of all lines says little here; of the
  components that keep state and interact, the tables above say which are modelled.

## 6. Plan

Done, in this order, the most important behaviour first: `Timer`, `TickArray`
with `TickerList`, `VM`, `Hatsign`, `WiFiNetwork`, `ToddlerClock` with `AlarmFile`,
`QueueDB` with `ProgramQueue`, the proofs of each, and `VMCalls` with `CallStack`
and its proofs.

Left:

1. The safety that other liveness properties rest on, as `VMModeConsumes` and
   `VMMainReturnEnds` are for the machine: what a pass of the hat sign's loop uses up
   on the way to `HaltRecovers`, and of the scan loops on the way to `Reconnects`.
2. `Manic`: offsets written by the Go encoder against offsets read by `Animation.h`.
3. `NoPush`: the button's debounced presses and its light, over `WiFiNetwork`.
