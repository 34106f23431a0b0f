# Verification of rs-nessie

TLA+ models of rs-nessie, a NES emulator with a Tauri desktop shell, the TLC
configurations that check them on small instances, and theorems that TLAPS
proves for every instance. The models are written from the sources named in
`PROJECT.json` ("map" gives the lines each definition stands for).

## 1. Inventory: the system and its parts

rs-nessie has four layers: `nessie-core` (the emulated console, one thread, no
I/O), `nessie-runtime` (the emulation thread and its pacing), the Tauri host
(`app/src-tauri`: commands, saves, library, settings, audio) and the frontend
(`app/src`: views, stores, IPC).

```
 page (GameView, stores) --IPC requests, FIFO--> main thread (commands) --calls--> EmulatorSession
        ^                                            |  AppState mutexes              |  shutdown, paused,
        |  results, frames (Channel)                 v                                v  button bitmaps
        +--------------------------------  library.json, settings.json, *.srm   emulation thread --> Nes
                                                                                      |  samples
                                                     device callback <---- ring <-----+
```

| Component | State | Operations | Hard behaviour | Correct when |
|---|---|---|---|---|
| Runtime session (`nessie-runtime/src/session.rs`) | two flags, two button bitmaps, battery slot, join handle; the thread's locals | start, set_paused, set_button, stop, wait, drop; the emulation loop | every interleaving of the host's stores with the thread's loads; panics | a returned stop is final; at most one late frame; no rush after a pause; a stop always returns; held buttons arrive |
| Frame pacer (`pacer/mod.rs`) | start instant, frame index | advance, catch_up, wait_for_next_frame, resync | stalls, late wake-ups, pauses at any point | never ahead of real time, lag no longer than the stalls, no more frames back to back than they leave unskipped |
| Audio path (`audio.rs`) | bounded ring, resampler phase, pause flag, volume, mute | push_samples, callback, flush | producer, consumer and flusher on a full or empty ring | no drift, newest samples kept, heard in order, a pause falls silent |
| Session commands and saves (`commands/emulator.rs`, `session.rs`) | session slot, next id, `.srm` and `.srm.tmp` files | start_session, stop_session, set_paused, write_atomic | failing file operations, process end at any step, panicking games | one game; acknowledged saves are durable and never go back |
| ROM library (`library.rs`, `commands/rom.rs`, `commands/library.rs`) | ROMs, collections, mutex, `library.json` and `.tmp` | import, remove, rename, collection operations, save, load | an async import beside the main thread, lock released before the save, failing saves, restarts | header invariants hold in memory and on disk; Ok means saved |
| Game view (`GameView.tsx`, `emu/session.ts`) | mounted view, its handle, pause button, IPC in flight | mount, unmount, pause; start and stop results | late starts, late stops, failing starts | no message of one view touches another view's game; no orphan |
| Settings (`settings.rs`, `commands/settings.rs`, `settingsStore.ts`, `SettingsView.tsx`) | host's settings and their file; the page's copy, the view's timers | capture, reset, volume, mute, load, save | saves delayed by 250 ms, late answers, leaving the view, failing saves | a view at rest shows what the host has; no clash of keys gets into host or file |
| Input path (`inputController.ts`, `set_button_state`, `apply_inputs`, `controller.rs`) | key maps, pressed keys; bitmaps; strobe and shift register | keydown, keyup, rebind, detach; poll; strobe, read | rebinding while a key is held, requests in flight, reads between presses | ports follow the keys; a game's reads are of one moment |
| Library views (`libraryStore.ts`, `LibraryView.tsx`, `CollectionView.tsx`, `ImportButton.tsx`) | cached library, the open view, requests and answers in flight | load, upsert, remove, import | overlapping commands, answers to a view that has gone | once settled, the copy is the host's library |
| Frame and NMI timing (`nes.rs`, `bus.rs`, the clock of `ppu/mod.rs`, `Cpu::step`'s poll) | dot, line, vblank flag, NMI edge and latch, cycles owed | step_frame, tick, register accesses, OAM DMA, reset | PPUSTATUS read on the dot that sets vblank, PPUCTRL written in an instruction's last cycle, stalls over a frame's end | one picture per step_frame; each NMI is taken, once, when it is due |
| MMC3 interrupt (`mapper_004.rs` with the PPU's fetches) | A12 filter, counter, latch, reload, enable, pending | tick, $C000-$E001, PPUCTRL, PPUMASK, PPUADDR, PPUDATA | CPU cycles drift against dots; writes between any two fetches | one clock per line; the interrupt at every (latch + 1)th clock |
| CPU (`cpu/mod.rs`) | registers, flags, stack, delayed I flag | 256 opcodes, NMI, IRQ, BRK, reset | page crossings, dummy accesses, nested handlers, edges of a byte | accesses and cycles are the 6502's; results exact; handlers are transparent |
| PPU registers, memories and sprites (`ppu/mod.rs`) | v, t, x, w; VRAM, palette, OAM, read buffer; evaluated and fetched sprites | register reads and writes, fetch pipeline, evaluation, output | writes between any two dots, sizes changed between evaluation and fetch, mirrors | the picture follows the scroll; a byte shows at its mirrors and nowhere else; lines show their first sprites |
| APU (`apu/mod.rs`) | frame counter, length counters, envelopes, sweep, linear counter, LFSR, sample player | register writes, reads of $4015, quarter and half clocks, DMA | $4017's delay by phase, samples restarted or rewritten while they play | clocks at their cycles, interrupts with a cause, samples play whole |
| Cartridge (`cart/`) | header, mapper registers, RAM, battery | parse, register writes, reads, load_battery | serial writes cut by a reset, banks beyond the ROM | no register write reaches outside the ROM; partial loads do nothing |
| Renderer, shell commands, UI components, build and CI | none that matters here | - | - | not modelled |

## 2. Modules

| Module | Models | State and actions |
|---|---|---|
| `SessionContract` | what a `Session` promises its host, abstractly | `Play`, `End`, `Fail`, `Return` over `alive`, `ram`, `slot`, `returned` |
| `RuntimeSession` | `Session` and `run_emulation` | every access to a shared atomic is a step; the thread's place in its loop is `emu`, the host's call is `host`; `lateFrames` and `baseline` are what the properties need to remember |
| `RuntimeSessionProofs`, `AudioRingProofs`, `HostSessionProofs`, `LibraryProofs` | theorems about the module each is named after | the inductive invariants and what follows from them: see section 5 |
| `FramePacerProofs` | theorems about `FramePacer` and `FrameTiming` | how late the loop is, in ticks; where the beam is, in dots: see section 5 |
| `ConsoleProofs` | theorems about `Apu`, `CpuInterrupts` and `ScanlineIrq` | one invariant per unit of the sound, one of the stack, one of the line's fetches: see section 5 |
| `FrontendProofs` | theorems about `SettingsPage`, `LibraryPage`, `GameView` and `InputPath` | what stands in the queues, and what page, host or port will have once it is taken: see section 5 |
| `DatapathProofs` | theorems about `PpuMemory`, `Cartridge`, `CpuAlu`, `CpuDecode`, `PpuScroll` and `PpuSprites` | where a byte goes, what arithmetic makes of it, how often the bus is touched, which place or sprite a pixel comes from: see section 5 |
| `ByteBits` | the bits of a byte, as the `u8` operators of the language compute them | no state; used by `Cartridge`, `CpuAlu` and `CpuDecode` |
| `FramePacer` | the pacer as the loop drives it | `Render`, `CatchUp`, `Sleep`/`NoSleep`, `Stall`, `Resume`; time in ticks; `lost`, `rush` and `leaps` remember what stalls cost, the frames rendered back to back and the skips that fell short |
| `AudioRing` | `push_samples`, the cpal callback, pause and flush | each push and pop of the ring is a step; a sample is its number |
| `HostSession` | session commands, `EmulatorSession::stop`, `write_atomic`, restarts | a command is at a step (`cmd.at`); every file operation is a step and may fail; `Restart` may happen anywhere |
| `Library` (`MCLibrary` for TLC) | the library, its commands and its file | methods are operators that yield the changed library; `Persist`, `CreateTmp`, `FillTmp`, `RenameTmp`, `SaveFails` per thread |
| `GameView` | the game view against the host's session slot | the page's effects and promises; the queue of requests; one step per served command |
| `InputPath` | keys to ports | `KeyDown`, `KeyUp`, `UpdateBindings`, `Detach`; `SetButtonState`; `ApplyInputsTo`; `WriteStrobe`, `ReadPort`; each hop is a step |
| `LibraryPage` | the page's cached library | clicks that send a command, `ServeChange` and its answer, `TakeAnswer`, an import dialog beside them |
| `SettingsPage` | settings from slider to file and to the next session | edits, `BindingsDue`/`VolumeDue` when a timer fires, served commands that may fail to save, `TakeReturn` |
| `FrameTiming` | how the core runs a frame | the PPU is a record that `TickOne` advances by a dot; `Tick` is `NesBus::tick`, after which an access may follow; an instruction is its accesses and its stall |
| `ScanlineIrq` | the MMC3's counter on the PPU's fetches | `BusTick` runs three dots and shows the mapper the pattern tables fetched; one action per register of the mapper |
| `CpuDecode` | opcode and cycle tables, every instruction's bus accesses | one behaviour is one opcode executed from one situation; `Accesses` is the sequence of reads and writes |
| `CpuAlu` | what each mnemonic computes | registers and flags as a record; one behaviour is one operation on one operand |
| `CpuInterrupts` | stack, calls, interrupts and their masking | `ServiceNmi`, `ServiceIrq`, `Jsr`, `Rti`, ..., lines raised and dropped at any moment; `calls` remembers the frames |
| `PpuScroll` | v, t, x, w and the background pipeline | `Dot` runs one dot; register accesses between any two; `asked` remembers, field by field, the scroll that the writes ask for, `aim` where the line and the frame were to begin |
| `PpuMemory` | PPUDATA, palette and OAM | addresses aimed at, reads through the buffer, writes, `Rewire` switches the banks behind the pattern windows and the mirroring |
| `PpuSprites` | evaluation, pattern fetches, priority | `Draw`, `Evaluate`, `FetchSlot`, `EndLine`; size, mask and OAM change between any two |
| `Apu` | the control logic of the sound | each unit under every order of writes and clocks |
| `Cartridge` | iNES parser and mappers 0 to 4 | `RegisterWrite`, `RamWrite`, `LoadBattery`; `PrgBank` and `ChrBank` say what a window shows; `loaded` remembers what the serial writes put into MMC1's registers |
| `MCFrames`, `MCFrontend`, `MCConsole` | one instance each of several components | a behaviour follows the part in `focus`; no part reads a variable of another, so this checks each by itself with one run |

`FrameTiming` is the frame that `RuntimeSession`'s `StepFrame` takes as one
step. `ScanlineIrq` is the same `tick` seen from the cartridge: it keeps the
fetches that `FrameTiming` leaves out, and leaves out vblank and the NMI.
`CpuDecode` says at which cycle an access falls, which `FrameTiming` takes as
any; `CpuAlu` and `CpuInterrupts` say what it is for. `PpuScroll`, `PpuMemory`
and `PpuSprites` split the PPU by what meets in a register: the address, the
byte, and the object memory. `Cartridge` has the MMC3's registers but its counter.

`RuntimeSession` implements `SessionContract` (checked by TLC as `KeepsContract`
and proved as `ImplementsContract`); `HostSession` takes the contract for
granted where it runs games (`EndThread`, `Panic`) and where it assumes that an
asked thread exits (`RuntimeSession!StopReturns`). `GameView` takes each command
of `HostSession` as one step, `LibraryPage` each command of `Library`, and
`SettingsPage` saves its file in one step for the same reason: nothing else
writes it. `InputPath` has the bitmaps of `RuntimeSession` between page and port.

A definition whose comment begins "A slip" is a plausible bug in the definition
that follows it. No specification uses it: it exists to show, by putting it in
the place of that definition, that a property really depends on the code's
doing what it does ("mutants" in `PROJECT.json` pairs each property with one).

## 3. Runs: what is checked, within which bounds

| Run | Instance | Properties | Shows |
|---|---|---|---|
| `runtime_session` | 1 button per player, 2 RAM contents, limits None and 1, counter saturating at 2 | `TypeOK`, `ReturnMeansFinal`, `AtMostOneLateFrame`, `NoRushAfterPause`, `KeepsContract`, `StopReturns`, `HeldButtonArrives` | the session's promises under every interleaving |
| `host_session` | 2 ROMs, 2 sessions per process, progress up to 2 | `SaveInvariant` (types, one game, acknowledged saves durable), `SaveNeverGoesBack`, `CommandReturns` | saves across crashes and sessions |
| `library` | 2 hashes, 2 names, 4 changes | `LibraryInvariant` (types, consistency, one saver), `OkIsDurable`, `FileNeverGoesBack` | two threads on the library and its file |
| `frames` | pacer: period 4, threshold 1, skip 2, stalls up to 18, pauses up to 6, time up to 40; core: 11 lines of 11 dots, vblank at 7, instructions of 2, 3 and 5 cycles, stalls of 4, 6 and 12; ring of 2 at rates 2:3, bursts and callbacks of 2, 8 samples; APU with events at 2, 4, 6, 9, 12 and samples of 1 and 3 bytes | `PacerInvariant` (types, never ahead, lag and back-to-back frames bounded), `OnePicturePerFrame`, `NmiOnTime`, `NoDrift`, `RingInvariant` (types, newest kept, heard in order), `PauseBounded` (what a pause lets in, what a flush takes), `ApuInvariant`, `SamplePlaysWhole`, `FrameCounterKeepsTime` | pacing with stalls within one skip and beyond it; any program's accesses against vblank and the frame's end; the ring at and over its capacity; the chip's units under any order of writes and clocks |
| `scanline_irq` | 2 visible tiles, latches up to 2, 2 accesses after any set-up | `ScanlineInvariant` (types, one clock per line), `IrqOnTime` | the filter and the counter at every alignment |
| `frontend` | 3 views and 2 pauses in flight; 2 ports, 2 buttons, 2 keys, 2 layouts; 2 ROMs, 2 collections, 5 commands; 2 maps of 2 buttons, 3 keys, 3 requests and 2 edits | `ViewInvariant`, `PauseHitsItsOwnGame`, `InputInvariant`, `PageShowsLibrary`, `SettingsInvariant`, `NoOrphan` | late messages of earlier views, and the page's copies against the host |
| `console` | all 256 opcodes with operands that cross a page, wrap and do not; 11 edge bytes; stack page of 6, 2 frames deep; 3 tiles and 2 lines with 2 accesses, each at one of 4 dots of any line; 11 addresses of VRAM under 3 arrangements of banks; 3 sprites on a line of 2; 13 files for 6 mapper numbers, 10 serial writes | `BusIsTheCpus`, `AluIsExact`, `HandlerIsTransparent`, `InterruptsAtTheirTurn`, `PictureFollowsScroll`, `DataReachesItsMirrors`, `LinesShowTheirSprites`, `BanksInRange`, `SerialLoads` | the emulated console, part by part |
| `exit_loses_progress` | 1 ROM | `ProgressSurvivesRestart`, violated | section 4 |
| `two_clocks` | as `scanline_irq`, no accesses | `NeverTwoClocks`, violated | section 4 |
| `four_screen` | 10 addresses of VRAM, banks one to one | `FourScreensAreDistinct`, violated | section 4 |
| `volume_forgotten` | as `frontend` | `NextStartIsAsLoud`, violated | section 4 |
| `closed_lid` | pacer: period 4, threshold 1, skip 2, stalls up to 30, time up to 44 | `StallsNeverFlood`, violated | section 4 |

Why the bounds are enough. The flags, bitmaps and slot of a session are finite; one
button shows every transition because buttons are independent bits; two RAM contents
tell a last frame from an earlier one; the counter is compared only with the limit, so 2
covers below, at and saturated. A ring of two is full, partly full and empty, and 2:3
makes the resampler emit one or two samples per input with a phase that wraps. Two
sessions per process and a restart, which starts the ids again, give one game's save to
the next. Four library changes allow a collection that refers to a ROM that is then
removed while the other thread saves. Three views are enough for two late messages of
different earlier views to meet the mounted one. In the pacer the numbers keep the
code's order `1 <= threshold < max_skip` (4 and 60 there), and stalls are shorter than
the threshold, as long as one skip reaches, and up to twice that, so that catch-ups fall
short and are repeated. A line of 101 dots, like one of 341, is two dots longer than a
multiple of three, so CPU cycles drift against dots in the same way; its sprite and
prefetch part has the code's length, and only the visible part, in which every tile
repeats the same fetch, is shorter. Two accesses allow an acknowledgement and a second
enable, or a reload between two fetches. In `frames` the core's frame keeps the code's
order of lengths: a step is shorter than the picture, and a frame is shorter than the
limit (`FrameAssumption` states both; the code's numbers are 1 048 cycles, 27 393, 29
781 and 200 000). The decoder is run on every opcode, with an index that crosses a page,
one that wraps the zero page and none, a branch both ways over a page, and pointers at
$FF. `Values` are the bytes at which a carry, a borrow, a sign or a shifted bit changes,
and each operation is compared with integer arithmetic. A stack page of six bytes holds
two frames of three and wraps; a second frame is an interrupt inside a handler. Two
register accesses complete a $2005 or $2006 pair, or cut one with $2002, and a pair may
be half written when the instance begins. The scroll byte 239 is the last column of
tiles but two across and the last row of pixels down (row 29, fine 7), so a picture of
three tiles and two lines wraps at both edges into the other nametables; 20 stays within
one. The accesses come among a line's tile fetches (dot 12), on either side of the copy
of the horizontal bits (25, 26) and in the prefetch (94), which are the code's dots 257,
258 and those from 321 on. Three of the eight pattern windows are addressed, which the
banks make one byte, two or three: one to one, the MMC3's at power-on, where most
windows show its first bank, and the MMC3's with its halves swapped. Sprite memory is
one byte there, as no property is about its contents. An MMC1 load takes five writes:
ten are a load, a reset inside the next and a load again. A MMC1 file of three banks has
the odd bank of section 4. Five commands let two changes of a collection overlap with a
load and an import; three requests and two edits let a save's answer meet another edit.
`MaxFed`, `MaxSessions`, `MaxRam`, `MaxVer`, `MaxViews`, `MaxWrites`, `MaxToggles`,
`MaxCommands`, `MaxRequests`, `MaxEdits`, `MaxAccesses`, `MaxUses`, `MaxChanges`,
`MaxSent`, `MaxSerialWrites`, `MaxStall`, `MaxPause`, `AccessDots` and `MaxNow` only
make the instance finite. `SYMMETRY` in `library` permutes hashes, names and titles,
which the model only compares.

Fairness. `RuntimeSession` assumes weak fairness of the emulation thread and of
the return of `join()`: the operating system runs threads that can run, and the
loop sleeps but never blocks. A host owes no call and a panic never has to
happen. `HostSession` assumes the main thread goes on with a command, and that a
thread that was asked to exit does. `GameView` assumes that the main thread
serves requests and promises settle, and `FrontendSpec` takes over just that
(`WF` of `HostStep` and `PageStep`). No liveness is claimed of the user, and
none of any other module: whether a slider is moved or a register written is up
to the user and the game.

Assumptions about code outside the repository. Tauri runs synchronous commands
on the main thread, one after the other, in the order they were sent; their
results of starts may arrive in any order, and those of the short commands of a
view arrive in the order they were served. Without that order `MountedViewKeepsSession`
and `PauseHitsItsOwnGame` do not hold: `set_paused` names no session. A file
rename is atomic, and a synced file survives. `crossbeam`'s queue is linearizable.
`f64` seconds are exact ticks. A file dialog is modal, so one import runs
beside the main thread.

`CHECK_DEADLOCK FALSE` is used where the system may stop: a dropped session, an
idle page, the pacer's bounded clock, an instruction that was executed, and a part
of the console that has used up its writes.

## 4. Where the documents and the code disagree

* `exit_loses_progress`: `README.md:22` promises that battery saves are
  persisted "so progress survives restarts". The `.srm` file is written only by
  `EmulatorSession::stop`; closing the window while a game runs, like a crash,
  ends the process without it. There is no exit handler in `lib.rs` and the page
  registers none. `ProgressSurvivesRestart` is violated in a few steps.
* `two_clocks`: `mapper_004.rs:16-18` says the filter turns a line's sprite
  fetches into exactly one clock. That holds of 8x8 sprites (`ScanlineInvariant`).
  8x16 sprites choose the table by their tile, slots are eight dots apart, and
  eight dots are two or three M2 cycles: when they are three, the filter lets
  the rise through and the line is clocked again.
* `four_screen`: `cart/mod.rs:43` says of `FourScreen` that the "cartridge
  supplies extra RAM; all four logical nametables are distinct". The mapper's
  answer is 0 to 3, but `Ppu::nametable_index` (`ppu/mod.rs:643`) keeps its lowest
  bit, and the PPU has 2 KB: a byte written to the third table changes the first.
* `volume_forgotten`: `commands/emulator.rs:174-175` says that without a session
  "we have still persisted the setting for the next start". A start opens the
  sound at full volume and unmuted (`audio.rs:138`) and reads no settings, so the
  next game is as loud as ever until a slider is moved.
* `closed_lid`: `pacer/mod.rs:19-21` says that `catch_up` "prevents the emulation
  thread from over-running and spitting out a flood of frames after a stall", and
  names a laptop's closing lid. A catch-up skips at most `max_skip` frames (60), and
  a frame is rendered between two of them: after a stall of one second there is no
  flood, after one of an hour some 3500 frames are rendered back to back. What
  does hold of every stall is in `PacerInvariant`: the lag is at most what the
  stalls have cost, less what was skipped, and there is one frame too many per
  skip that fell short.

Smaller observations, not runs:

* `pacer/mod.rs:47` says that `catch_up` re-syncs `start`, which only `resync` does.
* `set_paused` says that playback stops immediately, while the frame in flight
  still queues up to one frame of samples after the flush (`PauseBounded` is the
  bound that holds).
* A tap shorter than a frame, or made while paused, does not reach the game. A key
  released while the window has no focus stays down until it is released again,
  and one that is rebound while held leaves its old button down; `InputInvariant`
  holds of the keys the page has seen and of bindings that did not change.
* A failed save of the library or the settings returns an error although the
  change stays in memory; the page then shows the older state until it loads again.
* `load_or_default` says that bindings are deduplicated when settings are loaded
  (`settings.rs:239`); only the volume is corrected.
* `cpu/mod.rs:560` says that every opcode byte is mapped; $8B is not, and does nothing.
* The parser accepts an MMC1 file with an odd number of 16 KB banks. Its 32 KB mode
  ignores the lowest bit of the bank, so at the last bank the two upper windows lie
  one bank beyond the ROM and read as zeros (`mapper_001.rs:107-112`). Nothing in the
  repository says otherwise; `BanksInRange` makes exactly this exception (`Overhangs`).
* Late answers and dropped edits do leave the page's copy of the library or the settings
  behind the host's in a few orders. `PageShowsLibrary` and `SettingsInvariant` name
  these (`astray`, `overtaken`, `unsaved`), except them, and hold in all others.

## 5. Proofs

What a run shows on a small instance is proved here for every value of the
constants. None of the safety properties is inductive; each proof rests on a
stronger `IInv`, which TLC checked on the run's instance before it was proved,
and has the same three steps: the initial states satisfy it (`Init => IInv`), no
step leaves it (one lemma per part, or per action where the parts need each
other), and it implies the property. Every theorem `InvariantHolds` says
`Spec => []IInv` of its module (in a module about several parts the part's name comes
first, as in `GameInvariantHolds`; where an invariant has no theorem of its own, the
lemmas `...Begins` and `...Kept` say the same).

**The runtime session** (`RuntimeSessionProofs`), for every set of buttons, RAM
contents, frame limit, counter width, and with or without a battery:

* `TypeCorrect`: `Spec => []TypeOK`, which is inductive on its own.
* `InvariantHolds`. The parts of `IInv`:
  - `Ownership`: the join handle is given up only by the call that then joins,
    so a host that is idle without it has a finished thread; a raised shutdown
    flag means the thread is finished or the host is blocked joining it. The
    second part is what keeps `SetPaused` from interfering with a stop.
  - `SlotFilledAtExit`: the slot is empty until the thread's last step.
  - `LateFrames`: by where the thread is, how many frames it has run since a
    flag was raised: none before the frame in flight is stepped.
  - `StaleWhilePaused`: the pacer is out of date only while the thread remembers
    the pause.
* `ReturnIsFinal`, `LateFrameBound`, `ResumeIsPaced`: `ReturnMeansFinal`,
  `AtMostOneLateFrame` and `NoRushAfterPause` follow from `IInv`.
* `ImplementsContract`: `Spec => KeepsContract`. Initial states map to initial
  states; `StepFrame` is `Play`, `Snapshot` is `End`, `Panic` is `Fail`,
  `JoinReturns` is `Return`, every other step leaves the contract's state alone
  (`StepKeepsContract`).

**The audio ring** (`AudioRingProofs`), for every pair of rates whose sum fits in
a `u32`, every capacity, burst and callback window. `NeverDrifts`,
`RingKeepsNewest` and `PauseIsShort` are `NoDrift`, `RingInvariant` and
`PauseBounded`. `IInv` adds

  - `ProducerOwes` and `RetryHasRoom`: a second `push` finds room, because only
    the producer fills the ring and it has just popped from it, or found it empty
    after the callback or the flush did;
  - `FrameBudget`: what the frame in flight owes and will still make is at most
    what its burst is worth, in units of `1 / SrcRate` sample: a number of samples
    alone would not be inductive, the phase carries a fraction;
  - `TailBudget` and `FlushBudget`: the same with what came in since the pause, and
    what a flush has popped was in the ring when it began or has come in since. The
    bound of `flush`'s loop follows.

`PhaseSplit` is the lemma about the resampler's division, and `BudgetBounds` turns
the budgets into the bounds that `PauseBounded` names.

**The pacer** (`FramePacerProofs`), for every period, threshold, skip limit, stall and
pause. All of it is about one quantity, `Late`: the ticks after the deadline of the last
rendered frame. `NeverAheadHolds` needs nothing else. `KeepsUp` is `PacerSpec =>
[]PacerInvariant`, without any condition on how long stalls are. In `IInv`, `LateBound`
says at each place of the loop that the lateness is at most what the threshold tolerates
and what stalls have cost, less `MaxSkip` periods for each catch-up that fell short
(`leaps`). `RushBound` says that a frame rendered without sleeping is either one of
those, or has worked off `Period - MaxRender` of a lateness that is already tolerated.

**Saves** (`HostSessionProofs`), for every set of ROMs, any number of sessions and
progress. `SavesAreSafe` is `SaveInvariant`; `SavesMoveForward` is the action
property `SaveNeverGoesBack`. In `IInv`, `CommandShape` says what a command works
on at each of its steps (a stop empties the slot first, a new game is in no slot
before it is installed); `OneSession` that no other game has a thread, which makes
the file operations of a stop undisturbed; `SnapIsFinal` and `SaveProgress` that the
snapshot being written is the ended game's last RAM, and is in the file beside the
save before the rename; `NeverBehind` that a game is never behind the file it will
replace. Without `NeverBehind` a rename could put an older game in place.

**The library** (`LibraryProofs`), for every set of ROM files, paths, titles and names
and any number of changes. `LibraryIsConsistent`, `OkStaysDurable` and
`FileMovesForward` are `LibraryInvariant`, `OkIsDurable` and `FileNeverGoesBack`. In
`IInv`, `IdsAreOld` makes the next id new, `FileIsOlder` says that the file is a
consistent state that is not newer than memory, also after a restart, and
`SaveIsCurrent` that what the thread with the mutex is about to rename is the
library as it is now. Each method of the library has a lemma: from a sound library,
a sound one that is one change newer (`Successor`).

**The game view** (`FrontendProofs`), for any number of views and pauses.
`PauseReachesItsView` and `PageAndHostAgree` are `PauseHitsItsOwnGame` and
`ViewInvariant`. The argument is the order of the queue: `QueueOrder` (starts stand
in the order of the views, each before what its view asks for later), `OwnGame` (once
the requests before a pause are served, the active game, if any, is that of the
pause's view), `StopsAreLate` (only sessions of views that have gone are to be
stopped), `StartOnce` and `OwnersKnown` (a view's start is in one place: in the
queue, among the results or handled), `Undisturbed` (the mounted view's session is
active from its start on), `Accounted` (an active session has someone who will stop
it: its view, its result on the way, or a request), `ButtonIsLast` (the last pause
request of a view is what its button says). Lemmas state what appending a request to
the queue and serving its first do to the places of the others.

**The sound** (`ConsoleProofs`), for any five events that are apart, any tables and
any sample that wraps at most once (`ApuAssumption`; the code's tables satisfy it).
No unit reads another, so `IInv` is one invariant per unit: `FrameIInv` (the tally of
quarter and half clocks is what the events passed make it; a delayed $4017 falls on
its phase; an interrupt stands only uninhibited), `PulseIInv` (a channel that is off
has no length; the mute is that of the current period and sweep, or errs on the
silent side), `TriangleIInv`, `NoiseIInv` (the register is one of 2^15 - 1 states, never
0), `DmcIInv` (where the player reads follows from how much of which sample it has
fetched). `ChannelsAndInterrupts`, `SamplesPlayWhole` and `SequencesAreWhole` are
`ApuInvariant`, `SamplePlaysWhole` and the action property `FrameCounterKeepsTime`.

**The settings** (`FrontendProofs`), for every set of players, buttons and keys, every
range of volumes and any number of requests and edits. `SettingsAgree` is
`SettingsInvariant`. The host's half, `NoClash`, needs only itself. The page's half,
`PageFollows`, is about the mounted settings view once the host has served its load:

  - `LastAnswerIsCurrent`: of the answers that the view will take, the last carries the
    host's bindings, unless an error follows it, which leaves the copy as unsaved;
  - `KeysAreCurrent`: when no such answer is on its way, each player's bindings on the
    page are the host's already, or clash, or wait for a timer or a served request;
  - `VolumeArrives` and `MuteArrives`: the last request that sets the volume, or else
    the timer, has what the slider shows; with neither the host has it. They hold
    until an answer overwrites a newer edit, or a game's sound is set behind the
    page's back (`overtaken`).

One lemma per kind of step says that it keeps `PageFollows`: edits and timers
(`EditFollows`, `SendFollows`), the host's answers (`AnswersFollow`, `SoundFollows`) and
taking one (`TakeFollows`).

**The library's copy** (`FrontendProofs`), for every set of ROMs, collections and names
and any number of commands, views and imports. `PageCatchesUp` is `PageShowsLibrary`.
`CopyFollows` says that a path leads from the copy to the host: a sequence of
libraries, one per answer on its way, each what the page's reducer makes of the one
before (`Becomes`), or anything at all where the answer leaves the copy behind. It
begins at the library that the mounted view's load will put there, or, once that is
taken, at the copy; while the load is still to be served nothing is claimed, as it
will replace whatever is cached. It ends at the host's library but for the title that
an open import has changed and not told (`Reached`). A served command extends the path
(`ServedFollows`: each reducer mirrors its method of the host's library), an answer
that is taken shortens it (`PathMovesUp`).

**The stack and the interrupts** (`ConsoleProofs`), for any size of the stack page and
of the address space, any depth, and lines that rise and fall between any two
instructions. `HandlersAreTransparent` and `PollsAreInTurn` are `HandlerIsTransparent`
and `InterruptsAtTheirTurn`. `StackIsFrames` unrolls the page: there are places on a
stack that does not wrap, one per frame, no more than a page apart in all, such that
each frame's pulls will find its bytes at its place and the live bytes are those of
the frames and no others. A push writes below all of them, as there is room
(`PushEffect`, `PushKeepsFrames`); a pull takes the newest frame's (`PulledBytes`,
`PullKeepsFrames`). Places are compared modulo the page: `ModApart` (two places less
than a page apart have different addresses) and `ModAdd` are proved here from the
definition of `%`, as the prover knows nothing of a symbolic divisor. `DelayIsLatent` says that a
delayed I flag stands exactly after CLI, SEI and PLP, which is what an NMI between
SEI and its poll must not leave behind.

**The frame and the NMI** (`FramePacerProofs`), for every length of lines and frames,
every set of instructions of up to eight accesses and every stall that `FrameAssumption`
admits (the code's numbers do): `OnePicturePerFrameHolds` and `NmiOnTimeHolds` are
`OnePicturePerFrame` and `NmiOnTime`. `CoreIInv` has two parts besides the types.
`NmiFollowed`: the level the PPU compares with is the line's, its edge is a rise that no
cycle has passed since, and the latch is the NMI owed. `FrameProgress` counts in dots
from the frame's start: the cycles spent are behind the beam, a picture has been made
exactly if the beam is past the vertical blank's start, and what a step has left to run
when the frame is done ends before the next one.

**The MMC3's clocks** (`ConsoleProofs`), for every number of tiles that makes a line
drift against CPU cycles as the code's 341 dots do (`ScanlineAssumption`), every latch
and any writes. `ScanlineHolds` and `IrqOnTimeHolds` are `ScanlineInvariant` and
`IrqOnTime`. In `ScanIInv`, `CountsFromReload` ties the counter to the clocks since
$C001; `LineSeen` says what a line that nothing disturbs has shown the mapper before
each dot: which table, for how long A12 was low, and how often it was clocked.
`LowLong` is the crux: the filter counts CPU cycles, the line is made of dots, and it
is enough at the two places where A12 may rise.

**Keys and ports** (`FrontendProofs`), for every set of keys, buttons and layouts of one
or two players. `InputInvariantHolds` is `InputInvariant`. A press takes four hops and
each may lag, so `InputIInv` looks ahead: `WillBe` says of each button's bit that the
last request on its way for it, or with none the bit itself, agrees with the key, until
a key is bound anew (`rebound`). The ports' half is that a register holds the bits of
the strobed moment from where the reads have got to.

**Memories and banks** (`DatapathProofs`). `WritesReachTheirMirrors` is
`DataReachesItsMirrors`, for every set of addresses and bytes and every arrangement of
banks behind the pattern windows, shared ones among them. Two windows that show one bank
are mirrors of each other; four screens are claimed to be wired as the two that the code
gives them (`AsWired`, `WiredCells`). `BanksHold` and `SerialHolds` are `BanksInRange`
and `SerialLoads`, for every set of files and bytes: `CartIInv` says that a cartridge
that was accepted has whole banks, that a bank register of a mapper without a mask fits
them (`Fits`), that an MMC1's shift register holds the bits sent to it since the last
load or reset (`Holds`), and its registers what those loads sent to each of them
(`AsLoaded`). The one case that leaves the ROM is part of the claim, with the bank it
then shows (`Overhangs`).

**Arithmetic** (`DatapathProofs`), for every byte in A, X, Y and memory, where the run
tries eleven. `AluHolds` is `AluIsExact`. One lemma per kind of instruction (`Compare`,
additions, shifts, the combined ones) relates the registers it leaves to the integers;
bits are related to the numbers they make up in lemmas about `ByteBits`.

**The picture** (`DatapathProofs`), for every number of tiles and lines, every byte a
game writes and any number of accesses at any dot. `PictureHolds` is
`PictureFollowsScroll`. `ScrollIInv` has one part per stage of the pipeline.
`AskedFollows` is about the registers: t, x and w are the scroll and the half of a pair
that the writes to $2000, $2005 and $2006 ask for (`ScrollWrites`, `AddressWrites`,
`NametableWrites`). The others are each about the picture that was asked for when the
two halves of the address were last copied: `AddressFollows` (v is the place of the tile
to be fetched next), `FetchFollows` (the fetches of a tile so far were made at one v),
`TileFollows` (the tile just completed is the one before v's) and `ShifterFollows` (the
sixteen pixels in the registers are the columns that come next, from the first that is
whole to the last). The increments of v are proved to be steps on the plane of 512 by
480 pixels, with its wraps (`CoarseX` at 31, `CoarseY` at 29, the nametable bits).

**The sprites** (`DatapathProofs`), for every list of sprites, every pattern, every
number of sprites a line takes and any changes of size, mask and sprite memory.
`LinesHold` is `LinesShowTheirSprites`. `SpriteIInv` follows a line's sprites from the
evaluation to the picture: `ChoiceStands` (the entries chosen are the first of the
sprite memory that the next line meets), `SlotsFollow` (the slots filled so far have
their patterns), `LineFollows` (the line being drawn shows the slots of the
evaluation before). Which entries the model's selection keeps is said by rank: `Ranks`
numbers the entries that lie on a line, and `KeptInOrder`, `ChosenList` and
`KeptAreFirst` say that the list chosen has each rank up to the limit once, in order.
That a set of numbers has a least element, which these and `FirstOpaque` need
(`Least`), comes from the library's well-foundedness of the naturals.

**The bus** (`DatapathProofs`), for every opcode with any operands, index, stack
pointer and place of the program. `BusHolds` is `BusIsTheCpus`. The table of 256 entries
is read once: `TablesAreRight` says that each entry is one of a short sheet (`Sheet`),
which knows per kind of instruction the cycles of each mode and who pays for a carry.
The rest is about the sheet: how many accesses a mode's address takes (`AddressRuns`), an
instruction's kind makes (`OperandRuns`, `BranchRuns`, `StackRuns`), and that these are
the sheet's cycles (`BodyRuns`, `AccessesAreCycles`). `TouchesAreTheirs` splits an
access sequence behind the fetches of an indexed mode; `CarriedAddress` is the
arithmetic of the address before and after the carry, with its wrap at $FFFF.

The assumptions are the modules' named `ASSUME`s, which TLC evaluates on every run
that extends the module. Nothing else is assumed.

Only model-checked is liveness, which is beyond this prover: `StopReturns`,
`HeldButtonArrives`, `CommandReturns` and `NoOrphan`. Every safety invariant and action
property of a passing run is proved.

## 6. Plan

Done: every module of section 2, and the proofs of section 5. An abstract specification
still to be stated is an atomic register for a save file, which `HostSession` and
`Library` both implement.

## 7. Not modelled, and why

RGB colours, greyscale and emphasis, waveforms, the mixer and the contents of banks:
they are data, and the repository's golden tests compare them. How a whole program
runs through `CpuDecode`, `CpuAlu` and the PPU together is beyond a model checker;
the modules meet in the assumptions section 2 names. Search, sorting and drawing
of the views, the renderer, the shell commands and the UI's presentation have no
protocol. The audio thread's start and end (a stream that is opened and dropped),
the window's placement and the fullscreen shortcut, which nothing writes, are left
out, as are NES 2.0's larger sizes, which the parser does not read. Build, CI and
scripts are not part of the running program; the operating system, `cpal` and Tauri
are not either, except as assumed above.
