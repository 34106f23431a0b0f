----------------------------- MODULE ScanlineIrq ----------------------------
(***************************************************************************)
(* The MMC3's scanline interrupt, which no single part computes: the PPU   *)
(* fetches patterns dot by dot (nessie-core/src/ppu/mod.rs), the bus runs  *)
(* three dots to a CPU cycle and lets the CPU write in between (bus.rs),   *)
(* and the mapper counts filtered rises of address line A12                *)
(* (cart/mapper_004.rs).                                                   *)
(*                                                                         *)
(* The line has Tiles visible tiles; everything after them is as long as   *)
(* in the code.  A table, or an address, is its bit 12.  Of OAM only the   *)
(* table a slot's tile selects is kept, and that may be any.               *)
(***************************************************************************)
EXTENDS Integers

CONSTANTS
  Tiles,     \* background tiles per line, 32 in the code
  MaxLatch,  \* the largest IRQ latch, 255 in the code
  MaxWrites  \* bound on the program's accesses after its set-up

\* Any number congruent to 32 keeps the way lines and CPU cycles drift apart.
ASSUME ScanlineAssumption ==
  /\ Tiles \in Nat \ {0} /\ Tiles % 3 = 2
  /\ MaxLatch \in Nat \ {0} /\ MaxWrites \in Nat

VARIABLES
  dot,        \* Ppu.cycle, the next dot to run
  ctrl,       \* PPUCTRL: background table, sprite table, 8x16 sprites
  rendering,  \* this line fetches: rendering is on, and it is not in vblank
  tile,       \* the table of the 8x16 sprite being fetched
  canWrite,   \* the CPU's access of this cycle is still to be performed
  chip,       \* the mapper's IRQ side, with the history of its clocks
  latch,      \* Mapper004.irq_latch
  quiet,      \* history: lines begun since the picture was last disturbed
  writes      \* history: the program's accesses so far

picture == <<ctrl, rendering, tile>>
vars == <<dot, picture, canWrite, chip, latch, quiet, writes>>

Dots     == 8 * Tiles + 85
Sprites  == 8 * Tiles + 1    \* the sprite fetches' first dot, 257
Prefetch == 8 * Tiles + 65   \* the next line's first tiles, dots 321 to 336

Bit  == {0, 1}
Ctrl == [bg : Bit, spr : Bit, tall : BOOLEAN]
Lesser(a, b) == IF a < b THEN a ELSE b

(* A line of vblank, in which a program has set up PPUCTRL, the latch and,   *)
(* perhaps, the reload and the interrupt: A12 has been low for long.         *)
Init ==
  /\ dot = 0 /\ canWrite = FALSE /\ rendering = FALSE /\ tile = 0
  /\ ctrl \in Ctrl /\ latch \in 0 .. MaxLatch
  /\ \E reload, enabled \in BOOLEAN :
       chip = [a12 |-> 0, low |-> 3, counter |-> 0, reload |-> reload,
               enabled |-> enabled, pending |-> FALSE, clocks |-> 0,
               since |-> IF reload THEN 0 ELSE -1]
  /\ quiet = 0 /\ writes = 0

-----------------------------------------------------------------------------
(* The mapper.  chip.low is m2_cycles - a12_low_since, which the code only   *)
(* compares with 3.  chip.clocks counts the clocks of the line; chip.since   *)
(* those since $C001 modulo latch + 1, or is -1 when the latch has changed.  *)

(* A slip: a clock that reloads does not take back the request. *)
ClockKeepsReload(c) ==
  LET n == IF c.counter = 0 \/ c.reload THEN latch ELSE c.counter - 1 IN
  [c EXCEPT !.counter = n,
            !.pending = @ \/ (n = 0 /\ c.enabled),
            !.clocks = @ + 1,
            !.since = IF @ = -1 THEN -1 ELSE (@ + 1) % (latch + 1)]

(* clock_irq_counter *)
ClockIrqCounter(c) ==
  LET n == IF c.counter = 0 \/ c.reload THEN latch ELSE c.counter - 1 IN
  [c EXCEPT !.counter = n, !.reload = FALSE,
            !.pending = @ \/ (n = 0 /\ c.enabled),
            !.clocks = @ + 1,
            !.since = IF @ = -1 THEN -1 ELSE (@ + 1) % (latch + 1)]

(* A slip: A12's low time restarts at every low address, not at its fall. *)
ObserveEveryLow(c, a12) ==
  LET seen == IF a12 = 1 /\ c.a12 = 0 /\ c.low >= 3 THEN ClockIrqCounter(c) ELSE c IN
  [seen EXCEPT !.a12 = a12, !.low = IF a12 = 0 THEN 0 ELSE @]

(* observe_a12 *)
ObserveA12(c, a12) ==
  LET seen == IF a12 = 1 /\ c.a12 = 0 /\ c.low >= 3 THEN ClockIrqCounter(c) ELSE c IN
  [seen EXCEPT !.a12 = a12, !.low = IF a12 = 0 /\ c.a12 = 1 THEN 0 ELSE @]

(* step(1); only the filter looks at the time, and only while A12 is low.    *)
StepMapper(c) == [c EXCEPT !.low = IF c.a12 = 1 THEN 3 ELSE Lesser(@ + 1, 3)]

-----------------------------------------------------------------------------
(* The PPU.  Patterns are fetched on the 5th and the 7th dot of a background *)
(* tile and of a sprite slot; nametable fetches are not shown to the mapper. *)

IsSprite(d)   == d \in Sprites .. Prefetch - 1
FetchesAt(d)  == d < Prefetch + 16 /\ d % 8 \in {5, 7}
NewSlotAt(d)  == IsSprite(d) /\ d % 8 = 5

(* fetch_sprite_pattern and bg_pattern_addr: the table, bit 12 of the address *)
TableAt(d, t) ==
  IF ~IsSprite(d) THEN ctrl.bg ELSE IF ctrl.tall THEN t ELSE ctrl.spr

RunDot(c, d, t) ==
  IF rendering /\ FetchesAt(d) THEN ObserveA12(c, TableAt(d, t)) ELSE c

(* The dot after d: the last line of an odd frame is a dot shorter.          *)
After(d) ==
  IF d = Dots - 1 THEN {0}
  ELSE IF d = Dots - 2 /\ rendering THEN {0, d + 1}
  ELSE {d + 1}

(* NesBus::tick: three dots, then the mapper's cycle.  The line may end      *)
(* within it, before any of the next one's fetches; the line that begins may *)
(* be the first or the last one of a frame's that fetches.                   *)
BusTick ==
  \E t \in Bit : \E d1 \in After(dot) : \E d2 \in After(d1) : \E d3 \in After(d2) :
    LET wrapped == d3 < dot
        done == StepMapper(RunDot(RunDot(RunDot(chip, dot, t), d1, t), d2, t)) IN
    /\ tile' = t /\ (t = tile \/ (ctrl.tall /\ \E d \in {dot, d1, d2} : NewSlotAt(d)))
    /\ dot' = d3 /\ canWrite' = (writes < MaxWrites)
    /\ chip' = IF wrapped THEN [done EXCEPT !.clocks = 0] ELSE done
    /\ \/ rendering' = rendering
          /\ quiet' = IF wrapped THEN Lesser(quiet + 1, 2) ELSE quiet
       \/ wrapped /\ rendering' = ~rendering /\ quiet' = 0
    /\ UNCHANGED <<ctrl, latch, writes>>

-----------------------------------------------------------------------------
(* The CPU's access, after the tick it starts with (NesBus::write and read). *)

(* One that changes what the PPU fetches. *)
Disturb ==
  /\ canWrite /\ canWrite' = FALSE
  /\ writes' = writes + 1 /\ quiet' = 0
  /\ UNCHANGED <<dot, latch>>

(* PPUCTRL; a slot whose sprites have just become 8x16 has a tile as well.   *)
WriteCtrl ==
  /\ Disturb /\ ctrl' \in Ctrl
  /\ tile' \in IF ctrl'.tall THEN Bit ELSE {tile}
  /\ UNCHANGED <<rendering, chip>>

(* PPUMASK, within a line that could fetch *)
WriteMask == Disturb /\ rendering' = ~rendering /\ UNCHANGED <<ctrl, tile, chip>>

(* PPUADDR's second write, or PPUDATA: the access's own address, when it is  *)
(* a pattern's, and the one v is left at.                                    *)
DataAccess ==
  /\ Disturb
  /\ \E a, b \in Bit : chip' = ObserveA12(ObserveA12(chip, a), b)
  /\ UNCHANGED picture

(* One to the mapper's registers. *)
WriteChip ==
  /\ canWrite /\ canWrite' = FALSE
  /\ writes' = writes + 1
  /\ UNCHANGED <<dot, picture, quiet>>

(* $C000 *)
WriteLatch ==
  /\ WriteChip /\ latch' \in 0 .. MaxLatch
  /\ chip' = [chip EXCEPT !.since = IF latch' = latch THEN @ ELSE -1]

(* $C001: a reload at the next clock *)
WriteReload ==
  /\ WriteChip /\ UNCHANGED latch
  /\ chip' = [chip EXCEPT !.counter = 0, !.reload = TRUE, !.since = 0]

(* $E000: disable and acknowledge *)
WriteDisable ==
  /\ WriteChip /\ UNCHANGED latch
  /\ chip' = [chip EXCEPT !.enabled = FALSE, !.pending = FALSE]

(* $E001 *)
WriteEnable ==
  /\ WriteChip /\ UNCHANGED latch
  /\ chip' = [chip EXCEPT !.enabled = TRUE]

Next ==
  \/ BusTick
  \/ WriteCtrl \/ WriteMask \/ DataAccess
  \/ WriteLatch \/ WriteReload \/ WriteDisable \/ WriteEnable

Spec == Init /\ [][Next]_vars

-----------------------------------------------------------------------------
(* Every variable keeps its type; the counter, a u8, never wraps below zero  *)
(* and never exceeds the largest latch.                                      *)
TypeOK ==
  /\ dot \in 0 .. Dots - 1 /\ ctrl \in Ctrl /\ rendering \in BOOLEAN
  /\ tile \in Bit /\ canWrite \in BOOLEAN /\ latch \in 0 .. MaxLatch
  /\ chip.a12 \in Bit /\ chip.low \in 0 .. 3 /\ chip.counter \in 0 .. MaxLatch
  /\ chip.reload \in BOOLEAN /\ chip.enabled \in BOOLEAN /\ chip.pending \in BOOLEAN
  /\ chip.clocks \in Nat /\ chip.since \in -1 .. latch
  /\ quiet \in 0 .. 2 /\ writes \in 0 .. MaxWrites

(* All fetches of the line are done. *)
LineFetched == dot >= Prefetch + 16

(* With 8x8 sprites, a line that is fetched undisturbed after an undisturbed *)
(* one clocks the counter exactly once when background and sprites use       *)
(* different tables, and never when they share one, however the CPU's cycles *)
(* fall on the dots: the filter swallows nothing and lets nothing through.   *)
OneClockPerLine ==
  quiet = 2 /\ rendering /\ ~ctrl.tall /\ LineFetched
    => chip.clocks = IF ctrl.bg = ctrl.spr THEN 0 ELSE 1

(* The counter stays in its byte and counts lines (observe_a12).             *)
ScanlineInvariant == TypeOK /\ OneClockPerLine

(* What mapper_004.rs promises of the filter: the sprite fetches of a line   *)
(* make exactly one clock of it, hence never two.  It says so of every       *)
(* sprite size; with 8x16 sprites that alternate between the tables some     *)
(* rises are three cycles apart.                                             *)
NeverTwoClocks == quiet = 2 /\ rendering => chip.clocks <= 1

(* A program that sets the latch to n, asks for a reload and then leaves the *)
(* latch alone gets its interrupt at every (n + 1)th clock since, at no      *)
(* other, whatever it enables, disables and acknowledges in between.         *)
IrqOnTime ==
  [][LET clocked == chip'.clocks > chip.clocks IN
     chip.since # -1 /\ chip'.since # -1 =>
       /\ chip'.pending /\ ~chip.pending => clocked /\ chip'.since = 0
       /\ clocked /\ chip'.since = 0 /\ chip.enabled => chip'.pending]_vars

=============================================================================
