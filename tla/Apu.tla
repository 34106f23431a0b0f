-------------------------------- MODULE Apu --------------------------------
(***************************************************************************)
(* The control logic of the audio processing unit (nessie-core/src/apu/    *)
(* mod.rs): the frame counter and its interrupt, the length counters, the  *)
(* envelopes, the linear counter, the sweep, the noise shift register and  *)
(* the sample player.  The waveforms and the mixer are left out: nothing   *)
(* but the output reads them.                                              *)
(*                                                                         *)
(* A behaviour follows one unit, the one the game programs; the others     *)
(* keep their power-on state.  The units meet only in the frame counter's  *)
(* clocks and in $4015: a channel gets either at any moment, and the unit  *)
(* "frame" shows when the frame counter gives its clocks.  A pulse channel *)
(* is two units, its sweep and its envelope, which share no field.         *)
(***************************************************************************)
EXTENDS Integers, Sequences

CONSTANTS
    Events,         \* FRAME_5STEP, scaled: the five event cycles
    Lengths,        \* values of LENGTH_TABLE
    MaxDecay,       \* 15 in the source
    Volumes,        \* values of a volume and of the linear counter's reload
    Periods,        \* timer periods a game writes, of eleven bits
    Shifts, Dividers,   \* sweep shifts and divider periods a game writes
    SampleStarts, SampleLengths,    \* what $4012 and $4013 are written with
    LastAddress, WrapAddress,       \* $FFFF and $8000
    Rates, Bits, MaxLevel,          \* DMC_RATES, 8 and 127
    SampleBytes,    \* bytes found in memory
    LfsrStart,      \* the noise register at power-on; 1
    NoMode          \* no $4017 write is pending

\* The shifts have three bits and the periods eleven; a sample begins below
\* LastAddress and reaches at most once around to WrapAddress.
ASSUME ApuAssumption ==
    /\ Events \in Seq(Nat \ {0}) /\ Len(Events) = 5
    /\ \A k \in 1 .. 4 : Events[k] + 1 < Events[k + 1]
    /\ MaxDecay \in Nat /\ Lengths \cup Volumes \cup Dividers \subseteq Nat
    /\ Periods \subseteq 0 .. 2047 /\ Shifts \subseteq 0 .. 7
    /\ Bits \in Nat \ {0} /\ MaxLevel \in Nat \ {0}
    /\ Rates \subseteq Nat \ {0} /\ Rates # {}
    /\ SampleStarts \subseteq 0 .. LastAddress /\ SampleStarts # {}
    /\ SampleLengths \subseteq Nat \ {0} /\ SampleLengths # {}
    /\ LastAddress \in Nat /\ WrapAddress \in 0 .. LastAddress /\ SampleBytes \subseteq Nat
    /\ \A a \in SampleStarts, n \in SampleLengths :
            a + n <= (LastAddress + 1) + (LastAddress + 1 - WrapAddress)
    /\ LfsrStart \in 1 .. 2^15 - 1 /\ NoMode \notin {4, 5}

Units == {"frame", "sweep", "envelope", "triangle", "noise", "lfsr", "dmc"}

VARIABLES
    unit,       \* the unit this behaviour follows
    frame, pulse, triangle, noise, dmc,
    tally,      \* history: clocks since the sequencer started over
    played      \* history: the sample being played and how much of it was fetched

channels == <<pulse, triangle, noise>>
player == <<dmc, played>>
sequencer == <<frame, tally>>
apuVars == <<unit, sequencer, channels, player>>

-----------------------------------------------------------------------------
(* The building blocks: a length counter, an envelope and a sweep. *)

Length0 == [enabled |-> FALSE, halt |-> FALSE, counter |-> 0]
LengthEnable(l, on) == [l EXCEPT !.enabled = on, !.counter = IF on THEN @ ELSE 0]
LengthLoad(l, n)    == IF l.enabled THEN [l EXCEPT !.counter = n] ELSE l
LengthClock(l)      == IF ~l.halt /\ l.counter > 0 THEN [l EXCEPT !.counter = @ - 1] ELSE l
Active(l)           == l.counter > 0

Envelope0 == [start |-> FALSE, loop |-> FALSE, constant |-> FALSE, volume |-> 0,
              decay |-> 0, divider |-> 0]
EnvelopeClock(e) ==
    IF e.start THEN [e EXCEPT !.start = FALSE, !.decay = MaxDecay, !.divider = e.volume]
    ELSE IF e.divider = 0
    THEN [e EXCEPT !.divider = e.volume,
                   !.decay = IF @ > 0 THEN @ - 1 ELSE IF e.loop THEN MaxDecay ELSE @]
    ELSE [e EXCEPT !.divider = @ - 1]

Sweep0 == [enabled |-> FALSE, period |-> 0, negate |-> FALSE, shift |-> 0,
           reload |-> FALSE, divider |-> 0, mute |-> FALSE]

ShiftRight(n, places) == n \div 2^places

(* Pulse 1 negates with a ones' complement, pulse 2 with a twos'. *)
TargetPeriod(q) ==
    LET change == ShiftRight(q.period, q.sweep.shift)
        bias == IF q.channel = 0 THEN 1 ELSE 0
        down == q.period - (change + bias)
    IN  IF q.sweep.negate THEN IF down < 0 THEN 0 ELSE down
        ELSE q.period + change

UpdateSweepMute(q) ==
    [q EXCEPT !.sweep.mute = q.period < 8 \/ TargetPeriod(q) > 2047]

ClockSweep(q) ==
    LET fresh == UpdateSweepMute(q)
        s == fresh.sweep
        moved == IF s.divider = 0 /\ s.enabled /\ ~s.mute /\ s.shift > 0
                 THEN UpdateSweepMute([fresh EXCEPT !.period = TargetPeriod(fresh)])
                 ELSE fresh
    IN  IF s.divider = 0 \/ s.reload
        THEN [moved EXCEPT !.sweep.divider = s.period, !.sweep.reload = FALSE]
        ELSE [moved EXCEPT !.sweep.divider = @ - 1]

-----------------------------------------------------------------------------
(* The noise register: fifteen bits, the feedback of bits 0 and 1 or 6. *)
BitOf(n, b) == ShiftRight(n, b) % 2
ShiftLfsr(n) ==
    LET other == IF n.mode THEN BitOf(n.lfsr, 6) ELSE BitOf(n.lfsr, 1)
        feedback == (BitOf(n.lfsr, 0) + other) % 2
    IN  [n EXCEPT !.lfsr = (n.lfsr \div 2) + feedback * 2^14]

-----------------------------------------------------------------------------
(* The sample player.  An empty buffer is the sequence of no byte. *)
Dmc0 == [irqEnabled |-> FALSE, loop |-> FALSE, rate |-> CHOOSE r \in Rates : TRUE,
         timer |-> 0, level |-> 0,
         start |-> CHOOSE a \in SampleStarts : TRUE,
         length |-> CHOOSE n \in SampleLengths : TRUE,
         current |-> CHOOSE a \in SampleStarts : TRUE, remaining |-> 0,
         irq |-> FALSE, buffer |-> << >>, shift |-> 0, bits |-> Bits, silence |-> TRUE]

(* A slip: the sample restarts where it stopped. *)
DmcRestartHere(d) == [d EXCEPT !.remaining = d.length]

DmcRestart(d) == [d EXCEPT !.current = d.start, !.remaining = d.length]

DmcEnable(d, on) ==
    LET e == IF ~on THEN [d EXCEPT !.remaining = 0]
             ELSE IF d.remaining = 0 THEN DmcRestart(d) ELSE d
    IN  [e EXCEPT !.irq = FALSE]

DmcRequest(d) == d.buffer = << >> /\ d.remaining > 0

DmcComplete(d, byte) ==
    LET got == [d EXCEPT !.buffer = <<byte>>,
                         !.current = IF @ = LastAddress THEN WrapAddress ELSE @ + 1,
                         !.remaining = IF @ = 0 THEN 0 ELSE @ - 1]
    IN  IF got.remaining # 0 THEN got
        ELSE IF got.loop THEN DmcRestart(got)
        ELSE [got EXCEPT !.irq = @ \/ got.irqEnabled]

DmcShift(d) ==
    LET level == IF d.silence THEN d.level
                 ELSE IF d.shift % 2 # 0
                 THEN IF d.level <= MaxLevel - 2 THEN d.level + 2 ELSE d.level
                 ELSE IF d.level >= 2 THEN d.level - 2 ELSE d.level
        left == IF d.bits = 0 THEN 0 ELSE d.bits - 1
        out == [d EXCEPT !.timer = d.rate - 1, !.level = level,
                         !.shift = @ \div 2, !.bits = left]
    IN  IF left # 0 THEN out
        ELSE IF d.buffer = << >> THEN [out EXCEPT !.bits = Bits, !.silence = TRUE]
        ELSE [out EXCEPT !.bits = Bits, !.shift = d.buffer[1], !.buffer = << >>,
                         !.silence = FALSE]

(* clock_timer, on every CPU cycle. *)
DmcClock(d) == IF d.timer > 0 THEN [d EXCEPT !.timer = @ - 1] ELSE DmcShift(d)

-----------------------------------------------------------------------------
(* The channels at power-on, and what a $4015 write does to each. *)
Pulse0(c) == [channel |-> c, enabled |-> FALSE, period |-> 0, sweep |-> Sweep0,
              envelope |-> Envelope0, length |-> Length0]
Triangle0 == [enabled |-> FALSE, length |-> Length0, linear |-> 0, reloadValue |-> 0,
              reload |-> FALSE, control |-> FALSE]
Noise0 == [enabled |-> FALSE, mode |-> FALSE, lfsr |-> LfsrStart,
           envelope |-> Envelope0, length |-> Length0]
Frame0 == [mode |-> 4, inhibit |-> FALSE, irq |-> FALSE, cycle |-> 0, pending |-> NoMode,
           last |-> [mode |-> 4, inhibit |-> FALSE], delay |-> 0, phase |-> FALSE]

ApuInit ==
    /\ unit \in Units
    /\ frame = Frame0 /\ tally = [quarter |-> 0, half |-> 0]
    /\ pulse \in {Pulse0(c) : c \in IF unit \in {"sweep", "envelope"} THEN {0, 1} ELSE {0}}
    /\ triangle = Triangle0 /\ noise = Noise0
    /\ dmc = Dmc0 /\ played = [start |-> 0, length |-> 0, fetched |-> 0]

(* set_enabled of a pulse, triangle or noise channel. *)
Enable(c, on) == [c EXCEPT !.enabled = on, !.length = LengthEnable(@, on)]

-----------------------------------------------------------------------------
(* The frame counter.  Quarter and Half are the clocks due at a cycle. *)

Quarter(f) == f.cycle \in IF f.mode = 4 THEN {Events[k] : k \in 1 .. 4}
                          ELSE {Events[k] : k \in {1, 2, 3, 5}}
Half(f) == f.cycle \in {Events[2], IF f.mode = 4 THEN Events[4] ELSE Events[5]}
Wrapping(f) == f.cycle > IF f.mode = 4 THEN Events[4] ELSE Events[5]
IrqWindow(f) == f.mode = 4 /\ f.cycle >= Events[4] - 1

AdvanceFrameCounter(f) ==
    [f EXCEPT !.irq = @ \/ (IrqWindow(f) /\ ~f.inhibit),
              !.cycle = IF Wrapping(f) THEN 0 ELSE @]

(* The pending mode starts the sequencer over.  The five-step mode also clocks *)
(* every unit at once, which is one of the clocks a channel gets at any moment. *)
ApplyMode(f) ==
    IF f.pending = NoMode THEN f
    ELSE [f EXCEPT !.mode = f.pending, !.cycle = 0, !.pending = NoMode]

(* A slip: inhibiting the interrupt leaves a pending one raised. *)
WriteKeepsIrq(f, w) ==
    [f EXCEPT !.last = w, !.inhibit = w.inhibit,
              !.pending = w.mode, !.delay = IF f.phase THEN 4 ELSE 3]

(* A slip: the two delays are the other way round. *)
WriteDelaySwapped(f, w) ==
    [f EXCEPT !.last = w, !.inhibit = w.inhibit, !.irq = @ /\ ~w.inhibit,
              !.pending = w.mode, !.delay = IF f.phase THEN 3 ELSE 4]

WriteFrameCounter(f, w) ==
    [f EXCEPT !.last = w, !.inhibit = w.inhibit, !.irq = @ /\ ~w.inhibit,
              !.pending = w.mode, !.delay = IF f.phase THEN 4 ELSE 3]

Due(f) == f.pending # NoMode /\ f.delay <= 1

TickFrame(f) ==
    LET ticked == AdvanceFrameCounter([f EXCEPT !.phase = ~@, !.cycle = @ + 1])
    IN  IF f.pending = NoMode THEN ticked
        ELSE IF Due(f) THEN ApplyMode([ticked EXCEPT !.delay = 0])
        ELSE [ticked EXCEPT !.delay = @ - 1]

(* One CPU cycle: tick_one_cpu_cycle, as far as the frame counter goes. *)
TickCycle ==
    /\ unit = "frame"
    /\ frame' = TickFrame(frame)
    /\ LET at == [frame EXCEPT !.cycle = @ + 1]
       IN  tally' = IF Wrapping(at) \/ Due(frame) THEN [quarter |-> 0, half |-> 0]
                    ELSE [quarter |-> tally.quarter + (IF Quarter(at) THEN 1 ELSE 0),
                          half |-> tally.half + (IF Half(at) THEN 1 ELSE 0)]
    /\ UNCHANGED <<unit, channels, player>>

(* $4017. *)
Write4017 ==
    /\ unit = "frame"
    /\ \E w \in [mode : {4, 5}, inhibit : BOOLEAN] : frame' = WriteFrameCounter(frame, w)
    /\ UNCHANGED <<unit, tally, channels, player>>

(* Reading $4015 acknowledges the frame interrupt, never the sample's. *)
Read4015 ==
    /\ unit = "frame"
    /\ frame' = [frame EXCEPT !.irq = FALSE]
    /\ UNCHANGED <<unit, tally, channels, player>>

(* The RESET button writes 0 to $4015 and the last value to $4017 again, and *)
(* the mode applies without the delay; the channels' registers survive.      *)
ApuSoftReset ==
    /\ pulse' = Enable(pulse, FALSE) /\ triangle' = Enable(triangle, FALSE)
    /\ noise' = Enable(noise, FALSE)
    /\ dmc' = DmcEnable(dmc, FALSE) /\ played' = played
    /\ frame' = ApplyMode(WriteFrameCounter([frame EXCEPT !.irq = FALSE], frame.last))
    /\ tally' = [quarter |-> 0, half |-> 0]
    /\ UNCHANGED unit

-----------------------------------------------------------------------------
(* The channels: register writes, and the clocks the frame counter gives.    *)
(* Every clock of the sweep is a half frame's; the unit "envelope" takes the *)
(* quarter and half frames of the same pulse channel.                        *)

WriteEnvelope(c, halt, constant, volume) ==
    [c EXCEPT !.length.halt = halt, !.envelope.loop = halt,
              !.envelope.constant = constant, !.envelope.volume = volume]

LoadLength(c, n) == [c EXCEPT !.length = LengthLoad(@, n), !.envelope.start = TRUE]

ClockQuarter(c) == [c EXCEPT !.envelope = EnvelopeClock(@)]
ClockHalf(c) == [c EXCEPT !.length = LengthClock(@)]

WriteSweep(q, on, period, negate, shift) ==
    UpdateSweepMute([q EXCEPT !.sweep.enabled = on, !.sweep.period = period,
                     !.sweep.negate = negate, !.sweep.shift = shift, !.sweep.reload = TRUE])

WriteLo(q, p) == UpdateSweepMute([q EXCEPT !.period = (@ \div 256) * 256 + (p % 256)])
WriteHi(q, p, n) ==
    UpdateSweepMute(LoadLength([q EXCEPT !.period = (p \div 256) * 256 + (@ % 256)], n))

SweepWrite ==
    /\ unit = "sweep"
    /\ \/ \E on, negate \in BOOLEAN, d \in Dividers, s \in Shifts :
            pulse' = WriteSweep(pulse, on, d, negate, s)
       \/ \E p \in Periods : pulse' = WriteLo(pulse, p)
    /\ UNCHANGED <<unit, sequencer, triangle, noise, player>>

(* The high byte of the period restarts the envelope and loads the length: *)
(* the sweep's behaviours leave the length counter off.                    *)
SweepWriteHi ==
    /\ unit = "sweep"
    /\ \E p \in Periods, n \in Lengths : pulse' = WriteHi(pulse, p, n)
    /\ UNCHANGED <<unit, sequencer, triangle, noise, player>>

SweepClock ==
    /\ unit = "sweep"
    /\ pulse' = ClockSweep(ClockHalf(pulse))
    /\ UNCHANGED <<unit, sequencer, triangle, noise, player>>

PulseWrite ==
    /\ unit = "envelope"
    /\ \/ \E halt, constant \in BOOLEAN, v \in Volumes :
            pulse' = WriteEnvelope(pulse, halt, constant, v)
       \/ \E n \in Lengths : pulse' = WriteHi(pulse, pulse.period, n)
       \/ \E on \in BOOLEAN : pulse' = Enable(pulse, on)
    /\ UNCHANGED <<unit, sequencer, triangle, noise, player>>

PulseClock ==
    /\ unit = "envelope"
    /\ pulse' \in {ClockQuarter(pulse), ClockSweep(ClockHalf(ClockQuarter(pulse)))}
    /\ UNCHANGED <<unit, sequencer, triangle, noise, player>>

NoiseWrite ==
    /\ unit = "noise"
    /\ \/ \E halt, constant \in BOOLEAN, v \in Volumes :
            noise' = WriteEnvelope(noise, halt, constant, v)
       \/ \E n \in Lengths : noise' = LoadLength(noise, n)
       \/ \E on \in BOOLEAN : noise' = Enable(noise, on)
    /\ UNCHANGED <<unit, sequencer, pulse, triangle, player>>

NoiseClock ==
    /\ unit = "noise"
    /\ noise' \in {ClockQuarter(noise), ClockHalf(ClockQuarter(noise))}
    /\ UNCHANGED <<unit, sequencer, pulse, triangle, player>>

(* The noise register shifts on its own timer, in the mode last written. *)
NoiseShift ==
    /\ unit = "lfsr"
    /\ noise' \in {ShiftLfsr(noise), [noise EXCEPT !.mode = ~@]}
    /\ UNCHANGED <<unit, sequencer, pulse, triangle, player>>

ClockLinear(t) ==
    [t EXCEPT !.linear = IF t.reload THEN t.reloadValue ELSE IF @ > 0 THEN @ - 1 ELSE 0,
              !.reload = @ /\ t.control]

TriangleWrite ==
    /\ unit = "triangle"
    /\ \/ \E control \in BOOLEAN, v \in Volumes :
            triangle' = [triangle EXCEPT !.control = control, !.length.halt = control,
                                         !.reloadValue = v]
       \/ \E n \in Lengths : triangle' = [triangle EXCEPT !.length = LengthLoad(@, n),
                                                          !.reload = TRUE]
       \/ \E on \in BOOLEAN : triangle' = Enable(triangle, on)
    /\ UNCHANGED <<unit, sequencer, pulse, noise, player>>

TriangleClock ==
    /\ unit = "triangle"
    /\ triangle' \in {ClockLinear(triangle), ClockHalf(ClockLinear(triangle))}
    /\ UNCHANGED <<unit, sequencer, pulse, noise, player>>

-----------------------------------------------------------------------------
(* The sample player's registers and its CPU cycle: the output unit first, *)
(* then the fetch that refills an empty buffer.                            *)

DmcWrite ==
    /\ unit = "dmc"
    /\ \/ \E irqEnabled, loop \in BOOLEAN, r \in Rates :
            dmc' = [dmc EXCEPT !.irqEnabled = irqEnabled, !.loop = loop, !.rate = r,
                               !.irq = @ /\ irqEnabled]
       \/ \E level \in {0, 1, MaxLevel - 1, MaxLevel} : dmc' = [dmc EXCEPT !.level = level]
       \/ \E a \in SampleStarts : dmc' = [dmc EXCEPT !.start = a]
       \/ \E n \in SampleLengths : dmc' = [dmc EXCEPT !.length = n]
    /\ UNCHANGED <<unit, sequencer, channels, played>>

DmcSwitch ==
    /\ unit = "dmc"
    /\ \E on \in BOOLEAN :
        /\ dmc' = DmcEnable(dmc, on)
        /\ played' = IF on /\ dmc.remaining = 0
                     THEN [start |-> dmc.start, length |-> dmc.length, fetched |-> 0]
                     ELSE played
    /\ UNCHANGED <<unit, sequencer, channels>>

DmcCycle ==
    /\ unit = "dmc"
    /\ LET clocked == DmcClock(dmc)
       IN  IF ~DmcRequest(clocked)
           THEN dmc' = clocked /\ played' = played
           ELSE \E byte \in SampleBytes :
                  /\ dmc' = DmcComplete(clocked, byte)
                  /\ played' = IF clocked.remaining = 1 /\ clocked.loop
                               THEN [start |-> clocked.start, length |-> clocked.length,
                                     fetched |-> 0]
                               ELSE [played EXCEPT !.fetched = @ + 1]
    /\ UNCHANGED <<unit, sequencer, channels>>

ApuNext ==
    \/ TickCycle \/ Write4017 \/ Read4015 \/ ApuSoftReset
    \/ SweepWrite \/ SweepWriteHi \/ SweepClock \/ PulseWrite \/ PulseClock
    \/ NoiseWrite \/ NoiseClock \/ NoiseShift \/ TriangleWrite \/ TriangleClock
    \/ DmcWrite \/ DmcSwitch \/ DmcCycle

ApuSpec == ApuInit /\ [][ApuNext]_apuVars

-----------------------------------------------------------------------------
(* Properties. *)

(* A sequence of the frame counter that runs to its end gave four quarter    *)
(* and two half clocks in either mode, a restart by $4017 falls on the same  *)
(* phase whichever cycle wrote it, and the interrupt is raised only in the   *)
(* last cycles of an uninhibited four-step sequence, however the writes, the *)
(* acknowledgements and the pending restart interleave with the ticks        *)
(* (advance_frame_counter, write_register, apply_frame_counter_mode).        *)
FrameCounterKeepsTime ==
    [][TickCycle =>
        /\ Wrapping([frame EXCEPT !.cycle = @ + 1]) => tally = [quarter |-> 4, half |-> 2]
        /\ Due(frame) => frame'.phase
        /\ (frame'.irq /\ ~frame.irq) =>
                frame.mode = 4 /\ ~frame.inhibit /\ frame.cycle + 1 >= Events[4] - 1]_apuVars

(* Two interrupt sources share the line, and neither may be left raised where *)
(* its owner cannot want it: an inhibited frame counter or a sample player    *)
(* that was told not to interrupt, or that is in the middle of a sample.      *)
InterruptsHaveACause ==
    /\ frame.irq => ~frame.inhibit
    /\ dmc.irq => dmc.irqEnabled /\ dmc.remaining = 0

(* No order of register writes and clocks takes a channel out of its range: a *)
(* channel that is off has no length left, the sweep never drives the period  *)
(* past eleven bits, the cached mute never lets a swept-out period sound, the *)
(* noise register never locks at zero and the sample player's level stays in  *)
(* seven bits.                                                                *)
ChannelsStayLegal ==
    /\ \A c \in {pulse, triangle, noise} : c.enabled \/ ~Active(c.length)
    /\ pulse.period \in 0 .. 2047
    /\ pulse.sweep.mute \/ pulse.period < 8 \/ TargetPeriod(pulse) <= 2047
    /\ pulse.envelope.decay \in 0 .. MaxDecay /\ noise.envelope.decay \in 0 .. MaxDecay
    /\ noise.lfsr \in 1 .. 2^15 - 1
    /\ dmc.level \in 0 .. MaxLevel

(* The interrupts and the channels. *)
ApuInvariant == InterruptsHaveACause /\ ChannelsStayLegal

(* A sample plays whole: whatever is written to its registers meanwhile, the  *)
(* player is always at the byte that follows the ones it fetched since the    *)
(* sample began, and stops after as many as the length then was, also across  *)
(* the wrap from $FFFF to $8000 and around the loop (dma_complete, restart).  *)
SamplePlaysWhole ==
    dmc.remaining > 0 =>
        LET next == played.start + played.fetched
        IN  /\ dmc.remaining + played.fetched = played.length
            /\ dmc.current = IF next > LastAddress
                             THEN WrapAddress + (next - LastAddress - 1) ELSE next
=============================================================================
