---------------------------- MODULE ConsoleProofs ----------------------------
(***************************************************************************)
(* Proofs about the console's sound, Apu, for any events of the frame      *)
(* counter, any table values and any sample that reaches at most once      *)
(* around the end of the address space: one invariant per unit, as no unit *)
(* needs to know of another.  And about the CPU's stack and interrupts,    *)
(* CpuInterrupts, for any size of the stack page and of the address space  *)
(* and any depth of handlers and calls.  And about the MMC3's counter,     *)
(* ScanlineIrq, for any length of the line and any latch.                  *)
(***************************************************************************)
EXTENDS Apu, CpuInterrupts, ScanlineIrq, SequenceTheorems, FiniteSetTheorems, TLAPS

Modes == {4, 5}

(* Types. *)
FrameStates ==
  [mode : Modes, inhibit : BOOLEAN, irq : BOOLEAN, cycle : Nat,
   pending : Modes \cup {NoMode}, last : [mode : Modes, inhibit : BOOLEAN],
   delay : 0 .. 4, phase : BOOLEAN]
LengthStates == [enabled : BOOLEAN, halt : BOOLEAN, counter : Nat]
EnvelopeStates ==
  [start : BOOLEAN, loop : BOOLEAN, constant : BOOLEAN, volume : Nat,
   decay : 0 .. MaxDecay, divider : Nat]
SweepStates ==
  [enabled : BOOLEAN, period : Nat, negate : BOOLEAN, shift : 0 .. 7,
   reload : BOOLEAN, divider : Nat, mute : BOOLEAN]
MaxPeriod == 2047
PulseStates ==
  [channel : {0, 1}, enabled : BOOLEAN, period : 0 .. MaxPeriod, sweep : SweepStates,
   envelope : EnvelopeStates, length : LengthStates]
TriangleStates ==
  [enabled : BOOLEAN, length : LengthStates, linear : Nat, reloadValue : Nat,
   reload : BOOLEAN, control : BOOLEAN]
LfsrStates == 1 .. 2^15 - 1
NoiseStates ==
  [enabled : BOOLEAN, mode : BOOLEAN, lfsr : LfsrStates,
   envelope : EnvelopeStates, length : LengthStates]

(* The tally of a sequence is what the events passed make it. *)
Passed(k) == IF frame.cycle >= Events[k] THEN 1 ELSE 0
TallyFollows ==
  /\ tally = IF frame.mode = 4
             THEN [quarter |-> Passed(1) + Passed(2) + Passed(3) + Passed(4),
                   half |-> Passed(2) + Passed(4)]
             ELSE [quarter |-> Passed(1) + Passed(2) + Passed(3) + Passed(5),
                   half |-> Passed(2) + Passed(5)]
  /\ frame.cycle <= IF frame.mode = 4 THEN Events[4] ELSE Events[5]

(* A restart that is waiting will fall on the phase it has to. *)
DelayInPhase ==
  frame.pending # NoMode =>
    frame.delay \in 1 .. 4 /\ frame.phase = (frame.delay \in {2, 4})

FrameIInv ==
  /\ frame \in FrameStates /\ TallyFollows /\ DelayInPhase
  /\ frame.irq => ~frame.inhibit

(* A channel is on exactly if its length counter is, and then only may it    *)
(* have length left.                                                         *)
OnlyOnIfEnabled(c) ==
  c.length.enabled = c.enabled /\ (c.enabled \/ c.length.counter = 0)

MuteIsFresh(q) == q.sweep.mute \/ q.period < 8 \/ TargetPeriod(q) <= 2047

LegalPulse(q) == q \in PulseStates /\ OnlyOnIfEnabled(q) /\ MuteIsFresh(q)

PulseIInv == LegalPulse(pulse)
TriangleIInv == triangle \in TriangleStates /\ OnlyOnIfEnabled(triangle)
NoiseIInv == noise \in NoiseStates /\ OnlyOnIfEnabled(noise)

(* The sample player: the registers, and the sample being played. *)
DmcStates ==
  [irqEnabled : BOOLEAN, loop : BOOLEAN, rate : Rates, timer : Nat, level : 0 .. MaxLevel,
   start : SampleStarts, length : SampleLengths, current : Nat, remaining : Nat,
   irq : BOOLEAN, buffer : Seq(SampleBytes), shift : Nat, bits : Nat, silence : BOOLEAN]
PlayedStates == [start : Nat, length : Nat, fetched : Nat]

(* What is played was a sample once, also when its registers have changed.   *)
PlayedSample ==
  dmc.remaining > 0 => played.start \in SampleStarts /\ played.length \in SampleLengths

DmcIInv ==
  /\ dmc \in DmcStates /\ played \in PlayedStates /\ PlayedSample /\ SamplePlaysWhole
  /\ dmc.irq => dmc.irqEnabled /\ dmc.remaining = 0

ApuIInv == FrameIInv /\ PulseIInv /\ TriangleIInv /\ NoiseIInv /\ DmcIInv

-----------------------------------------------------------------------------
(* The frame counter. *)

(* The events are apart, in their order. *)
LEMMA EventsApart ==
  /\ \A k \in 1 .. 5 : Events[k] \in Nat \ {0}
  /\ Events[1] + 1 < Events[2] /\ Events[2] + 1 < Events[3]
  /\ Events[3] + 1 < Events[4] /\ Events[4] + 1 < Events[5]
<1>1. \A k \in 1 .. 5 : Events[k] \in Nat \ {0}
  <2>1. Events \in Seq(Nat \ {0}) /\ Len(Events) = 5
    BY ApuAssumption
  <2> QED BY <2>1
<1>2. 1 \in 1 .. 4 /\ 2 \in 1 .. 4 /\ 3 \in 1 .. 4 /\ 4 \in 1 .. 4
  OBVIOUS
<1> QED BY <1>1, <1>2, ApuAssumption

(* The mode takes effect with a new sequence, and nothing else changes.      *)
LEMMA ApplyModeEffect ==
  ASSUME NEW f \in FrameStates
  PROVE  /\ ApplyMode(f) \in FrameStates
         /\ ApplyMode(f).irq = f.irq /\ ApplyMode(f).inhibit = f.inhibit
         /\ ApplyMode(f).phase = f.phase /\ ApplyMode(f).pending = NoMode
         /\ f.pending # NoMode => ApplyMode(f).cycle = 0
<1>1. f.pending \in Modes \cup {NoMode}
  BY DEF FrameStates
<1>2. CASE f.pending = NoMode
  BY <1>2 DEF ApplyMode
<1>3. CASE f.pending # NoMode
  BY <1>1, <1>3 DEF ApplyMode, FrameStates
<1> QED BY <1>2, <1>3

(* A write to $4017 takes back the interrupt it inhibits, and asks for the   *)
(* mode to be applied at the right phase.                                    *)
LEMMA WriteEffect ==
  ASSUME NEW f \in FrameStates, NEW w \in [mode : {4, 5}, inhibit : BOOLEAN]
  PROVE  LET g == WriteFrameCounter(f, w) IN
         /\ g \in FrameStates /\ g.pending = w.mode /\ g.pending # NoMode
         /\ g.irq = (f.irq /\ ~w.inhibit) /\ g.inhibit = w.inhibit
         /\ g.mode = f.mode /\ g.cycle = f.cycle /\ g.phase = f.phase
         /\ g.delay = IF f.phase THEN 4 ELSE 3
<1>1. PICK i \in BOOLEAN : i = (f.irq /\ ~w.inhibit)
  OBVIOUS
<1>2. PICK d \in 0 .. 4 : d = IF f.phase THEN 4 ELSE 3
  OBVIOUS
<1>3. WriteFrameCounter(f, w) =
        [f EXCEPT !.last = w, !.inhibit = w.inhibit, !.irq = i,
                  !.pending = w.mode, !.delay = d]
  BY <1>1, <1>2 DEF WriteFrameCounter
<1>4. w.mode # NoMode
  BY ApuAssumption
<1> QED BY <1>1, <1>2, <1>3, <1>4 DEF FrameStates, Modes

(* One CPU cycle. *)
LEMMA TickFrameEffect ==
  ASSUME FrameIInv
  PROVE  /\ TickFrame(frame) \in FrameStates
         /\ TickFrame(frame).inhibit = frame.inhibit
         /\ TickFrame(frame).phase = ~frame.phase
         /\ TickFrame(frame).irq =
              (frame.irq \/ (/\ frame.mode = 4 /\ frame.cycle + 1 >= Events[4] - 1
                             /\ ~frame.inhibit))
         /\ Due(frame) => TickFrame(frame).pending = NoMode /\ TickFrame(frame).cycle = 0
         /\ ~Due(frame) =>
              /\ TickFrame(frame).mode = frame.mode
              /\ TickFrame(frame).pending = frame.pending
              /\ TickFrame(frame).cycle =
                   IF frame.cycle + 1 > IF frame.mode = 4 THEN Events[4] ELSE Events[5]
                   THEN 0 ELSE frame.cycle + 1
              /\ frame.pending # NoMode => TickFrame(frame).delay = frame.delay - 1
<1> DEFINE at == [frame EXCEPT !.phase = ~@, !.cycle = @ + 1]
           ticked == AdvanceFrameCounter(at)
<1>1. /\ at \in FrameStates /\ at.phase = ~frame.phase /\ at.cycle = frame.cycle + 1
      /\ at.mode = frame.mode /\ at.inhibit = frame.inhibit /\ at.irq = frame.irq
      /\ at.pending = frame.pending /\ at.delay = frame.delay
  <2>1. PICK c \in Nat : c = frame.cycle + 1
    BY DEF FrameIInv, FrameStates
  <2>2. PICK b \in BOOLEAN : b = ~frame.phase
    OBVIOUS
  <2>3. at = [frame EXCEPT !.phase = b, !.cycle = c]
    BY <2>1, <2>2
  <2> QED BY <2>1, <2>2, <2>3 DEF FrameIInv, FrameStates
<1> HIDE DEF at
<1>2. /\ ticked \in FrameStates /\ ticked.phase = at.phase /\ ticked.mode = at.mode
      /\ ticked.inhibit = at.inhibit /\ ticked.pending = at.pending
      /\ ticked.delay = at.delay
      /\ ticked.irq = (at.irq \/ (at.mode = 4 /\ at.cycle >= Events[4] - 1 /\ ~at.inhibit))
      /\ ticked.cycle = IF at.cycle > IF at.mode = 4 THEN Events[4] ELSE Events[5]
                        THEN 0 ELSE at.cycle
  BY <1>1 DEF AdvanceFrameCounter, IrqWindow, Wrapping, FrameStates
<1> HIDE DEF ticked
<1>3. TickFrame(frame) =
        IF frame.pending = NoMode THEN ticked
        ELSE IF Due(frame) THEN ApplyMode([ticked EXCEPT !.delay = 0])
        ELSE [ticked EXCEPT !.delay = @ - 1]
  BY DEF TickFrame, ticked, at
<1>4. CASE frame.pending = NoMode
  BY <1>1, <1>2, <1>3, <1>4 DEF Due
<1>5. CASE frame.pending # NoMode /\ Due(frame)
  <2> DEFINE now == [ticked EXCEPT !.delay = 0]
  <2>1. /\ now \in FrameStates /\ now.irq = ticked.irq /\ now.inhibit = ticked.inhibit
        /\ now.phase = ticked.phase /\ now.pending = ticked.pending
    BY <1>2 DEF FrameStates
  <2>2. TickFrame(frame) = ApplyMode(now)
    BY <1>3, <1>5
  <2> HIDE DEF now
  <2> QED BY <1>1, <1>2, <1>5, <2>1, <2>2, ApplyModeEffect
<1>6. CASE frame.pending # NoMode /\ ~Due(frame)
  <2>1. frame.delay - 1 \in 0 .. 4
    BY <1>6 DEF FrameIInv, FrameStates, Due
  <2> QED BY <1>1, <1>2, <1>3, <1>6, <2>1 DEF FrameStates
<1> QED BY <1>4, <1>5, <1>6 DEF Due

(* The invariant of the frame counter is kept by every step. *)
LEMMA FrameKept ==
  ASSUME FrameIInv, [ApuNext]_apuVars
  PROVE  FrameIInv'
<1>1. CASE TickCycle
  <2>1. frame' = TickFrame(frame) /\ frame \in FrameStates /\ frame' \in FrameStates
    BY <1>1, TickFrameEffect DEF TickCycle, FrameIInv
  <2>2. frame.cycle \in Nat /\ frame.mode \in Modes /\ frame.phase \in BOOLEAN
        /\ frame.delay \in 0 .. 4 /\ frame'.mode \in Modes
    BY <2>1 DEF FrameStates
  <2>3. TallyFollows'
    <3> DEFINE at == [frame EXCEPT !.cycle = @ + 1]
    <3>1. at.cycle = frame.cycle + 1 /\ at.mode = frame.mode
      BY <2>1 DEF FrameStates
    <3>2. tally' = IF Wrapping(at) \/ Due(frame) THEN [quarter |-> 0, half |-> 0]
                   ELSE [quarter |-> tally.quarter + (IF Quarter(at) THEN 1 ELSE 0),
                         half |-> tally.half + (IF Half(at) THEN 1 ELSE 0)]
      BY <1>1 DEF TickCycle
    <3> HIDE DEF at
    <3>3. Wrapping(at) <=>
            frame.cycle + 1 > IF frame.mode = 4 THEN Events[4] ELSE Events[5]
      BY <3>1 DEF Wrapping
    <3>4. CASE Wrapping(at) \/ Due(frame)
      <4>1. frame'.cycle = 0
        BY <2>1, <3>3, <3>4, TickFrameEffect
      <4> QED BY <2>2, <3>2, <3>4, <4>1, EventsApart DEF TallyFollows, Passed
    <3>5. CASE ~Wrapping(at) /\ ~Due(frame)
      <4>1. frame'.cycle = frame.cycle + 1 /\ frame'.mode = frame.mode
        BY <2>1, <3>3, <3>5, TickFrameEffect
      <4>2. Quarter(at) <=>
              \/ frame.cycle + 1 \in {Events[1], Events[2], Events[3]}
              \/ frame.cycle + 1 = IF frame.mode = 4 THEN Events[4] ELSE Events[5]
        BY <3>1 DEF Quarter
      <4>3. Half(at) <=>
              \/ frame.cycle + 1 = Events[2]
              \/ frame.cycle + 1 = IF frame.mode = 4 THEN Events[4] ELSE Events[5]
        BY <3>1 DEF Half
      <4>4. CASE frame.mode = 4
        BY <2>2, <3>2, <3>3, <3>5, <4>1, <4>2, <4>3, <4>4, EventsApart
        DEF FrameIInv, TallyFollows, Passed
      <4>5. CASE frame.mode = 5
        BY <2>2, <3>2, <3>3, <3>5, <4>1, <4>2, <4>3, <4>5, EventsApart
        DEF FrameIInv, TallyFollows, Passed
      <4> QED BY <2>2, <4>4, <4>5 DEF Modes
    <3> QED BY <3>4, <3>5
  <2>4. DelayInPhase'
    BY <2>1, <2>2, TickFrameEffect DEF FrameIInv, DelayInPhase, Due
  <2>5. frame'.irq => ~frame'.inhibit
    BY <2>1, TickFrameEffect DEF FrameIInv
  <2> QED BY <2>1, <2>3, <2>4, <2>5 DEF FrameIInv
<1>2. CASE Write4017
  <2>1. PICK w \in [mode : {4, 5}, inhibit : BOOLEAN] :
          frame' = WriteFrameCounter(frame, w) /\ tally' = tally
    BY <1>2 DEF Write4017
  <2>2. /\ frame' \in FrameStates /\ frame'.irq = (frame.irq /\ ~w.inhibit)
        /\ frame'.inhibit = w.inhibit /\ frame'.mode = frame.mode
        /\ frame'.cycle = frame.cycle /\ frame'.phase = frame.phase
        /\ frame'.delay = IF frame.phase THEN 4 ELSE 3
    BY <2>1, WriteEffect DEF FrameIInv
  <2>3. TallyFollows'
    BY <2>1, <2>2 DEF FrameIInv, TallyFollows, Passed
  <2>4. DelayInPhase'
    BY <2>2 DEF FrameIInv, FrameStates, DelayInPhase
  <2> QED BY <2>2, <2>3, <2>4 DEF FrameIInv
<1>3. CASE Read4015
  <2>1. /\ frame' \in FrameStates /\ frame'.irq = FALSE /\ tally' = tally
        /\ frame'.mode = frame.mode /\ frame'.cycle = frame.cycle
        /\ frame'.pending = frame.pending /\ frame'.delay = frame.delay
        /\ frame'.phase = frame.phase
    BY <1>3 DEF Read4015, FrameIInv, FrameStates
  <2> QED BY <2>1 DEF FrameIInv, TallyFollows, Passed, DelayInPhase
<1>4. CASE ApuSoftReset
  <2> DEFINE acked == [frame EXCEPT !.irq = FALSE]
             written == WriteFrameCounter(acked, frame.last)
  <2>1. /\ acked \in FrameStates /\ acked.irq = FALSE
        /\ frame.last \in [mode : {4, 5}, inhibit : BOOLEAN]
    BY DEF FrameIInv, FrameStates, Modes
  <2>2. frame' = ApplyMode(written) /\ tally' = [quarter |-> 0, half |-> 0]
    BY <1>4 DEF ApuSoftReset
  <2> HIDE DEF acked
  <2>3. written \in FrameStates /\ (written.irq => ~written.inhibit)
        /\ written.pending # NoMode
    BY <2>1, WriteEffect
  <2> HIDE DEF written
  <2>4. /\ frame' \in FrameStates /\ frame'.irq = written.irq /\ frame'.cycle = 0
        /\ frame'.inhibit = written.inhibit /\ frame'.pending = NoMode
    BY <2>2, <2>3, ApplyModeEffect
  <2> QED BY <2>2, <2>3, <2>4, EventsApart DEF FrameIInv, TallyFollows, Passed, DelayInPhase
<1>5. CASE UNCHANGED <<frame, tally>>
  BY <1>5 DEF FrameIInv, TallyFollows, Passed, DelayInPhase
<1>6. \/ TickCycle \/ Write4017 \/ Read4015 \/ ApuSoftReset \/ UNCHANGED <<frame, tally>>
  BY DEF ApuNext, apuVars, sequencer, SweepWrite, SweepWriteHi, SweepClock, PulseWrite,
         PulseClock, NoiseWrite, NoiseClock, NoiseShift, TriangleWrite, TriangleClock,
         DmcWrite, DmcSwitch, DmcCycle
<1> QED BY <1>1, <1>2, <1>3, <1>4, <1>5, <1>6

-----------------------------------------------------------------------------
(* The building blocks of the channels. *)

(* A length counter keeps its type and stays off while its channel is. *)
LegalLength(l) == l \in LengthStates /\ (l.enabled \/ l.counter = 0)

(* Switching the counter off empties it. *)
LEMMA LengthEnableKept ==
  ASSUME NEW l \in LengthStates, NEW on \in BOOLEAN
  PROVE  LegalLength(LengthEnable(l, on)) /\ LengthEnable(l, on).enabled = on
<1>1. PICK c \in Nat : c = IF on THEN l.counter ELSE 0
  BY DEF LengthStates
<1>2. LengthEnable(l, on) = [l EXCEPT !.enabled = on, !.counter = c]
  BY <1>1 DEF LengthEnable
<1> QED BY <1>1, <1>2 DEF LegalLength, LengthStates

(* A load is only heard while the counter is enabled. *)
LEMMA LengthLoadKept ==
  ASSUME NEW l, LegalLength(l), NEW n \in Lengths
  PROVE  LegalLength(LengthLoad(l, n)) /\ LengthLoad(l, n).enabled = l.enabled
<1>1. n \in Nat
  BY ApuAssumption
<1> QED BY <1>1 DEF LegalLength, LengthLoad, LengthStates

(* A clock counts down to zero and no further. *)
LEMMA LengthClockKept ==
  ASSUME NEW l, LegalLength(l)
  PROVE  LegalLength(LengthClock(l)) /\ LengthClock(l).enabled = l.enabled
<1>1. CASE ~l.halt /\ l.counter > 0
  <2>1. l.counter - 1 \in Nat
    BY <1>1 DEF LegalLength, LengthStates
  <2> QED BY <1>1, <2>1 DEF LegalLength, LengthStates, LengthClock
<1>2. CASE l.halt \/ ~(l.counter > 0)
  BY <1>2 DEF LegalLength, LengthClock
<1> QED BY <1>1, <1>2

(* An envelope's decay stays at or below its maximum, whatever it is given.  *)
LEMMA EnvelopeKept ==
  ASSUME NEW e \in EnvelopeStates
  PROVE  /\ EnvelopeClock(e) \in EnvelopeStates
         /\ [e EXCEPT !.start = TRUE] \in EnvelopeStates
         /\ \A loop, constant \in BOOLEAN, v \in Volumes :
              [e EXCEPT !.loop = loop, !.constant = constant, !.volume = v]
                \in EnvelopeStates
<1>1. Volumes \subseteq Nat /\ MaxDecay \in 0 .. MaxDecay
  BY ApuAssumption
<1>2. EnvelopeClock(e) \in EnvelopeStates
  <2>1. PICK d \in 0 .. MaxDecay :
          d = IF e.decay > 0 THEN e.decay - 1 ELSE IF e.loop THEN MaxDecay ELSE e.decay
    BY <1>1, ApuAssumption DEF EnvelopeStates
  <2>2. CASE e.start
    BY <1>1, <2>2 DEF EnvelopeClock, EnvelopeStates
  <2>3. CASE ~e.start /\ e.divider = 0
    <3>1. EnvelopeClock(e) = [e EXCEPT !.divider = e.volume, !.decay = d]
      BY <2>1, <2>3 DEF EnvelopeClock
    <3> QED BY <3>1 DEF EnvelopeStates
  <2>4. CASE ~e.start /\ e.divider # 0
    <3>1. e.divider - 1 \in Nat
      BY <2>4 DEF EnvelopeStates
    <3> QED BY <2>4, <3>1 DEF EnvelopeClock, EnvelopeStates
  <2> QED BY <2>2, <2>3, <2>4
<1> QED BY <1>1, <1>2 DEF EnvelopeStates

(* The change a sweep makes is no larger than the period: a power of two     *)
(* divides it.                                                               *)
LEMMA SweepChange ==
  ASSUME NEW period \in Nat, NEW shift \in 0 .. 7
  PROVE  ShiftRight(period, shift) \in 0 .. period
<1> DEFINE Power(x) == 2^x
<1>1. /\ Power(0) = 1 /\ Power(1) = 2 /\ Power(2) = 4 /\ Power(3) = 8
      /\ Power(4) = 16 /\ Power(5) = 32 /\ Power(6) = 64 /\ Power(7) = 128
  OBVIOUS
<1>2. ShiftRight(period, shift) = period \div Power(shift)
  BY DEF ShiftRight
<1> HIDE DEF Power
<1>3. PICK k \in Nat \ {0} : k = Power(shift)
  BY <1>1
<1>4. (period \div k) \in 0 .. period
  OBVIOUS
<1> QED BY <1>2, <1>3, <1>4

(* The period a sweep aims at is never negative. *)
LEMMA TargetIsPeriod ==
  ASSUME NEW q \in PulseStates
  PROVE  TargetPeriod(q) \in Nat
<1>1. q.period \in Nat /\ q.sweep.shift \in 0 .. 7
  BY DEF PulseStates, SweepStates
<1>2. ShiftRight(q.period, q.sweep.shift) \in 0 .. q.period
  BY <1>1, SweepChange
<1>3. PICK change : change \in 0 .. q.period /\ change = ShiftRight(q.period, q.sweep.shift)
  BY <1>2
<1>5. TargetPeriod(q) =
        LET bias == IF q.channel = 0 THEN 1 ELSE 0
            down == q.period - (change + bias)
        IN  IF q.sweep.negate THEN IF down < 0 THEN 0 ELSE down ELSE q.period + change
  BY <1>3 DEF TargetPeriod
<1> QED BY <1>1, <1>3, <1>5

(* The mute that is cached is the one of the period and the sweep. *)
LEMMA MuteUpdated ==
  ASSUME NEW q \in PulseStates
  PROVE  LET r == UpdateSweepMute(q) IN
         /\ r \in PulseStates /\ r.period = q.period /\ r.length = q.length
         /\ r.enabled = q.enabled
         /\ r.sweep.mute <=> (q.period < 8 \/ TargetPeriod(q) > 2047)
         /\ TargetPeriod(r) = TargetPeriod(q)
         /\ r.sweep.enabled = q.sweep.enabled /\ r.sweep.shift = q.sweep.shift
         /\ r.sweep.divider = q.sweep.divider /\ r.sweep.reload = q.sweep.reload
         /\ r.sweep.period = q.sweep.period
<1> DEFINE b == q.period < 8 \/ TargetPeriod(q) > 2047
           s == [q.sweep EXCEPT !.mute = b]
<1>1. b \in BOOLEAN
  OBVIOUS
<1>2. UpdateSweepMute(q) = [q EXCEPT !.sweep = s]
  BY DEF UpdateSweepMute
<1> HIDE DEF b
<1>3. /\ s \in SweepStates
      /\ (s.mute <=> b) /\ s.shift = q.sweep.shift
      /\ s.negate = q.sweep.negate /\ s.enabled = q.sweep.enabled
      /\ s.divider = q.sweep.divider /\ s.reload = q.sweep.reload
      /\ s.period = q.sweep.period
  <2>1. q.sweep \in SweepStates
    BY DEF PulseStates
  <2> QED BY <1>1, <2>1 DEF SweepStates
<1> HIDE DEF s
<1>4. /\ [q EXCEPT !.sweep = s] \in PulseStates
      /\ [q EXCEPT !.sweep = s].sweep = s /\ [q EXCEPT !.sweep = s].period = q.period
      /\ [q EXCEPT !.sweep = s].length = q.length
      /\ [q EXCEPT !.sweep = s].enabled = q.enabled
      /\ [q EXCEPT !.sweep = s].channel = q.channel
  BY <1>3 DEF PulseStates
<1> QED BY <1>2, <1>3, <1>4 DEF TargetPeriod, b

(* What the mute is computed from is all that decides whether it is fresh. *)
LEMMA SameSweep ==
  ASSUME NEW q, NEW r, r.period = q.period, r.channel = q.channel, r.sweep = q.sweep
  PROVE  TargetPeriod(r) = TargetPeriod(q) /\ MuteIsFresh(r) = MuteIsFresh(q)
BY DEF TargetPeriod, MuteIsFresh

(* A clock of the sweep moves the period to its target only where that is a  *)
(* period, and leaves a fresh mute behind whatever it did.                   *)
LEMMA ClockSweepKept ==
  ASSUME NEW q, LegalPulse(q)
  PROVE  LegalPulse(ClockSweep(q))
<1> DEFINE fresh == UpdateSweepMute(q)
           moves == fresh.sweep.divider = 0 /\ fresh.sweep.enabled
                    /\ ~fresh.sweep.mute /\ fresh.sweep.shift > 0
           stepped == [fresh EXCEPT !.period = TargetPeriod(fresh)]
           moved == IF moves THEN UpdateSweepMute(stepped) ELSE fresh
<1>1. q \in PulseStates /\ OnlyOnIfEnabled(q)
  BY DEF LegalPulse
<1>2. /\ fresh \in PulseStates /\ fresh.length = q.length /\ fresh.enabled = q.enabled
      /\ fresh.sweep.mute <=> (fresh.period < 8 \/ TargetPeriod(fresh) > 2047)
  BY <1>1, MuteUpdated
<1>3. ClockSweep(q) =
        IF fresh.sweep.divider = 0 \/ fresh.sweep.reload
        THEN [moved EXCEPT !.sweep.divider = fresh.sweep.period, !.sweep.reload = FALSE]
        ELSE [moved EXCEPT !.sweep.divider = @ - 1]
  BY DEF ClockSweep
<1> HIDE DEF fresh
<1>4. /\ moved \in PulseStates /\ moved.length = q.length /\ moved.enabled = q.enabled
      /\ moved.sweep.divider = fresh.sweep.divider /\ MuteIsFresh(moved)
  <2> HIDE DEF moves
  <2>1. TargetPeriod(fresh) \in Nat
    BY <1>2, TargetIsPeriod
  <2>2. CASE moves
    <3>1. TargetPeriod(fresh) \in 0 .. MaxPeriod
      <4>1. ~fresh.sweep.mute
        BY <2>2 DEF moves
      <4>2. fresh.sweep.mute <=> (fresh.period < 8 \/ TargetPeriod(fresh) > 2047)
        BY <1>2
      <4> HIDE DEF moved, stepped
      <4>3. TargetPeriod(fresh) <= 2047
        BY <2>1, <4>1, <4>2
      <4> QED BY <2>1, <4>3 DEF MaxPeriod
    <3>2. /\ stepped \in PulseStates /\ stepped.length = q.length /\ stepped.enabled = q.enabled
          /\ stepped.sweep = fresh.sweep
      BY <1>2, <3>1 DEF PulseStates
    <3> HIDE DEF stepped
    <3>3. moved = UpdateSweepMute(stepped)
      BY <2>2
    <3>4. /\ moved \in PulseStates /\ moved.period = stepped.period
          /\ moved.length = stepped.length /\ moved.enabled = stepped.enabled
          /\ moved.sweep.divider = stepped.sweep.divider
          /\ moved.sweep.mute <=> (stepped.period < 8 \/ TargetPeriod(stepped) > 2047)
          /\ TargetPeriod(moved) = TargetPeriod(stepped)
      BY <3>2, <3>3, MuteUpdated
    <3>5. stepped.period \in Nat
      BY <3>1, <3>2 DEF PulseStates
    <3>6. TargetPeriod(stepped) \in Nat
      BY <3>2, TargetIsPeriod
    <3> HIDE DEF moved
    <3> QED BY <3>2, <3>4, <3>5, <3>6 DEF MuteIsFresh
  <2>3. CASE ~moves
    <3>1. moved = fresh
      BY <2>3
    <3>2. fresh.period \in Nat
      BY <1>2 DEF PulseStates
    <3> HIDE DEF moved
    <3> QED BY <1>2, <2>1, <3>1, <3>2 DEF MuteIsFresh
  <2> HIDE DEF moved
  <2> QED BY <2>2, <2>3
<1> HIDE DEF moved
<1>5. ASSUME NEW s \in SweepStates, s.mute = moved.sweep.mute,
             s.negate = moved.sweep.negate, s.shift = moved.sweep.shift
      PROVE  LegalPulse([moved EXCEPT !.sweep = s])
  <2> DEFINE r == [moved EXCEPT !.sweep = s]
  <2>1. /\ r \in PulseStates /\ r.length = q.length /\ r.enabled = q.enabled
        /\ r.period = moved.period /\ r.channel = moved.channel /\ r.sweep = s
    BY <1>4 DEF PulseStates
  <2> HIDE DEF r
  <2>2. TargetPeriod(r) = TargetPeriod(moved)
    BY <1>5, <2>1 DEF TargetPeriod
  <2>3. LegalPulse(r)
    BY <1>1, <1>4, <1>5, <2>1, <2>2 DEF LegalPulse, OnlyOnIfEnabled, MuteIsFresh
  <2> QED BY <2>3 DEF r
<1>6. /\ fresh.sweep.period \in Nat /\ fresh.sweep.divider \in Nat
      /\ moved.sweep \in SweepStates
  BY <1>2, <1>4 DEF PulseStates, SweepStates
<1>7. CASE fresh.sweep.divider = 0 \/ fresh.sweep.reload
  <2> DEFINE s == [moved.sweep EXCEPT !.divider = fresh.sweep.period, !.reload = FALSE]
  <2>1. /\ s \in SweepStates /\ s.mute = moved.sweep.mute
        /\ s.negate = moved.sweep.negate /\ s.shift = moved.sweep.shift
    BY <1>6 DEF SweepStates
  <2>2. ClockSweep(q) = [moved EXCEPT !.sweep = s]
    <3>1. ClockSweep(q) =
            [moved EXCEPT !.sweep.divider = fresh.sweep.period, !.sweep.reload = FALSE]
      BY <1>3, <1>7
    <3> QED BY <1>4, <1>6, <3>1 DEF PulseStates, SweepStates
  <2> HIDE DEF s
  <2> QED BY <1>5, <2>1, <2>2
<1>8. CASE ~(fresh.sweep.divider = 0 \/ fresh.sweep.reload)
  <2>1. PICK n \in Nat : n = moved.sweep.divider - 1
    BY <1>4, <1>6, <1>8
  <2> DEFINE s == [moved.sweep EXCEPT !.divider = n]
  <2>2. /\ s \in SweepStates /\ s.mute = moved.sweep.mute
        /\ s.negate = moved.sweep.negate /\ s.shift = moved.sweep.shift
    BY <1>6 DEF SweepStates
  <2>3. ClockSweep(q) = [moved EXCEPT !.sweep = s]
    <3>1. ClockSweep(q) = [moved EXCEPT !.sweep.divider = moved.sweep.divider - 1]
      BY <1>3, <1>8
    <3> QED BY <2>1, <3>1
  <2> HIDE DEF s
  <2> QED BY <1>5, <2>2, <2>3
<1> QED BY <1>7, <1>8

(* A pulse channel stays legal with another envelope, and with another legal *)
(* length counter as long as that follows the channel.                       *)
LEMMA PulseEnvelopePart ==
  ASSUME NEW q, LegalPulse(q), NEW e \in EnvelopeStates
  PROVE  LegalPulse([q EXCEPT !.envelope = e])
<1> DEFINE r == [q EXCEPT !.envelope = e]
<1>1. /\ r \in PulseStates /\ r.length = q.length /\ r.enabled = q.enabled
      /\ r.period = q.period /\ r.channel = q.channel /\ r.sweep = q.sweep
  BY DEF LegalPulse, PulseStates
<1> HIDE DEF r
<1>2. MuteIsFresh(r)
  BY <1>1, SameSweep DEF LegalPulse
<1>3. LegalPulse(r)
  BY <1>1, <1>2 DEF LegalPulse, OnlyOnIfEnabled
<1> QED BY <1>3 DEF r

(* The same for its length counter, which switches the channel. *)
LEMMA PulseLengthPart ==
  ASSUME NEW q, LegalPulse(q), NEW l, LegalLength(l)
  PROVE  LegalPulse([q EXCEPT !.enabled = l.enabled, !.length = l])
<1> DEFINE r == [q EXCEPT !.enabled = l.enabled, !.length = l]
<1>1. q \in PulseStates /\ l \in LengthStates /\ l.enabled \in BOOLEAN
  BY DEF LegalPulse, LegalLength, LengthStates
<1>2. /\ r \in PulseStates /\ r.length = l /\ r.enabled = l.enabled
      /\ r.period = q.period /\ r.channel = q.channel /\ r.sweep = q.sweep
  BY <1>1 DEF PulseStates
<1> HIDE DEF r
<1>3. MuteIsFresh(r)
  BY <1>2, SameSweep DEF LegalPulse
<1>4. LegalPulse(r)
  BY <1>2, <1>3 DEF LegalPulse, OnlyOnIfEnabled, LegalLength
<1> QED BY <1>4 DEF r

(* Where the mute is computed anew it is fresh. *)
LEMMA UpdateIsLegal ==
  ASSUME NEW q \in PulseStates, OnlyOnIfEnabled(q)
  PROVE  LegalPulse(UpdateSweepMute(q))
<1> DEFINE r == UpdateSweepMute(q)
<1>1. /\ r \in PulseStates /\ r.length = q.length /\ r.enabled = q.enabled
      /\ r.period = q.period /\ TargetPeriod(r) = TargetPeriod(q)
      /\ r.sweep.mute <=> (q.period < 8 \/ TargetPeriod(q) > 2047)
  BY MuteUpdated
<1>2. TargetPeriod(q) \in Nat /\ q.period \in Nat
  BY TargetIsPeriod DEF PulseStates
<1> HIDE DEF r
<1>3. LegalPulse(r)
  BY <1>1, <1>2 DEF LegalPulse, OnlyOnIfEnabled, MuteIsFresh
<1> QED BY <1>3 DEF r

(* A byte written to a period leaves the other byte, and eleven bits. *)
LEMMA PeriodWrites ==
  ASSUME NEW old \in 0 .. MaxPeriod, NEW per \in Periods
  PROVE  /\ (old \div 256) * 256 + (per % 256) \in 0 .. MaxPeriod
         /\ (per \div 256) * 256 + (old % 256) \in 0 .. MaxPeriod
<1>1. MaxPeriod = 2047
  BY DEF MaxPeriod
<1>2. per \in 0 .. MaxPeriod
  BY ApuAssumption DEF MaxPeriod
<1>3. ASSUME NEW a \in Nat, NEW b \in Nat, a <= 2047, b <= 2047
      PROVE  (a \div 256) * 256 + (b % 256) \in Nat /\ (a \div 256) * 256 + (b % 256) <= 2047
  <2>1. a \div 256 \in 0 .. 7 /\ b % 256 \in 0 .. 255
    BY <1>3
  <2> QED BY <2>1
<1>4. old \in Nat /\ old <= 2047 /\ per \in Nat /\ per <= 2047
  BY <1>1, <1>2
<1>5. PICK m \in Nat : m = (old \div 256) * 256 + (per % 256) /\ m <= 2047
  BY <1>3, <1>4
<1>6. PICK n \in Nat : n = (per \div 256) * 256 + (old % 256) /\ n <= 2047
  BY <1>3, <1>4
<1>7. \A x \in Nat : x <= 2047 => x \in 0 .. MaxPeriod
  BY <1>1
<1> QED BY <1>5, <1>6, <1>7

(* The writes and clocks of a channel's length counter and envelope. *)
LEMMA PulseEnvelopeKept ==
  ASSUME NEW q, LegalPulse(q)
  PROVE  /\ \A halt, constant \in BOOLEAN, v \in Volumes :
              LegalPulse(WriteEnvelope(q, halt, constant, v))
         /\ \A on \in BOOLEAN : LegalPulse(Enable(q, on))
         /\ LegalPulse(ClockQuarter(q)) /\ LegalPulse(ClockHalf(q))
         /\ \A n \in Lengths : LegalPulse(LoadLength(q, n))
<1>1. q \in PulseStates /\ LegalLength(q.length) /\ q.envelope \in EnvelopeStates
      /\ q.length.enabled = q.enabled /\ [q EXCEPT !.enabled = q.enabled] = q
  BY DEF LegalPulse, PulseStates, OnlyOnIfEnabled, LegalLength
<1>2. ASSUME NEW halt \in BOOLEAN, NEW constant \in BOOLEAN, NEW v \in Volumes
      PROVE  LegalPulse(WriteEnvelope(q, halt, constant, v))
  <2> DEFINE e == [q.envelope EXCEPT !.loop = halt, !.constant = constant, !.volume = v]
             l == [q.length EXCEPT !.halt = halt]
  <2>1. e \in EnvelopeStates
    BY <1>1, EnvelopeKept
  <2>2. LegalLength(l) /\ l.enabled = q.enabled
    BY <1>1 DEF LegalLength, LengthStates
  <2>3. WriteEnvelope(q, halt, constant, v) =
          [[q EXCEPT !.enabled = l.enabled, !.length = l] EXCEPT !.envelope = e]
    BY <1>1, <2>2 DEF WriteEnvelope, PulseStates, LengthStates, EnvelopeStates
  <2> HIDE DEF e, l
  <2>4. LegalPulse([q EXCEPT !.enabled = l.enabled, !.length = l])
    BY <2>2, PulseLengthPart
  <2>5. LegalPulse([[q EXCEPT !.enabled = l.enabled, !.length = l] EXCEPT !.envelope = e])
    BY <2>1, <2>4, PulseEnvelopePart
  <2> QED BY <2>3, <2>5
<1>3. ASSUME NEW on \in BOOLEAN
      PROVE  LegalPulse(Enable(q, on))
  <2>1. PICK l : l = LengthEnable(q.length, on)
    OBVIOUS
  <2>2. LegalLength(l) /\ l.enabled = on
    BY <1>1, <2>1, LengthEnableKept DEF LegalLength
  <2>3. Enable(q, on) = [q EXCEPT !.enabled = l.enabled, !.length = l]
    BY <2>1, <2>2 DEF Enable
  <2>4. LegalPulse([q EXCEPT !.enabled = l.enabled, !.length = l])
    BY <2>2, PulseLengthPart
  <2> QED BY <2>3, <2>4
<1>4. LegalPulse(ClockQuarter(q))
  <2>1. PICK e \in EnvelopeStates : e = EnvelopeClock(q.envelope)
    BY <1>1, EnvelopeKept
  <2> QED BY <1>1, <2>1, PulseEnvelopePart DEF ClockQuarter
<1>5. LegalPulse(ClockHalf(q))
  <2>1. PICK l : l = LengthClock(q.length)
    OBVIOUS
  <2>2. LegalLength(l) /\ l.enabled = q.enabled
    BY <1>1, <2>1, LengthClockKept
  <2>3. ClockHalf(q) = [q EXCEPT !.enabled = l.enabled, !.length = l]
    BY <1>1, <2>1, <2>2 DEF ClockHalf, PulseStates
  <2>4. LegalPulse([q EXCEPT !.enabled = l.enabled, !.length = l])
    BY <2>2, PulseLengthPart
  <2> QED BY <2>3, <2>4
<1>6. ASSUME NEW n \in Lengths
      PROVE  LegalPulse(LoadLength(q, n))
  <2>1. PICK e \in EnvelopeStates : e = [q.envelope EXCEPT !.start = TRUE]
    BY <1>1, EnvelopeKept
  <2>2. PICK l : l = LengthLoad(q.length, n)
    OBVIOUS
  <2>3. LegalLength(l) /\ l.enabled = q.enabled
    BY <1>1, <2>2, LengthLoadKept
  <2>4. LoadLength(q, n) =
          [[q EXCEPT !.enabled = l.enabled, !.length = l] EXCEPT !.envelope = e]
    BY <1>1, <2>1, <2>2, <2>3 DEF LoadLength, PulseStates
  <2>5. LegalPulse([q EXCEPT !.enabled = l.enabled, !.length = l])
    BY <2>3, PulseLengthPart
  <2>6. LegalPulse([[q EXCEPT !.enabled = l.enabled, !.length = l] EXCEPT !.envelope = e])
    BY <2>1, <2>5, PulseEnvelopePart
  <2> QED BY <2>4, <2>6
<1> QED BY <1>2, <1>3, <1>4, <1>5, <1>6

(* Every step keeps the pulse channel legal. *)
LEMMA PulseKept ==
  ASSUME PulseIInv, [ApuNext]_apuVars
  PROVE  PulseIInv'
<1>1. LegalPulse(pulse) /\ pulse \in PulseStates /\ OnlyOnIfEnabled(pulse)
  BY DEF PulseIInv, LegalPulse
<1>2. CASE SweepWrite
  <2>1. ASSUME NEW on \in BOOLEAN, NEW negate \in BOOLEAN, NEW d \in Dividers,
               NEW s \in Shifts, pulse' = WriteSweep(pulse, on, d, negate, s)
        PROVE  LegalPulse(pulse')
    <3> DEFINE w == [pulse.sweep EXCEPT !.enabled = on, !.period = d, !.negate = negate,
                                        !.shift = s, !.reload = TRUE]
    <3>1. d \in Nat /\ s \in 0 .. 7
      BY ApuAssumption
    <3>2. w \in SweepStates
      BY <1>1, <3>1 DEF PulseStates, SweepStates
    <3>3. WriteSweep(pulse, on, d, negate, s) = UpdateSweepMute([pulse EXCEPT !.sweep = w])
      BY DEF WriteSweep
    <3> HIDE DEF w
    <3>4. [pulse EXCEPT !.sweep = w] \in PulseStates /\ OnlyOnIfEnabled([pulse EXCEPT !.sweep = w])
      BY <1>1, <3>2 DEF PulseStates, OnlyOnIfEnabled
    <3> QED BY <2>1, <3>3, <3>4, UpdateIsLegal
  <2>2. ASSUME NEW per \in Periods, pulse' = WriteLo(pulse, per)
        PROVE  LegalPulse(pulse')
    <3>1. PICK n : n \in 0 .. MaxPeriod /\ n = (pulse.period \div 256) * 256 + (per % 256)
      BY <1>1, PeriodWrites DEF PulseStates
    <3>2. /\ [pulse EXCEPT !.period = n] \in PulseStates
          /\ OnlyOnIfEnabled([pulse EXCEPT !.period = n])
      BY <1>1, <3>1 DEF PulseStates, OnlyOnIfEnabled
    <3> QED BY <2>2, <3>1, <3>2, UpdateIsLegal DEF WriteLo
  <2> QED BY <1>2, <2>1, <2>2 DEF SweepWrite, PulseIInv
<1>3. ASSUME NEW per \in 0 .. MaxPeriod, NEW n \in Lengths, NEW old,
             old = (per \div 256) * 256 + (pulse.period % 256), old \in 0 .. MaxPeriod,
             pulse' = WriteHi(pulse, per, n)
      PROVE  LegalPulse(pulse')
  <2> DEFINE w == [pulse EXCEPT !.period = old]
  <2>1. LegalLength(pulse.length) /\ pulse.envelope \in EnvelopeStates
    BY <1>1 DEF PulseStates, OnlyOnIfEnabled, LegalLength
  <2>2. /\ w \in PulseStates /\ w.length = pulse.length /\ w.envelope = pulse.envelope
        /\ w.enabled = pulse.enabled
    BY <1>1, <1>3 DEF PulseStates
  <2>3. WriteHi(pulse, per, n) = UpdateSweepMute(LoadLength(w, n))
    BY <1>3 DEF WriteHi
  <2> HIDE DEF w
  <2>4. PICK e \in EnvelopeStates : e = [w.envelope EXCEPT !.start = TRUE]
    BY <2>1, <2>2, EnvelopeKept
  <2>5. PICK l : l = LengthLoad(w.length, n)
    OBVIOUS
  <2>6. LegalLength(l) /\ l.enabled = pulse.length.enabled
    BY <2>1, <2>2, <2>5, LengthLoadKept
  <2>7. LoadLength(w, n) = [w EXCEPT !.length = l, !.envelope = e]
    BY <2>2, <2>4, <2>5 DEF LoadLength, PulseStates
  <2>8. PICK q : q = LoadLength(w, n)
    OBVIOUS
  <2>9. /\ q \in PulseStates /\ q.length = l /\ q.enabled = pulse.enabled
    BY <2>2, <2>4, <2>6, <2>7, <2>8 DEF PulseStates, LegalLength
  <2>10. OnlyOnIfEnabled(q)
    BY <1>1, <2>6, <2>9 DEF OnlyOnIfEnabled, LegalLength
  <2> QED BY <1>3, <2>3, <2>8, <2>9, <2>10, UpdateIsLegal
<1>4. CASE SweepWriteHi
  <2>1. PICK per \in Periods, n \in Lengths : pulse' = WriteHi(pulse, per, n)
    BY <1>4 DEF SweepWriteHi
  <2>2. per \in Periods /\ pulse.period \in 0 .. MaxPeriod
    BY <1>1, <2>1 DEF PulseStates
  <2>3. PICK old : old \in 0 .. MaxPeriod /\ old = (per \div 256) * 256 + (pulse.period % 256)
    BY <2>2, PeriodWrites
  <2>4. per \in 0 .. MaxPeriod
    BY <2>2, ApuAssumption DEF MaxPeriod
  <2> QED BY <1>3, <2>1, <2>3, <2>4 DEF PulseIInv
<1>5. CASE SweepClock
  <2>1. LegalPulse(ClockHalf(pulse))
    BY <1>1, PulseEnvelopeKept
  <2> QED BY <1>5, <2>1, ClockSweepKept DEF SweepClock, PulseIInv
<1>6. CASE PulseWrite
  <2>1. ASSUME NEW n \in Lengths, pulse' = WriteHi(pulse, pulse.period, n)
        PROVE  LegalPulse(pulse')
    <3>0. 0 .. MaxPeriod \subseteq Nat
      BY DEF MaxPeriod
    <3>1. pulse.period \in 0 .. MaxPeriod /\ pulse.period \in Nat
      BY <1>1, <3>0 DEF PulseStates
    <3>2. pulse.period = (pulse.period \div 256) * 256 + (pulse.period % 256)
      BY <3>1
    <3> QED BY <1>3, <2>1, <3>1, <3>2
  <2> QED BY <1>1, <1>6, <2>1, PulseEnvelopeKept DEF PulseWrite, PulseIInv
<1>7. CASE PulseClock
  <2>1. LegalPulse(ClockQuarter(pulse))
    BY <1>1, PulseEnvelopeKept
  <2>2. LegalPulse(ClockHalf(ClockQuarter(pulse)))
    BY <2>1, PulseEnvelopeKept
  <2>3. LegalPulse(ClockSweep(ClockHalf(ClockQuarter(pulse))))
    BY <2>2, ClockSweepKept
  <2> QED BY <1>7, <2>1, <2>3 DEF PulseClock, PulseIInv
<1>8. CASE ApuSoftReset
  BY <1>1, <1>8, PulseEnvelopeKept DEF ApuSoftReset, PulseIInv
<1>9. CASE UNCHANGED pulse
  BY <1>9 DEF PulseIInv, LegalPulse, OnlyOnIfEnabled, MuteIsFresh, TargetPeriod
<1>10. \/ SweepWrite \/ SweepWriteHi \/ SweepClock \/ PulseWrite \/ PulseClock
       \/ ApuSoftReset \/ UNCHANGED pulse
  BY DEF ApuNext, apuVars, channels, TickCycle, Write4017, Read4015, NoiseWrite, NoiseClock,
         NoiseShift, TriangleWrite, TriangleClock, DmcWrite, DmcSwitch, DmcCycle
<1> QED BY <1>2, <1>4, <1>5, <1>6, <1>7, <1>8, <1>9, <1>10

(* The linear counter, and the length counter of the triangle channel. *)
LEMMA TriangleKept ==
  ASSUME TriangleIInv, [ApuNext]_apuVars
  PROVE  TriangleIInv'
<1> DEFINE Legal(t) == t \in TriangleStates /\ OnlyOnIfEnabled(t)
<1>1. Legal(triangle) /\ LegalLength(triangle.length)
      /\ triangle.length.enabled = triangle.enabled
  BY DEF TriangleIInv, TriangleStates, OnlyOnIfEnabled, LegalLength
<1>2. ASSUME NEW t, Legal(t), NEW l, LegalLength(l)
      PROVE  Legal([t EXCEPT !.enabled = l.enabled, !.length = l])
  BY <1>2 DEF TriangleStates, OnlyOnIfEnabled, LegalLength, LengthStates
<1>3. ASSUME NEW t, Legal(t), NEW v \in Nat, NEW w \in Nat, NEW b \in BOOLEAN,
             NEW c \in BOOLEAN
      PROVE  Legal([t EXCEPT !.linear = v, !.reloadValue = w, !.reload = b, !.control = c])
  BY <1>3 DEF TriangleStates, OnlyOnIfEnabled
<1>4. ASSUME NEW on \in BOOLEAN
      PROVE  Legal(Enable(triangle, on))
  <2>1. PICK l : l = LengthEnable(triangle.length, on)
    OBVIOUS
  <2>2. LegalLength(l) /\ l.enabled = on
    BY <1>1, <2>1, LengthEnableKept DEF LegalLength
  <2>3. Enable(triangle, on) = [triangle EXCEPT !.enabled = l.enabled, !.length = l]
    BY <2>1, <2>2 DEF Enable
  <2> HIDE DEF Legal
  <2>4. Legal([triangle EXCEPT !.enabled = l.enabled, !.length = l])
    BY <1>1, <1>2, <2>2
  <2> QED BY <2>3, <2>4
<1>5. CASE TriangleWrite
  <2>1. ASSUME NEW control \in BOOLEAN, NEW v \in Volumes,
               triangle' = [triangle EXCEPT !.control = control, !.length.halt = control,
                                            !.reloadValue = v]
        PROVE  Legal(triangle')
    <3>1. v \in Nat
      BY ApuAssumption
    <3> QED BY <1>1, <2>1, <3>1
        DEF TriangleStates, OnlyOnIfEnabled, LegalLength, LengthStates
  <2>2. ASSUME NEW n \in Lengths,
               triangle' = [triangle EXCEPT !.length = LengthLoad(@, n), !.reload = TRUE]
        PROVE  Legal(triangle')
    <3>1. PICK l : l = LengthLoad(triangle.length, n)
      OBVIOUS
    <3>2. LegalLength(l) /\ l.enabled = triangle.enabled
      BY <1>1, <3>1, LengthLoadKept
    <3> QED BY <1>1, <2>2, <3>1, <3>2 DEF TriangleStates, OnlyOnIfEnabled, LegalLength
  <2> HIDE DEF Legal
  <2>3. Legal(triangle')
    BY <1>4, <1>5, <2>1, <2>2 DEF TriangleWrite
  <2> QED BY <2>3 DEF Legal, TriangleIInv
<1>6. CASE TriangleClock
  <2> DEFINE t == ClockLinear(triangle)
  <2>1. Legal(t) /\ LegalLength(t.length) /\ t.length.enabled = t.enabled
    <3>1. PICK v \in Nat : v = IF triangle.reload THEN triangle.reloadValue
                               ELSE IF triangle.linear > 0 THEN triangle.linear - 1 ELSE 0
      BY <1>1 DEF TriangleStates
    <3>2. (triangle.reload /\ triangle.control) \in BOOLEAN
      OBVIOUS
    <3> DEFINE b == triangle.reload /\ triangle.control
    <3>3. t = [triangle EXCEPT !.linear = v, !.reload = b]
      BY <3>1 DEF ClockLinear
    <3> HIDE DEF b, t
    <3> QED BY <1>1, <3>2, <3>3 DEF TriangleStates, OnlyOnIfEnabled, b
  <2> HIDE DEF t
  <2>2. PICK l : l = LengthClock(t.length)
    OBVIOUS
  <2>3. LegalLength(l) /\ l.enabled = t.enabled
    BY <2>1, <2>2, LengthClockKept
  <2>4. Legal(ClockHalf(t))
    BY <2>1, <2>2, <2>3 DEF ClockHalf, TriangleStates, OnlyOnIfEnabled, LegalLength
  <2>5. triangle' \in {t, ClockHalf(t)}
    BY <1>6 DEF TriangleClock, t
  <2> QED BY <2>1, <2>4, <2>5 DEF TriangleIInv
<1>7. CASE ApuSoftReset
  BY <1>4, <1>7 DEF ApuSoftReset, TriangleIInv
<1>8. CASE UNCHANGED triangle
  BY <1>8 DEF TriangleIInv, OnlyOnIfEnabled
<1>9. TriangleWrite \/ TriangleClock \/ ApuSoftReset \/ UNCHANGED triangle
  BY DEF ApuNext, apuVars, channels, TickCycle, Write4017, Read4015, SweepWrite, SweepWriteHi,
         SweepClock, PulseWrite, PulseClock, NoiseWrite, NoiseClock, NoiseShift,
         DmcWrite, DmcSwitch, DmcCycle
<1> QED BY <1>5, <1>6, <1>7, <1>8, <1>9

(* The shift register never locks up: where the last bit leaves it, the      *)
(* feedback puts one in at the top, in either mode.                          *)
LEMMA LfsrShifts ==
  ASSUME NEW x \in LfsrStates, NEW b \in {1, 6}
  PROVE  (x \div 2) + ((BitOf(x, 0) + BitOf(x, b)) % 2) * 2^14 \in LfsrStates
<1>1. x \in Nat /\ x > 0 /\ x < 2^15
  BY DEF LfsrStates
<1>2. BitOf(x, 0) = x % 2
  BY <1>1 DEF BitOf, ShiftRight
<1>3. BitOf(x, 1) = (x \div 2) % 2
  BY <1>1 DEF BitOf, ShiftRight
<1>4. BitOf(x, 6) = (x \div 64) % 2
  <2>1. x \div 2^6 = x \div 64
    OBVIOUS
  <2> QED BY <2>1 DEF BitOf, ShiftRight
<1>5. PICK f : f = (BitOf(x, 0) + BitOf(x, b)) % 2
  OBVIOUS
<1>6. f \in {0, 1} /\ (x = 1 => f = 1)
  BY <1>1, <1>2, <1>3, <1>4, <1>5
<1>7. x \div 2 \in Nat /\ x \div 2 < 2^14 /\ (x # 1 => x \div 2 > 0)
  BY <1>1
<1>8. (x \div 2) + f * 2^14 \in LfsrStates
  <2>1. CASE f = 0
    BY <1>6, <1>7, <2>1 DEF LfsrStates
  <2>2. CASE f = 1
    BY <1>7, <2>2 DEF LfsrStates
  <2> QED BY <1>6, <2>1, <2>2
<1> QED BY <1>5, <1>8

(* The noise channel: its shift register, its envelope and its length. *)
LEMMA NoiseKept ==
  ASSUME NoiseIInv, [ApuNext]_apuVars
  PROVE  NoiseIInv'
<1> DEFINE Legal(c) == c \in NoiseStates /\ OnlyOnIfEnabled(c)
<1>1. Legal(noise) /\ LegalLength(noise.length) /\ noise.envelope \in EnvelopeStates
      /\ noise.length.enabled = noise.enabled
  BY DEF NoiseIInv, NoiseStates, OnlyOnIfEnabled, LegalLength
<1>2. ASSUME NEW c, Legal(c), NEW l, LegalLength(l), l.enabled = c.enabled,
             NEW e \in EnvelopeStates
      PROVE  Legal([c EXCEPT !.envelope = e, !.length = l])
  BY <1>2 DEF NoiseStates, OnlyOnIfEnabled, LegalLength
<1>3. ASSUME NEW on \in BOOLEAN
      PROVE  Legal(Enable(noise, on))
  <2>1. PICK l : l = LengthEnable(noise.length, on)
    OBVIOUS
  <2>2. LegalLength(l) /\ l.enabled = on
    BY <1>1, <2>1, LengthEnableKept DEF LegalLength
  <2>3. Enable(noise, on) = [noise EXCEPT !.enabled = on, !.length = l]
    BY <2>1 DEF Enable
  <2> QED BY <1>1, <2>2, <2>3 DEF NoiseStates, OnlyOnIfEnabled, LegalLength
<1>4. CASE NoiseWrite
  <2>1. ASSUME NEW halt \in BOOLEAN, NEW constant \in BOOLEAN, NEW v \in Volumes,
               noise' = WriteEnvelope(noise, halt, constant, v)
        PROVE  Legal(noise')
    <3> DEFINE e == [noise.envelope EXCEPT !.loop = halt, !.constant = constant,
                                           !.volume = v]
               l == [noise.length EXCEPT !.halt = halt]
    <3>1. e \in EnvelopeStates
      BY <1>1, EnvelopeKept
    <3>2. LegalLength(l) /\ l.enabled = noise.enabled
      BY <1>1 DEF LegalLength, LengthStates
    <3>3. WriteEnvelope(noise, halt, constant, v) =
            [noise EXCEPT !.envelope = e, !.length = l]
      BY <1>1 DEF WriteEnvelope, NoiseStates, LengthStates, EnvelopeStates
    <3> HIDE DEF e, l, Legal
    <3>4. Legal([noise EXCEPT !.envelope = e, !.length = l])
      BY <1>1, <1>2, <3>1, <3>2
    <3> QED BY <2>1, <3>3, <3>4
  <2>2. ASSUME NEW n \in Lengths, noise' = LoadLength(noise, n)
        PROVE  Legal(noise')
    <3>1. PICK e \in EnvelopeStates : e = [noise.envelope EXCEPT !.start = TRUE]
      BY <1>1, EnvelopeKept
    <3>2. PICK l : l = LengthLoad(noise.length, n)
      OBVIOUS
    <3>3. LegalLength(l) /\ l.enabled = noise.enabled
      BY <1>1, <3>2, LengthLoadKept
    <3>4. LoadLength(noise, n) = [noise EXCEPT !.envelope = e, !.length = l]
      BY <1>1, <3>1, <3>2 DEF LoadLength, NoiseStates
    <3> HIDE DEF Legal
    <3>5. Legal([noise EXCEPT !.envelope = e, !.length = l])
      BY <1>1, <1>2, <3>1, <3>3
    <3> QED BY <2>2, <3>4, <3>5
  <2> HIDE DEF Legal
  <2>3. Legal(noise')
    BY <1>3, <1>4, <2>1, <2>2 DEF NoiseWrite
  <2> QED BY <2>3 DEF Legal, NoiseIInv
<1>5. CASE NoiseClock
  <2>1. PICK e \in EnvelopeStates : e = EnvelopeClock(noise.envelope)
    BY <1>1, EnvelopeKept
  <2> DEFINE c == ClockQuarter(noise)
  <2>2. /\ c = [noise EXCEPT !.envelope = e]
        /\ c \in NoiseStates /\ c.length = noise.length /\ c.enabled = noise.enabled
        /\ c.envelope = e
    BY <1>1, <2>1 DEF ClockQuarter, NoiseStates
  <2> HIDE DEF c
  <2>3. Legal(c)
    BY <1>1, <2>2 DEF OnlyOnIfEnabled
  <2>4. PICK l : l = LengthClock(c.length)
    OBVIOUS
  <2>5. LegalLength(l) /\ l.enabled = c.enabled
    BY <1>1, <2>2, <2>4, LengthClockKept
  <2>6. Legal(ClockHalf(c))
    BY <2>2, <2>4, <2>5 DEF ClockHalf, NoiseStates, OnlyOnIfEnabled, LegalLength
  <2>7. noise' \in {c, ClockHalf(c)}
    BY <1>5 DEF NoiseClock, c
  <2> QED BY <2>3, <2>6, <2>7 DEF NoiseIInv
<1>6. CASE NoiseShift
  <2>1. PICK r \in LfsrStates : ShiftLfsr(noise) = [noise EXCEPT !.lfsr = r]
    <3>1. noise.lfsr \in LfsrStates
      BY <1>1 DEF NoiseStates
    <3>2. CASE noise.mode
      BY <3>1, <3>2, LfsrShifts DEF ShiftLfsr
    <3>3. CASE ~noise.mode
      BY <3>1, <3>3, LfsrShifts DEF ShiftLfsr
    <3> QED BY <3>2, <3>3
  <2>2. Legal([noise EXCEPT !.lfsr = r])
    BY <1>1, <2>1 DEF NoiseStates, OnlyOnIfEnabled
  <2>3. PICK b \in BOOLEAN : b = ~noise.mode
    OBVIOUS
  <2>4. Legal([noise EXCEPT !.mode = b])
    BY <1>1 DEF NoiseStates, OnlyOnIfEnabled
  <2>5. noise' \in {[noise EXCEPT !.lfsr = r], [noise EXCEPT !.mode = b]}
    BY <1>6, <2>1, <2>3 DEF NoiseShift
  <2> QED BY <2>2, <2>4, <2>5 DEF NoiseIInv
<1>7. CASE ApuSoftReset
  BY <1>3, <1>7 DEF ApuSoftReset, NoiseIInv
<1>8. CASE UNCHANGED noise
  BY <1>8 DEF NoiseIInv, OnlyOnIfEnabled
<1>9. NoiseWrite \/ NoiseClock \/ NoiseShift \/ ApuSoftReset \/ UNCHANGED noise
  BY DEF ApuNext, apuVars, channels, TickCycle, Write4017, Read4015, SweepWrite, SweepWriteHi,
         SweepClock, PulseWrite, PulseClock, TriangleWrite, TriangleClock,
         DmcWrite, DmcSwitch, DmcCycle
<1> QED BY <1>4, <1>5, <1>6, <1>7, <1>8, <1>9

-----------------------------------------------------------------------------
(* The sample player. *)

(* The registers hold what the tables and the writes of a game put there.    *)
LEMMA DmcRegisters ==
  ASSUME NEW d \in DmcStates
  PROVE  /\ d.rate \in Nat \ {0} /\ d.length \in Nat \ {0} /\ d.start \in Nat
         /\ WrapAddress \in Nat /\ LastAddress \in Nat
<1>1. d.rate \in Rates /\ d.length \in SampleLengths /\ d.start \in SampleStarts
  BY DEF DmcStates
<1>2. /\ Rates \subseteq Nat \ {0} /\ SampleLengths \subseteq Nat \ {0}
      /\ SampleStarts \subseteq 0 .. LastAddress
  BY ApuAssumption
<1>3. LastAddress \in Nat /\ WrapAddress \in 0 .. LastAddress
  BY ApuAssumption
<1>4. d.rate \in Nat \ {0} /\ d.length \in Nat \ {0}
  BY <1>1, <1>2
<1>5. d.start \in 0 .. LastAddress
  BY <1>1, <1>2
<1> QED BY <1>3, <1>4, <1>5

(* The output unit moves only what it outputs: no register, no interrupt and *)
(* no position in the sample.                                                *)
LEMMA DmcClockEffect ==
  ASSUME NEW d \in DmcStates
  PROVE  LET c == DmcClock(d) IN
         /\ c \in DmcStates /\ c.irqEnabled = d.irqEnabled /\ c.loop = d.loop
         /\ c.start = d.start /\ c.length = d.length /\ c.current = d.current
         /\ c.remaining = d.remaining /\ c.irq = d.irq
<1> DEFINE Same(c) ==
      /\ c \in DmcStates /\ c.irqEnabled = d.irqEnabled /\ c.loop = d.loop
      /\ c.start = d.start /\ c.length = d.length /\ c.current = d.current
      /\ c.remaining = d.remaining /\ c.irq = d.irq
<1>1. CASE d.timer > 0
  <2>1. PICK t \in Nat : t = d.timer - 1
    BY <1>1 DEF DmcStates
  <2>2. DmcClock(d) = [d EXCEPT !.timer = t]
    BY <1>1, <2>1 DEF DmcClock
  <2> QED BY <2>2 DEF DmcStates
<1>2. CASE ~(d.timer > 0)
  <2>1. PICK level \in 0 .. MaxLevel :
          level = IF d.silence THEN d.level
                  ELSE IF d.shift % 2 # 0
                  THEN IF d.level <= MaxLevel - 2 THEN d.level + 2 ELSE d.level
                  ELSE IF d.level >= 2 THEN d.level - 2 ELSE d.level
    <3>1. MaxLevel \in Nat /\ d.level \in 0 .. MaxLevel
      BY ApuAssumption DEF DmcStates
    <3> QED BY <3>1
  <2>2. PICK left \in Nat : left = IF d.bits = 0 THEN 0 ELSE d.bits - 1
    BY DEF DmcStates
  <2>3. PICK t \in Nat : t = d.rate - 1
    <3>1. d.rate \in Nat \ {0}
      BY DmcRegisters
    <3> QED BY <3>1
  <2>4. PICK half \in Nat : half = d.shift \div 2
    BY DEF DmcStates
  <2> DEFINE out == [d EXCEPT !.timer = t, !.level = level, !.shift = half, !.bits = left]
  <2>5. Same(out) /\ out.buffer = d.buffer
    BY DEF DmcStates
  <2>6. DmcClock(d) =
          IF left # 0 THEN out
          ELSE IF d.buffer = << >> THEN [out EXCEPT !.bits = Bits, !.silence = TRUE]
          ELSE [out EXCEPT !.bits = Bits, !.shift = d.buffer[1], !.buffer = << >>,
                           !.silence = FALSE]
    BY <1>2, <2>1, <2>2, <2>3, <2>4 DEF DmcClock, DmcShift
  <2> HIDE DEF out
  <2>7. Bits \in Nat /\ << >> \in Seq(SampleBytes)
    BY ApuAssumption
  <2>8. Same([out EXCEPT !.bits = Bits, !.silence = TRUE])
    BY <2>5, <2>7 DEF DmcStates
  <2>9. ASSUME d.buffer # << >>
        PROVE  Same([out EXCEPT !.bits = Bits, !.shift = d.buffer[1], !.buffer = << >>,
                                !.silence = FALSE])
    <3>1. d.buffer[1] \in Nat
      <4>1. d.buffer \in Seq(SampleBytes) /\ SampleBytes \subseteq Nat
        BY ApuAssumption DEF DmcStates
      <4>2. d.buffer[1] \in SampleBytes
        BY <2>9, <4>1
      <4> QED BY <4>1, <4>2
    <3> QED BY <2>5, <2>7, <3>1 DEF DmcStates
  <2> HIDE DEF Same
  <2>10. Same(DmcClock(d))
    BY <2>5, <2>6, <2>8, <2>9
  <2> QED BY <2>10 DEF Same
<1> QED BY <1>1, <1>2

(* Switching the player on starts the sample only if none is being played,   *)
(* switching it off drops what is left, and either acknowledges.             *)
LEMMA DmcEnableEffect ==
  ASSUME NEW d \in DmcStates, NEW on \in BOOLEAN
  PROVE  LET e == DmcEnable(d, on) IN
         /\ e \in DmcStates /\ e.irq = FALSE
         /\ ~on => e.remaining = 0
         /\ on /\ d.remaining = 0 => e.remaining = d.length /\ e.current = d.start
         /\ on /\ d.remaining # 0 => e.remaining = d.remaining /\ e.current = d.current
<1>1. d.length \in Nat /\ d.start \in Nat
  BY DmcRegisters
<1> QED BY <1>1 DEF DmcEnable, DmcRestart, DmcStates

(* A fetched byte moves the player on by one address, around the end of the  *)
(* address space, and the last byte of a sample restarts or ends it.         *)
LEMMA DmcCompleteEffect ==
  ASSUME NEW d \in DmcStates, NEW byte \in SampleBytes, d.remaining > 0
  PROVE  LET e == DmcComplete(d, byte) IN
         /\ e \in DmcStates /\ e.irqEnabled = d.irqEnabled
         /\ d.remaining > 1 =>
              /\ e.remaining = d.remaining - 1 /\ e.irq = d.irq
              /\ e.current = IF d.current = LastAddress THEN WrapAddress ELSE d.current + 1
         /\ d.remaining = 1 /\ d.loop =>
              e.remaining = d.length /\ e.current = d.start /\ e.irq = d.irq
         /\ d.remaining = 1 /\ ~d.loop =>
              e.remaining = 0 /\ (e.irq <=> d.irq \/ d.irqEnabled)
<1>1. /\ d.length \in Nat /\ d.start \in Nat /\ WrapAddress \in Nat
      /\ <<byte>> \in Seq(SampleBytes)
  BY DmcRegisters
<1>2. PICK left \in Nat : left = d.remaining - 1
  BY DEF DmcStates
<1>3. PICK next \in Nat :
        next = IF d.current = LastAddress THEN WrapAddress ELSE d.current + 1
  BY <1>1 DEF DmcStates
<1> DEFINE got == [d EXCEPT !.buffer = <<byte>>, !.current = next, !.remaining = left]
           rings == d.irq \/ d.irqEnabled
<1>4. /\ got \in DmcStates /\ got.irqEnabled = d.irqEnabled /\ got.loop = d.loop
      /\ got.start = d.start /\ got.length = d.length /\ got.current = next
      /\ got.remaining = left /\ got.irq = d.irq
  BY <1>1 DEF DmcStates
<1>5. DmcComplete(d, byte) =
        IF left # 0 THEN got
        ELSE IF d.loop THEN DmcRestart(got)
        ELSE [got EXCEPT !.irq = got.irq \/ got.irqEnabled]
  <2>1. left = IF d.remaining = 0 THEN 0 ELSE d.remaining - 1
    BY <1>2
  <2> QED BY <1>3, <1>4, <2>1 DEF DmcComplete
<1> HIDE DEF got
<1>6. CASE left # 0
  <2>1. d.remaining \in Nat /\ d.remaining > 1
    BY <1>2, <1>6 DEF DmcStates
  <2>2. DmcComplete(d, byte) = got
    BY <1>5, <1>6
  <2> QED BY <1>2, <1>3, <1>4, <2>1, <2>2
<1>7. CASE left = 0 /\ d.loop
  <2>1. d.remaining = 1
    BY <1>2, <1>7 DEF DmcStates
  <2>2. DmcComplete(d, byte) = [got EXCEPT !.current = d.start, !.remaining = d.length]
    BY <1>4, <1>5, <1>7 DEF DmcRestart
  <2>3. PICK e : e = [got EXCEPT !.current = d.start, !.remaining = d.length]
    OBVIOUS
  <2>4. /\ e \in DmcStates /\ e.irqEnabled = d.irqEnabled /\ e.remaining = d.length
        /\ e.current = d.start /\ e.irq = d.irq
    BY <1>1, <1>4, <2>3 DEF DmcStates
  <2> QED BY <1>7, <2>1, <2>2, <2>3, <2>4
<1>8. CASE left = 0 /\ ~d.loop
  <2>1. rings \in BOOLEAN
    OBVIOUS
  <2>2. DmcComplete(d, byte) = [got EXCEPT !.irq = rings]
    BY <1>4, <1>5, <1>8
  <2> HIDE DEF rings
  <2>3. PICK e : e = [got EXCEPT !.irq = rings]
    OBVIOUS
  <2>4. e \in DmcStates /\ e.irq = rings /\ e.irqEnabled = d.irqEnabled /\ e.remaining = 0
    BY <1>4, <1>8, <2>1, <2>3 DEF DmcStates
  <2>5. ~(d.remaining > 1) /\ ~d.loop
    BY <1>2, <1>8 DEF DmcStates
  <2>6. rings <=> d.irq \/ d.irqEnabled
    BY DEF rings
  <2> QED BY <2>2, <2>3, <2>4, <2>5, <2>6
<1> QED BY <1>6, <1>7, <1>8

(* The byte that follows the one being played stays inside the address space: *)
(* a sample reaches around its end at most once.                              *)
LEMMA NextByte ==
  ASSUME NEW start \in SampleStarts, NEW length \in SampleLengths,
         NEW next \in Nat, next + 1 < start + length
  PROVE  LET at == IF next > LastAddress THEN WrapAddress + (next - LastAddress - 1) ELSE next
         IN  (IF at = LastAddress THEN WrapAddress ELSE at + 1) =
               IF next + 1 > LastAddress THEN WrapAddress + (next + 1 - LastAddress - 1)
               ELSE next + 1
<1>1. /\ LastAddress \in Nat /\ WrapAddress \in Nat
      /\ start + length <= (LastAddress + 1) + (LastAddress + 1 - WrapAddress)
      /\ start \in Nat /\ length \in Nat
  <2>1. /\ LastAddress \in Nat /\ WrapAddress \in 0 .. LastAddress
        /\ SampleStarts \subseteq 0 .. LastAddress /\ SampleLengths \subseteq Nat \ {0}
    BY ApuAssumption
  <2>2. start + length <= (LastAddress + 1) + (LastAddress + 1 - WrapAddress)
    BY ApuAssumption
  <2>3. start \in 0 .. LastAddress
    BY <2>1
  <2> QED BY <2>1, <2>2, <2>3
<1> QED BY <1>1

(* A player whose sample just began is at the first of all its bytes. *)
LEMMA SampleBegins ==
  ASSUME dmc \in DmcStates, dmc' \in DmcStates,
         NEW start \in SampleStarts, NEW length \in SampleLengths,
         dmc'.remaining = length, dmc'.current = start,
         played' = [start |-> start, length |-> length, fetched |-> 0]
  PROVE  played' \in PlayedStates /\ PlayedSample' /\ SamplePlaysWhole'
<1>1. start \in Nat /\ start <= LastAddress /\ length \in Nat /\ LastAddress \in Nat
  <2>1. /\ LastAddress \in Nat /\ SampleStarts \subseteq 0 .. LastAddress
        /\ SampleLengths \subseteq Nat \ {0}
    BY ApuAssumption
  <2>2. start \in 0 .. LastAddress /\ length \in Nat \ {0}
    BY <2>1
  <2> QED BY <2>1, <2>2
<1>2. played'.start = start /\ played'.length = length /\ played'.fetched = 0
  OBVIOUS
<1> QED BY <1>1, <1>2 DEF PlayedStates, PlayedSample, SamplePlaysWhole

(* Every step keeps the player at the byte that is next. *)
LEMMA DmcKept ==
  ASSUME DmcIInv, [ApuNext]_apuVars
  PROVE  DmcIInv'
<1>1. /\ dmc \in DmcStates /\ played \in PlayedStates /\ PlayedSample /\ SamplePlaysWhole
      /\ (dmc.irq => dmc.irqEnabled /\ dmc.remaining = 0)
  BY DEF DmcIInv
<1>2. ASSUME NEW d \in DmcStates, dmc' = d, played' = played, ~d.irq,
             d.remaining = 0 \/ (d.remaining = dmc.remaining /\ d.current = dmc.current)
      PROVE  DmcIInv'
  BY <1>1, <1>2 DEF DmcIInv, PlayedSample, SamplePlaysWhole, PlayedStates
<1>3. CASE DmcWrite
  <2>1. /\ dmc' \in DmcStates /\ played' = played
        /\ dmc'.remaining = dmc.remaining /\ dmc'.current = dmc.current
        /\ dmc'.irq => dmc'.irqEnabled /\ dmc'.remaining = 0
    <3>1. ASSUME NEW on \in BOOLEAN, NEW loop \in BOOLEAN, NEW r \in Rates,
                 dmc' = [dmc EXCEPT !.irqEnabled = on, !.loop = loop, !.rate = r,
                                    !.irq = @ /\ on]
          PROVE  /\ dmc' \in DmcStates
                 /\ dmc'.remaining = dmc.remaining /\ dmc'.current = dmc.current
                 /\ dmc'.irq => dmc'.irqEnabled /\ dmc'.remaining = 0
      <4> DEFINE rings == dmc.irq /\ on
      <4>1. rings \in BOOLEAN
        OBVIOUS
      <4>2. dmc' = [dmc EXCEPT !.irqEnabled = on, !.loop = loop, !.rate = r, !.irq = rings]
        BY <3>1
      <4>3. rings => on /\ dmc.remaining = 0
        BY <1>1
      <4> HIDE DEF rings
      <4> QED BY <1>1, <4>1, <4>2, <4>3 DEF DmcStates
    <3>2. ASSUME NEW level \in {0, 1, MaxLevel - 1, MaxLevel},
                 dmc' = [dmc EXCEPT !.level = level]
          PROVE  /\ dmc' \in DmcStates
                 /\ dmc'.remaining = dmc.remaining /\ dmc'.current = dmc.current
                 /\ dmc'.irq = dmc.irq /\ dmc'.irqEnabled = dmc.irqEnabled
      <4>1. level \in 0 .. MaxLevel
        BY ApuAssumption
      <4> QED BY <1>1, <3>2, <4>1 DEF DmcStates
    <3>3. ASSUME NEW a \in SampleStarts, dmc' = [dmc EXCEPT !.start = a]
          PROVE  /\ dmc' \in DmcStates
                 /\ dmc'.remaining = dmc.remaining /\ dmc'.current = dmc.current
                 /\ dmc'.irq = dmc.irq /\ dmc'.irqEnabled = dmc.irqEnabled
      BY <1>1, <3>3 DEF DmcStates
    <3>4. ASSUME NEW n \in SampleLengths, dmc' = [dmc EXCEPT !.length = n]
          PROVE  /\ dmc' \in DmcStates
                 /\ dmc'.remaining = dmc.remaining /\ dmc'.current = dmc.current
                 /\ dmc'.irq = dmc.irq /\ dmc'.irqEnabled = dmc.irqEnabled
      BY <1>1, <3>4 DEF DmcStates
    <3> QED BY <1>1, <1>3, <3>1, <3>2, <3>3, <3>4 DEF DmcWrite
  <2> QED BY <1>1, <2>1 DEF DmcIInv, PlayedSample, SamplePlaysWhole
<1>4. CASE DmcSwitch
  <2>1. PICK on \in BOOLEAN :
          /\ dmc' = DmcEnable(dmc, on)
          /\ played' = IF on /\ dmc.remaining = 0
                       THEN [start |-> dmc.start, length |-> dmc.length, fetched |-> 0]
                       ELSE played
    BY <1>4 DEF DmcSwitch
  <2>2. dmc' \in DmcStates /\ dmc'.irq = FALSE
    BY <1>1, <2>1, DmcEnableEffect
  <2>3. CASE on /\ dmc.remaining = 0
    <3>1. dmc.start \in SampleStarts /\ dmc.length \in SampleLengths
      BY <1>1 DEF DmcStates
    <3>2. dmc'.remaining = dmc.length /\ dmc'.current = dmc.start
      BY <1>1, <2>1, <2>3, DmcEnableEffect
    <3>3. played' = [start |-> dmc.start, length |-> dmc.length, fetched |-> 0]
      BY <2>1, <2>3
    <3> QED BY <1>1, <2>2, <3>1, <3>2, <3>3, SampleBegins DEF DmcIInv
  <2>4. CASE ~(on /\ dmc.remaining = 0)
    <3>1. dmc'.remaining = 0 \/ (dmc'.remaining = dmc.remaining /\ dmc'.current = dmc.current)
      BY <1>1, <2>1, <2>4, DmcEnableEffect
    <3> QED BY <1>2, <2>1, <2>2, <2>4, <3>1
  <2> QED BY <2>3, <2>4
<1>5. CASE DmcCycle
  <2> DEFINE clocked == DmcClock(dmc)
  <2>1. /\ clocked \in DmcStates /\ clocked.irqEnabled = dmc.irqEnabled
        /\ clocked.current = dmc.current /\ clocked.remaining = dmc.remaining
        /\ clocked.irq = dmc.irq
    BY <1>1, DmcClockEffect
  <2>2. CASE ~DmcRequest(clocked)
    <3>1. dmc' = clocked /\ played' = played
      BY <1>5, <2>2 DEF DmcCycle
    <3> HIDE DEF clocked
    <3> QED BY <1>1, <2>1, <3>1 DEF DmcIInv, PlayedSample, SamplePlaysWhole
  <2>3. CASE DmcRequest(clocked)
    <3>1. PICK byte \in SampleBytes :
            /\ dmc' = DmcComplete(clocked, byte)
            /\ played' = IF clocked.remaining = 1 /\ clocked.loop
                         THEN [start |-> clocked.start, length |-> clocked.length,
                               fetched |-> 0]
                         ELSE [played EXCEPT !.fetched = @ + 1]
      BY <1>5, <2>3 DEF DmcCycle
    <3> HIDE DEF clocked
    <3>2. clocked.remaining \in Nat /\ clocked.remaining > 0 /\ ~dmc.irq
      BY <1>1, <2>1, <2>3 DEF DmcRequest, DmcStates
    <3>3. dmc' \in DmcStates /\ dmc'.irqEnabled = dmc.irqEnabled
      BY <2>1, <3>1, <3>2, DmcCompleteEffect
    <3>4. CASE clocked.remaining = 1 /\ clocked.loop
      <4>1. clocked.start \in SampleStarts /\ clocked.length \in SampleLengths
        BY <2>1 DEF DmcStates
      <4>2. /\ dmc'.remaining = clocked.length /\ dmc'.current = clocked.start
            /\ dmc'.irq = clocked.irq
        BY <2>1, <3>1, <3>2, <3>4, DmcCompleteEffect
      <4>3. played' = [start |-> clocked.start, length |-> clocked.length, fetched |-> 0]
        BY <3>1, <3>4
      <4> QED BY <1>1, <2>1, <3>2, <3>3, <4>1, <4>2, <4>3, SampleBegins DEF DmcIInv
    <3>5. CASE ~(clocked.remaining = 1 /\ clocked.loop)
      <4>1. PICK f \in Nat : f = played.fetched
        BY <1>1 DEF PlayedStates
      <4>2. played' = [played EXCEPT !.fetched = f + 1]
        BY <3>1, <3>5, <4>1
      <4>3. /\ played' \in PlayedStates /\ played'.start = played.start
            /\ played'.length = played.length /\ played'.fetched = f + 1
        BY <1>1, <4>2 DEF PlayedStates
      <4>4. CASE clocked.remaining = 1
        <5>1. dmc'.remaining = 0 /\ (dmc'.irq <=> clocked.irq \/ clocked.irqEnabled)
          BY <2>1, <3>1, <3>2, <3>5, <4>4, DmcCompleteEffect
        <5> QED BY <2>1, <3>2, <3>3, <4>3, <5>1 DEF DmcIInv, PlayedSample, SamplePlaysWhole
      <4>5. CASE clocked.remaining > 1
        <5>1. /\ dmc'.remaining = dmc.remaining - 1 /\ dmc'.irq = dmc.irq
              /\ dmc'.current = IF dmc.current = LastAddress THEN WrapAddress
                                ELSE dmc.current + 1
          BY <2>1, <3>1, <3>2, <4>5, DmcCompleteEffect
        <5>2. played.start \in SampleStarts /\ played.length \in SampleLengths
          BY <1>1, <2>1, <3>2 DEF PlayedSample
        <5>3. PICK next \in Nat : next = played.start + f
          BY <1>1 DEF PlayedStates
        <5>4. /\ dmc.remaining + f = played.length
              /\ dmc.current = IF next > LastAddress
                               THEN WrapAddress + (next - LastAddress - 1) ELSE next
          BY <1>1, <2>1, <3>2, <4>1, <5>3 DEF SamplePlaysWhole
        <5>5. dmc.remaining \in Nat /\ played.start \in Nat /\ played.length \in Nat
          BY <1>1 DEF DmcStates, PlayedStates
        <5>6. next + 1 < played.start + played.length
          BY <2>1, <4>5, <5>3, <5>4, <5>5
        <5>7. dmc'.current =
                IF next + 1 > LastAddress THEN WrapAddress + (next + 1 - LastAddress - 1)
                ELSE next + 1
          BY <5>1, <5>2, <5>4, <5>6, NextByte
        <5>8. played'.start + played'.fetched = next + 1
          BY <4>3, <5>3, <5>5
        <5>9. dmc'.remaining + played'.fetched = played'.length
          BY <4>3, <5>1, <5>4, <5>5
        <5>10. SamplePlaysWhole'
          <6>1. PICK after \in Nat : after = next + 1
            BY <5>3
          <6>4. LastAddress \in Nat /\ WrapAddress \in Nat
            BY <1>1, DmcRegisters
          <6>2. dmc'.current = IF after > LastAddress
                               THEN WrapAddress + (after - LastAddress - 1) ELSE after
            BY <5>7, <6>1, <6>4
          <6>3. after = played'.start + played'.fetched
            BY <5>8, <6>1
          <6> QED BY <5>9, <6>2, <6>3 DEF SamplePlaysWhole
        <5>11. PlayedSample'
          BY <4>3, <5>2 DEF PlayedSample
        <5> QED BY <3>2, <3>3, <4>3, <5>1, <5>10, <5>11 DEF DmcIInv
      <4> QED BY <3>2, <4>4, <4>5
    <3> QED BY <3>4, <3>5
  <2> QED BY <2>2, <2>3
<1>6. CASE ApuSoftReset
  <2>1. dmc' = DmcEnable(dmc, FALSE) /\ played' = played
    BY <1>6 DEF ApuSoftReset
  <2>2. dmc' \in DmcStates /\ dmc'.irq = FALSE /\ dmc'.remaining = 0
    BY <1>1, <2>1, DmcEnableEffect
  <2> QED BY <1>2, <2>1, <2>2
<1>7. CASE UNCHANGED <<dmc, played>>
  BY <1>7 DEF DmcIInv, PlayedSample, SamplePlaysWhole
<1>8. DmcWrite \/ DmcSwitch \/ DmcCycle \/ ApuSoftReset \/ UNCHANGED <<dmc, played>>
  BY DEF ApuNext, apuVars, player, TickCycle, Write4017, Read4015, SweepWrite, SweepWriteHi,
         SweepClock, PulseWrite, PulseClock, NoiseWrite, NoiseClock, NoiseShift,
         TriangleWrite, TriangleClock
<1> QED BY <1>3, <1>4, <1>5, <1>6, <1>7, <1>8

-----------------------------------------------------------------------------
(* The units together. *)

(* The console powers on with every unit in order. *)
LEMMA ApuPowerOn ==
  ASSUME ApuInit
  PROVE  ApuIInv
<1>1. FrameIInv
  <2>1. /\ frame = Frame0 /\ tally = [quarter |-> 0, half |-> 0]
    BY DEF ApuInit
  <2>2. /\ frame \in FrameStates /\ frame.mode = 4 /\ frame.cycle = 0
        /\ frame.irq = FALSE /\ frame.pending = NoMode
    BY <2>1 DEF Frame0, FrameStates, Modes
  <2> QED BY <2>1, <2>2, EventsApart DEF FrameIInv, TallyFollows, Passed, DelayInPhase
<1>2. LegalLength(Length0) /\ ~Length0.enabled /\ Envelope0 \in EnvelopeStates
  <2>1. MaxDecay \in Nat
    BY ApuAssumption
  <2> QED BY <2>1 DEF LegalLength, Length0, LengthStates, Envelope0, EnvelopeStates
<1>3. PulseIInv
  <2>1. PICK c \in {0, 1} : pulse = Pulse0(c)
    BY DEF ApuInit
  <2>2. Sweep0 \in SweepStates
    BY DEF Sweep0, SweepStates
  <2>3. 0 \in 0 .. MaxPeriod
    BY DEF MaxPeriod
  <2>4. pulse \in PulseStates
    BY <1>2, <2>1, <2>2, <2>3 DEF Pulse0, PulseStates, LegalLength
  <2>5. /\ pulse.length = Length0 /\ pulse.enabled = FALSE /\ pulse.period = 0
        /\ Length0.enabled = FALSE /\ Length0.counter = 0
    BY <2>1 DEF Pulse0, Length0
  <2>6. OnlyOnIfEnabled(pulse)
    BY <2>5 DEF OnlyOnIfEnabled
  <2>7. pulse.period < 8
    <3>1. 0 < 8
      OBVIOUS
    <3> QED BY <2>5, <3>1, Zenon
  <2> QED BY <2>4, <2>6, <2>7 DEF PulseIInv, LegalPulse, MuteIsFresh
<1>4. TriangleIInv
  <2>1. triangle = Triangle0
    BY DEF ApuInit
  <2> QED BY <1>2, <2>1
      DEF Triangle0, TriangleIInv, TriangleStates, OnlyOnIfEnabled, LegalLength, Length0
<1>5. NoiseIInv
  <2>1. noise = Noise0 /\ LfsrStart \in LfsrStates
    BY ApuAssumption DEF ApuInit, LfsrStates
  <2> QED BY <1>2, <2>1
      DEF Noise0, NoiseIInv, NoiseStates, OnlyOnIfEnabled, LegalLength, Length0
<1>6. DmcIInv
  <2>1. dmc = Dmc0 /\ played = [start |-> 0, length |-> 0, fetched |-> 0]
    BY DEF ApuInit
  <2>2. /\ Dmc0.rate \in Rates /\ Dmc0.start \in SampleStarts
        /\ Dmc0.length \in SampleLengths /\ Dmc0.current \in SampleStarts
    BY ApuAssumption DEF Dmc0
  <2>3. Dmc0.current \in Nat
    <3>1. SampleStarts \subseteq 0 .. LastAddress
      BY ApuAssumption
    <3>2. Dmc0.current \in 0 .. LastAddress
      BY <2>2, <3>1
    <3> QED BY <3>2
  <2>4. MaxLevel \in Nat /\ Bits \in Nat /\ << >> \in Seq(SampleBytes)
    BY ApuAssumption
  <2>5. dmc \in DmcStates /\ dmc.irq = FALSE /\ dmc.remaining = 0
    BY <2>1, <2>2, <2>3, <2>4 DEF Dmc0, DmcStates
  <2>6. played \in PlayedStates
    BY <2>1 DEF PlayedStates
  <2> QED BY <2>5, <2>6 DEF DmcIInv, PlayedSample, SamplePlaysWhole
<1> QED BY <1>1, <1>3, <1>4, <1>5, <1>6 DEF ApuIInv

(* The invariants of the units hold in every state: no order of register     *)
(* writes, clocks, acknowledgements and resets breaks one (apu/mod.rs).      *)
THEOREM InvariantHolds == ApuSpec => []ApuIInv
<1>1. ApuInit => ApuIInv
  BY ApuPowerOn
<1>2. ApuIInv /\ [ApuNext]_apuVars => ApuIInv'
  BY FrameKept, PulseKept, TriangleKept, NoiseKept, DmcKept DEF ApuIInv
<1> QED BY <1>1, <1>2, PTL DEF ApuSpec

(* A channel that is off has no length left, the sweep never drives the      *)
(* period past eleven bits nor leaves a stale mute, the noise register never *)
(* locks, the sample player's level stays in seven bits, and neither source  *)
(* of interrupts is left raised without a cause, for every table, period and *)
(* sample (LengthCounter, Sweep, Noise::shift, Dmc, write_register).         *)
THEOREM ChannelsAndInterrupts == ApuSpec => []ApuInvariant
<1>1. ApuIInv => ApuInvariant
  <2>1. ASSUME ApuIInv
        PROVE  InterruptsHaveACause
    BY <2>1 DEF ApuIInv, FrameIInv, DmcIInv, InterruptsHaveACause
  <2>2. ASSUME ApuIInv
        PROVE  ChannelsStayLegal
    <3>1. \A c \in {pulse, triangle, noise} : c.enabled \/ ~Active(c.length)
      <4>1. /\ pulse.enabled \/ pulse.length.counter = 0
            /\ triangle.enabled \/ triangle.length.counter = 0
            /\ noise.enabled \/ noise.length.counter = 0
        BY <2>2 DEF ApuIInv, PulseIInv, LegalPulse, TriangleIInv, NoiseIInv, OnlyOnIfEnabled
      <4> QED BY <4>1 DEF Active
    <3>2. pulse \in PulseStates /\ MuteIsFresh(pulse)
      BY <2>2 DEF ApuIInv, PulseIInv, LegalPulse
    <3>3. pulse.period \in 0 .. 2047
      BY <3>2 DEF PulseStates, MaxPeriod
    <3>4. pulse.sweep.mute \/ pulse.period < 8 \/ TargetPeriod(pulse) <= 2047
      BY <3>2 DEF MuteIsFresh
    <3>5. pulse.envelope.decay \in 0 .. MaxDecay
      BY <3>2 DEF PulseStates, EnvelopeStates
    <3>6. noise \in NoiseStates /\ dmc \in DmcStates
      BY <2>2 DEF ApuIInv, NoiseIInv, DmcIInv
    <3>7. noise.envelope.decay \in 0 .. MaxDecay
      BY <3>6 DEF NoiseStates, EnvelopeStates
    <3>8. noise.lfsr \in 1 .. 2^15 - 1 /\ dmc.level \in 0 .. MaxLevel
      BY <3>6 DEF NoiseStates, LfsrStates, DmcStates
    <3> QED BY <3>1, <3>3, <3>4, <3>5, <3>7, <3>8 DEF ChannelsStayLegal
  <2> QED BY <2>1, <2>2 DEF ApuInvariant
<1> QED BY <1>1, InvariantHolds, PTL

(* The sample player is always at the byte that follows the ones it fetched, *)
(* for every address, length and table of rates, however its registers are   *)
(* written meanwhile (dma_complete, restart_sample).                         *)
THEOREM SamplesPlayWhole == ApuSpec => []SamplePlaysWhole
<1>1. ApuIInv => SamplePlaysWhole
  BY DEF ApuIInv, DmcIInv
<1> QED BY <1>1, InvariantHolds, PTL

(* A sequence that runs to its end gave its four quarter and two half clocks, *)
(* a restart falls on its phase, and the interrupt is raised only where an    *)
(* uninhibited four-step sequence ends, for any five events that are apart    *)
(* (advance_frame_counter, write_register, apply_frame_counter_mode).         *)
THEOREM SequencesAreWhole == ApuSpec => FrameCounterKeepsTime
<1>1. ASSUME ApuIInv, TickCycle
      PROVE  /\ Wrapping([frame EXCEPT !.cycle = @ + 1]) => tally = [quarter |-> 4, half |-> 2]
             /\ Due(frame) => frame'.phase
             /\ (frame'.irq /\ ~frame.irq) =>
                   frame.mode = 4 /\ ~frame.inhibit /\ frame.cycle + 1 >= Events[4] - 1
  <2>1. FrameIInv /\ frame \in FrameStates
    BY <1>1 DEF ApuIInv, FrameIInv
  <2>2. frame' = TickFrame(frame)
    BY <1>1 DEF TickCycle
  <2>3. frame.cycle \in Nat /\ frame.mode \in Modes /\ frame.phase \in BOOLEAN
        /\ frame.delay \in 0 .. 4
    BY <2>1 DEF FrameStates
  <2>4. Wrapping([frame EXCEPT !.cycle = @ + 1]) => tally = [quarter |-> 4, half |-> 2]
    <3> DEFINE at == [frame EXCEPT !.cycle = @ + 1]
    <3>1. at.cycle = frame.cycle + 1 /\ at.mode = frame.mode
      BY <2>1 DEF FrameStates
    <3> HIDE DEF at
    <3>2. Wrapping(at) <=>
            frame.cycle + 1 > IF frame.mode = 4 THEN Events[4] ELSE Events[5]
      BY <3>1 DEF Wrapping
    <3>3. Wrapping(at) => tally = [quarter |-> 4, half |-> 2]
      <4>1. CASE frame.mode = 4
        BY <2>1, <2>3, <3>2, <4>1, EventsApart DEF FrameIInv, TallyFollows, Passed
      <4>2. CASE frame.mode = 5
        BY <2>1, <2>3, <3>2, <4>2, EventsApart DEF FrameIInv, TallyFollows, Passed
      <4> QED BY <2>3, <4>1, <4>2 DEF Modes
    <3> QED BY <3>3 DEF at
  <2>5. Due(frame) => frame'.phase
    <3>1. frame'.phase = ~frame.phase
      BY <2>1, <2>2, TickFrameEffect
    <3>2. ASSUME Due(frame)
          PROVE  ~frame.phase
      <4>1. frame.delay \in 1 .. 4 /\ frame.delay <= 1
            /\ frame.phase = (frame.delay \in {2, 4})
        BY <2>1, <3>2 DEF FrameIInv, DelayInPhase, Due
      <4>2. frame.delay = 1
        BY <4>1
      <4>3. ~(frame.delay \in {2, 4})
        BY <4>2
      <4> QED BY <4>1, <4>3, Zenon
    <3> QED BY <3>1, <3>2
  <2>6. (frame'.irq /\ ~frame.irq) =>
           frame.mode = 4 /\ ~frame.inhibit /\ frame.cycle + 1 >= Events[4] - 1
    BY <2>1, <2>2, TickFrameEffect
  <2> QED BY <2>4, <2>5, <2>6
<1>2. ApuIInv => (TickCycle =>
        /\ Wrapping([frame EXCEPT !.cycle = @ + 1]) => tally = [quarter |-> 4, half |-> 2]
        /\ Due(frame) => frame'.phase
        /\ (frame'.irq /\ ~frame.irq) =>
              frame.mode = 4 /\ ~frame.inhibit /\ frame.cycle + 1 >= Events[4] - 1)
  BY <1>1
<1> QED BY <1>2, InvariantHolds, PTL DEF ApuSpec, FrameCounterKeepsTime

-----------------------------------------------------------------------------
(* The CPU: the stack and the interrupts.                                    *)

(* What the CPU holds. *)
Flags == {"I", "B", "U"}
StackFrames ==
  [kind : {"interrupt"}, pc : 0 .. Addrs - 1, p : SUBSET Flags, sp : 0 .. PageSize - 1]
  \cup [kind : {"call"}, pc : 0 .. Addrs - 1, sp : 0 .. PageSize - 1]
  \cup [kind : {"status"}, p : SUBSET Flags, sp : 0 .. PageSize - 1]

FrameSize(f) == IF f.kind = "interrupt" THEN 3 ELSE IF f.kind = "call" THEN 2 ELSE 1

Registers ==
  /\ pc \in 0 .. Addrs - 1 /\ sp \in 0 .. PageSize - 1 /\ p \in SUBSET Flags
  /\ calls \in Seq(StackFrames)

(* The address of a place on a stack that does not wrap, and the addresses   *)
(* from above one place up to another.                                       *)
Cell(x) == x % PageSize
Span(a, b) == {Cell(x) : x \in a + 1 .. b}

(* The stack as if it did not wrap: at[1] is where SP is, at[k + 1] where it *)
(* was before frame k was pushed.                                            *)
Places == [1 .. Len(calls) + 1 -> Int]
Base(at) == at[Len(calls) + 1]

Restores(byte, q) == (byte.of \ {"B"}) \cup {"U"} = (q \ {"B"}) \cup {"U"}

(* What a frame's pulls will find, first to last, from SP at top.            *)
FrameBytes(f, top) ==
  LET Byte(k) == stack[Cell(top + k)]
  IN  /\ f.kind # "call" => Restores(Byte(1), f.p)
      /\ f.kind = "interrupt" => Byte(2) = Lo(f.pc) /\ Byte(3) = Hi(f.pc)
      /\ f.kind = "call" =>
           \E a \in 0 .. Addrs - 1 : Byte(1) = Lo(a) /\ Byte(2) = Hi(a) /\ Next16(a, 1) = f.pc

StackAt(at) ==
  /\ sp = Cell(at[1])
  /\ \A j, k \in 1 .. Len(calls) + 1 : j <= k => at[j] <= at[k]
  /\ \A k \in 1 .. Len(calls) :
       /\ at[k + 1] = at[k] + FrameSize(calls[k])
       /\ calls[k].sp = Cell(at[k + 1])
       /\ FrameBytes(calls[k], at[k])
  /\ Base(at) - at[1] <= PageSize
  /\ DOMAIN stack = Span(at[1], Base(at))

StackIsFrames == \E at \in Places : StackAt(at)

(* Only CLI, SEI and PLP leave a delayed I flag behind.                      *)
DelayIsLatent ==
  /\ step.i \in BOOLEAN
  /\ delayed = IF step.kind = "latent" THEN step.i ELSE None

CpuIInv == Registers /\ StackIsFrames /\ DelayIsLatent

-----------------------------------------------------------------------------
(* Remainders. *)

(* What div and mod are. *)
LEMMA DivMod ==
  ASSUME NEW n \in Nat \ {0}, NEW x \in Int
  PROVE  /\ x % n \in 0 .. n - 1 /\ x \div n \in Int
         /\ x = n * (x \div n) + (x % n)
OBVIOUS

(* The remainder is the only one below n. *)
LEMMA ModIsUnique ==
  ASSUME NEW n \in Nat \ {0}, NEW x \in Int, NEW q \in Int, NEW r \in 0 .. n - 1,
         x = n * q + r
  PROVE  x % n = r
OBVIOUS

(* Multiples add up. *)
LEMMA Distributes ==
  ASSUME NEW n \in Nat, NEW a \in Int, NEW b \in Int
  PROVE  /\ n * (a + b) = n * a + n * b /\ n * (a - b) = n * a - n * b
         /\ n * a \in Int /\ n * b \in Int
OBVIOUS

(* The only multiple between -n and n is nought. *)
LEMMA SmallMultiple ==
  ASSUME NEW n \in Nat \ {0}, NEW q \in Int, n * q < n, n * q > -n
  PROVE  q = 0
OBVIOUS

(* Numbers less than n apart differ modulo n. *)
LEMMA ModApart ==
  ASSUME NEW n \in Nat \ {0}, NEW x \in Int, NEW y \in Int,
         x % n = y % n, x <= y, y - x < n
  PROVE  x = y
<1> DEFINE a == x \div n
           b == y \div n
           m == x % n
<1>1. a \in Int /\ b \in Int /\ m \in Int /\ x = n * a + m /\ y = n * b + m
  BY DivMod
<1> HIDE DEF a, b, m
<1>2. n * (b - a) = n * b - n * a /\ n * b \in Int /\ n * a \in Int
  BY <1>1, Distributes
<1>3. y - x = n * (b - a)
  <2> DEFINE u == n * b
             v == n * a
  <2>1. u \in Int /\ v \in Int /\ x = v + m /\ y = u + m
    BY <1>1, <1>2
  <2> HIDE DEF u, v
  <2>2. y - x = u - v
    BY <1>1, <2>1
  <2> QED BY <1>2, <2>2 DEF u, v
<1>4. b - a = 0
  BY <1>1, <1>3, SmallMultiple
<1>5. n * (b - a) = 0
  BY <1>4
<1> QED BY <1>3, <1>5

(* A remainder may be taken before a sum. *)
LEMMA ModAdd ==
  ASSUME NEW n \in Nat \ {0}, NEW x \in Int, NEW y \in Int
  PROVE  ((x % n) + y) % n = (x + y) % n
<1> DEFINE m == x % n
           a == x \div n
           r == (m + y) % n
           b == (m + y) \div n
<1>1. m \in Int /\ a \in Int /\ x = n * a + m
  BY DivMod
<1>2. r \in 0 .. n - 1 /\ b \in Int /\ m + y = n * b + r
  BY <1>1, DivMod
<1> HIDE DEF m, a, r, b
<1>3. n * (a + b) = n * a + n * b /\ n * a \in Int /\ n * b \in Int
  BY <1>1, <1>2, Distributes
<1>4. x + y = n * (a + b) + r
  <2> DEFINE u == n * a
             v == n * b
  <2>1. u \in Int /\ v \in Int /\ m + y = v + r /\ x = u + m /\ r \in Int
    BY <1>1, <1>2, <1>3
  <2> HIDE DEF u, v
  <2>2. x + y = (u + v) + r
    BY <1>1, <2>1
  <2> QED BY <1>3, <2>2 DEF u, v
<1>5. a + b \in Int /\ x + y \in Int
  BY <1>1, <1>2
<1>6. (x + y) % n = r
  BY <1>2, <1>4, <1>5, ModIsUnique
<1> QED BY <1>6 DEF r, m

-----------------------------------------------------------------------------
(* The stack page. *)

(* The page has room for an interrupt. *)
LEMMA PageIsNat == PageSize \in Nat /\ PageSize >= 3
BY InterruptAssumption

(* A place's address is on the page. *)
LEMMA CellsOfPage == \A x \in Int : Cell(x) \in 0 .. PageSize - 1
BY PageIsNat, DivMod DEF Cell

(* SP moves as its unwrapped place does. *)
LEMMA PointerMoves ==
  ASSUME NEW top \in Int, NEW n \in Nat, sp = Cell(top)
  PROVE  Down(sp, n) = Cell(top - n) /\ (sp + n) % PageSize = Cell(top + n)
<1>1. PageSize \in Nat \ {0} /\ n \in Int /\ -n \in Int
  BY PageIsNat
<1>2. ((top % PageSize) + n) % PageSize = (top + n) % PageSize
  BY <1>1, ModAdd, Zenon
<1>3. ((top % PageSize) + (-n)) % PageSize = (top + (-n)) % PageSize
  BY <1>1, ModAdd, Zenon
<1>4. top % PageSize \in Int
  BY <1>1, DivMod
<1>5. (top % PageSize) + (-n) = (top % PageSize) - n /\ top + (-n) = top - n
  BY <1>4
<1> QED BY <1>2, <1>3, <1>5 DEF Down, Cell

(* A span of at most a page has an address for each of its places.           *)
LEMMA SpanSize ==
  ASSUME NEW a \in Int, NEW b \in Int, a <= b, b - a <= PageSize
  PROVE  /\ Cardinality(Span(a, b)) = b - a
         /\ \A x, y \in a + 1 .. b : Cell(x) = Cell(y) => x = y
<1> DEFINE S == a + 1 .. b
           f == [x \in S |-> Cell(x)]
<1>1. PageSize \in Nat \ {0}
  BY PageIsNat
<1>2. \A x, y \in S : Cell(x) = Cell(y) => x = y
  <2> SUFFICES ASSUME NEW x \in S, NEW y \in S, x % PageSize = y % PageSize
               PROVE  x = y
    BY DEF Cell
  <2>1. x \in Int /\ y \in Int /\ x - y < PageSize /\ y - x < PageSize
    BY <1>1
  <2>2. CASE x <= y
    BY <1>1, <2>1, <2>2, ModApart
  <2>3. CASE y <= x
    BY <1>1, <2>1, <2>3, ModApart
  <2> QED BY <2>1, <2>2, <2>3
<1>3. IsFiniteSet(S) /\ Cardinality(S) = b - a
  <2>1. a + 1 \in Int /\ (a + 1 > b <=> a = b)
    OBVIOUS
  <2> QED BY <2>1, FS_Interval
<1>4. f \in Bijection(S, Span(a, b))
  <2>1. f \in [S -> Span(a, b)]
    BY DEF Span
  <2>2. \A x, y \in S : f[x] = f[y] => x = y
    BY <1>2
  <2>3. \A t \in Span(a, b) : \E x \in S : f[x] = t
    BY DEF Span
  <2> HIDE DEF f, S
  <2> QED BY <2>1, <2>2, <2>3 DEF Bijection, Injection, Surjection, IsInjective
<1>5. ExistsBijection(S, Span(a, b))
  BY <1>4 DEF ExistsBijection
<1>6. Cardinality(Span(a, b)) = Cardinality(S)
  BY <1>3, <1>5, FS_Bijection
<1> QED BY <1>2, <1>3, <1>6

(* What a push does to the stack: what it writes, and where.                 *)
Writes(top, n, bytes) ==
  /\ sp' = Cell(top - n)
  /\ DOMAIN stack' = DOMAIN stack \cup Span(top - n, top)
  /\ \A k \in 1 .. n : stack'[Cell((top - n) + k)] = bytes[n + 1 - k]
  /\ \A a \in DOMAIN stack \ Span(top - n, top) : stack'[a] = stack[a]

(* A push writes its bytes, the last one lowest, below the live ones.        *)
LEMMA PushEffect ==
  ASSUME NEW top, NEW n, NEW bytes, PushAll(bytes),
         top \in Int /\ sp = Cell(top) /\ n \in 1 .. 3 /\ Len(bytes) = n
  PROVE  Writes(top, n, bytes)
<1> DEFINE At(k) == Down(sp, k - 1)
           written == {At(k) : k \in 1 .. n}
<1>1. /\ stack' = [a \in DOMAIN stack \cup written |->
                     IF a \in written THEN bytes[CHOOSE k \in 1 .. n : At(k) = a]
                     ELSE stack[a]]
      /\ sp' = Down(sp, n)
  BY DEF PushAll
<1>2. \A k \in 1 .. n : At(k) = Cell(top - (k - 1))
  <2> SUFFICES ASSUME NEW k \in 1 .. n PROVE At(k) = Cell(top - (k - 1))
    OBVIOUS
  <2>1. k - 1 \in Nat
    OBVIOUS
  <2> QED BY <2>1, PointerMoves
<1>3. \A j, k \in 1 .. n : At(j) = At(k) => j = k
  <2> SUFFICES ASSUME NEW j \in 1 .. n, NEW k \in 1 .. n, At(j) = At(k)
               PROVE  j = k
    OBVIOUS
  <2>1. /\ top - (j - 1) \in (top - n) + 1 .. top
        /\ top - (k - 1) \in (top - n) + 1 .. top
        /\ top - n \in Int /\ top - n <= top /\ top - (top - n) <= PageSize
    BY PageIsNat
  <2>2. Cell(top - (j - 1)) = Cell(top - (k - 1))
    BY <1>2
  <2>3. top - (j - 1) = top - (k - 1)
    BY <2>1, <2>2, SpanSize
  <2> QED BY <2>3
<1>4. written = Span(top - n, top)
  <2>1. \A k \in 1 .. n : top - (k - 1) \in (top - n) + 1 .. top
    OBVIOUS
  <2>2. \A x \in (top - n) + 1 .. top : top - x + 1 \in 1 .. n /\ x = top - ((top - x + 1) - 1)
    OBVIOUS
  <2> QED BY <1>2, <2>1, <2>2 DEF Span
<1>5. ASSUME NEW k \in 1 .. n
      PROVE  stack'[Cell((top - n) + k)] = bytes[n + 1 - k]
  <2>1. n + 1 - k \in 1 .. n /\ top - ((n + 1 - k) - 1) = (top - n) + k
    OBVIOUS
  <2>2. At(n + 1 - k) = Cell((top - n) + k)
    BY <1>2, <2>1
  <2>3. Cell((top - n) + k) \in written
    BY <2>1, <2>2
  <2> DEFINE m == CHOOSE j \in 1 .. n : At(j) = Cell((top - n) + k)
  <2>4. m \in 1 .. n /\ At(m) = Cell((top - n) + k)
    BY <2>1, <2>2
  <2>5. m = n + 1 - k
    BY <1>3, <2>1, <2>2, <2>4
  <2> QED BY <1>1, <2>3, <2>5
<1>6. sp' = Cell(top - n)
  BY <1>1, PointerMoves
<1> HIDE DEF written
<1>7. /\ DOMAIN stack' = DOMAIN stack \cup written
      /\ \A a \in DOMAIN stack \ written : stack'[a] = stack[a]
  BY <1>1
<1> QED BY <1>4, <1>5, <1>6, <1>7 DEF Writes

(* What a pull leaves, and where SP is then.                                 *)
LEMMA PullEffect ==
  ASSUME NEW top \in Int, NEW base \in Int, sp = Cell(top), NEW n \in 1 .. 3,
         top + n <= base, base - top <= PageSize, DOMAIN stack = Span(top, base), PullAll(n)
  PROVE  /\ sp' = Cell(top + n)
         /\ DOMAIN stack' = Span(top + n, base)
         /\ \A a \in DOMAIN stack' : stack'[a] = stack[a]
<1> DEFINE dead == {(sp + k) % PageSize : k \in 1 .. n}
<1>1. /\ stack' = [a \in DOMAIN stack \ dead |-> stack[a]]
      /\ sp' = (sp + n) % PageSize
  BY DEF PullAll
<1>2. sp' = Cell(top + n)
  BY <1>1, PointerMoves
<1>3. dead = Span(top, top + n)
  <2>1. \A k \in 1 .. n : (sp + k) % PageSize = Cell(top + k) /\ top + k \in top + 1 .. top + n
    <3> SUFFICES ASSUME NEW k \in 1 .. n
                 PROVE  /\ (sp + k) % PageSize = Cell(top + k)
                        /\ top + k \in top + 1 .. top + n
      OBVIOUS
    <3>1. k \in Nat
      OBVIOUS
    <3> QED BY <3>1, PointerMoves
  <2>2. \A x \in top + 1 .. top + n : x - top \in 1 .. n /\ x = top + (x - top)
    OBVIOUS
  <2> QED BY <2>1, <2>2 DEF Span
<1> HIDE DEF dead
<1>4. Span(top, base) \ Span(top, top + n) = Span(top + n, base)
  <2>1. \A x, y \in top + 1 .. base : Cell(x) = Cell(y) => x = y
    BY SpanSize
  <2>2. \A x \in top + 1 .. base : x \in top + 1 .. top + n \/ x \in (top + n) + 1 .. base
    OBVIOUS
  <2>3. /\ \A x \in top + 1 .. top + n : x \in top + 1 .. base /\ x \notin (top + n) + 1 .. base
        /\ \A x \in (top + n) + 1 .. base : x \in top + 1 .. base
    OBVIOUS
  <2> QED BY <2>1, <2>2, <2>3 DEF Span
<1> QED BY <1>1, <1>2, <1>3, <1>4

(* A frame whose bytes are left alone stays.                                 *)
LEMMA FrameStays ==
  ASSUME NEW f \in StackFrames, NEW top, FrameBytes(f, top),
         \A k \in 1 .. FrameSize(f) : stack'[Cell(top + k)] = stack[Cell(top + k)]
  PROVE  FrameBytes(f, top)'
<1>1. CASE f.kind = "interrupt"
  BY <1>1 DEF FrameBytes, FrameSize, Restores
<1>2. CASE f.kind = "call"
  BY <1>2 DEF FrameBytes, FrameSize, Restores
<1>3. CASE f.kind = "status"
  BY <1>3 DEF FrameBytes, FrameSize, Restores
<1> QED BY <1>1, <1>2, <1>3 DEF StackFrames

(* The frames of the stack, and where they begin.                            *)
LEMMA FramesInPlace ==
  ASSUME Registers, NEW at \in Places, StackAt(at)
  PROVE  /\ Len(calls) \in Nat
         /\ \A k \in 1 .. Len(calls) + 1 : at[k] \in Int /\ at[1] <= at[k] /\ at[k] <= Base(at)
         /\ \A k \in 1 .. Len(calls) :
              /\ calls[k] \in StackFrames /\ FrameSize(calls[k]) \in 1 .. 3
              /\ at[k] + FrameSize(calls[k]) <= Base(at)
              /\ \A j \in 1 .. FrameSize(calls[k]) : at[k] + j \in at[1] + 1 .. Base(at)
<1>1. Len(calls) \in Nat /\ \A k \in 1 .. Len(calls) : calls[k] \in StackFrames
  BY DEF Registers
<1>2. \A f \in StackFrames : FrameSize(f) \in 1 .. 3
  BY DEF FrameSize
<1>3. ASSUME NEW k \in 1 .. Len(calls) + 1
      PROVE  at[k] \in Int /\ at[1] <= at[k] /\ at[k] <= Base(at)
  BY <1>1 DEF StackAt, Places, Base
<1>4. ASSUME NEW k \in 1 .. Len(calls)
      PROVE  /\ at[k] + FrameSize(calls[k]) <= Base(at)
             /\ \A j \in 1 .. FrameSize(calls[k]) : at[k] + j \in at[1] + 1 .. Base(at)
  <2>1. /\ k \in 1 .. Len(calls) + 1 /\ k + 1 \in 1 .. Len(calls) + 1
        /\ 1 \in 1 .. Len(calls) + 1
    BY <1>1
  <2>2. at[k + 1] = at[k] + FrameSize(calls[k]) /\ FrameSize(calls[k]) \in 1 .. 3
    BY <1>1, <1>2 DEF StackAt
  <2>3. /\ at[k] \in Int /\ at[1] \in Int /\ at[1] <= at[k] /\ at[k + 1] <= Base(at)
        /\ Base(at) \in Int
    BY <1>3, <1>1, <2>1 DEF Places, Base
  <2>4. PICK u, v, w, n : u = at[1] /\ v = at[k] /\ w = Base(at) /\ n = FrameSize(calls[k])
    OBVIOUS
  <2>5. /\ v \in Int /\ u \in Int /\ w \in Int /\ n \in 1 .. 3 /\ u <= v /\ v + n <= w
    BY <2>2, <2>3, <2>4
  <2>6. v + n <= w /\ \A j \in 1 .. n : v + j \in u + 1 .. w
    BY <2>5
  <2> QED BY <2>4, <2>6
<1> QED BY <1>1, <1>2, <1>3, <1>4

(* A frame in front of the others. *)
LEMMA FrameAdded ==
  ASSUME Registers, NEW f \in StackFrames, calls' = <<f>> \o calls
  PROVE  /\ calls' \in Seq(StackFrames) /\ Len(calls) \in Nat /\ Len(calls') = Len(calls) + 1
         /\ calls'[1] = f /\ \A k \in 1 .. Len(calls) : calls'[k + 1] = calls[k]
<1>1. <<f>> \in Seq(StackFrames) /\ calls \in Seq(StackFrames) /\ Len(<<f>>) = 1
  BY DEF Registers
<1>2. /\ calls' \in Seq(StackFrames)
      /\ Len(calls') = 1 + Len(calls)
      /\ \A i \in 1 .. Len(calls') :
           calls'[i] = IF i <= 1 THEN <<f>>[i] ELSE calls[i - 1]
  BY <1>1, ConcatProperties
<1>3. Len(calls) \in Nat /\ <<f>>[1] = f
  BY <1>1
<1> QED BY <1>2, <1>3

(* The bytes that a frame is pushed as. *)
FrameIs(f, bytes) ==
  /\ Len(bytes) = FrameSize(f)
  /\ f.kind = "status" => Restores(bytes[1], f.p)
  /\ f.kind = "interrupt" =>
       bytes[1] = Hi(f.pc) /\ bytes[2] = Lo(f.pc) /\ Restores(bytes[3], f.p)
  /\ f.kind = "call" =>
       \E a \in 0 .. Addrs - 1 : bytes[1] = Hi(a) /\ bytes[2] = Lo(a) /\ Next16(a, 1) = f.pc

(* A push puts its frame on the stack and no live byte is lost. *)
LEMMA PushKeepsFrames ==
  ASSUME Registers, StackIsFrames, NEW f \in StackFrames, NEW bytes, FrameIs(f, bytes),
         Fits(FrameSize(f)), PushAll(bytes), calls' = <<f>> \o calls, f.sp = sp
  PROVE  StackIsFrames'
<1>0. PICK n, len : n = FrameSize(f) /\ len = Len(calls)
  OBVIOUS
<1>1. n \in 1 .. 3 /\ Len(bytes) = n
  BY <1>0 DEF FrameSize, FrameIs
<1>2. PICK at \in Places : StackAt(at)
  BY DEF StackIsFrames
<1>a. PICK top, base : top = at[1] /\ base = Base(at)
  OBVIOUS
<1>b. PICK new : new = [k \in 1 .. len + 2 |-> IF k = 1 THEN top - n ELSE at[k - 1]]
  OBVIOUS
<1>3. /\ len \in Nat /\ calls' \in Seq(StackFrames) /\ Len(calls') = len + 1
      /\ calls'[1] = f /\ \A k \in 1 .. len : calls'[k + 1] = calls[k]
  BY <1>0, FrameAdded
<1>4. /\ top \in Int /\ base \in Int /\ top <= base /\ sp = Cell(top)
      /\ DOMAIN stack = Span(top, base) /\ base - top <= PageSize
      /\ \A k \in 1 .. len + 1 : at[k] \in Int /\ top <= at[k] /\ at[k] <= base
  <2>1. \A k \in 1 .. len + 1 : at[k] \in Int /\ top <= at[k] /\ at[k] <= base
    BY <1>0, <1>2, <1>a, FramesInPlace
  <2>2. 1 \in 1 .. len + 1 /\ len + 1 \in 1 .. len + 1
    BY <1>3
  <2>3. at[1] \in Int /\ at[len + 1] \in Int /\ at[1] <= base /\ at[len + 1] = base
    BY <1>0, <1>a, <2>1, <2>2 DEF Base
  <2>4. sp = Cell(top) /\ DOMAIN stack = Span(top, base) /\ base - top <= PageSize
    BY <1>2, <1>a DEF StackAt
  <2> QED BY <1>a, <2>1, <2>3, <2>4
<1>5. base - (top - n) <= PageSize
  <2>1. Cardinality(DOMAIN stack) = base - top
    BY <1>4, SpanSize
  <2>2. PageSize - (base - top) >= n
    BY <1>0, <2>1 DEF Fits, FreeBytes
  <2> QED BY <1>1, <1>4, <2>2, PageIsNat
<1>6. /\ sp' = Cell(top - n) /\ DOMAIN stack' = DOMAIN stack \cup Span(top - n, top)
      /\ \A k \in 1 .. n : stack'[Cell((top - n) + k)] = bytes[n + 1 - k]
      /\ \A a \in DOMAIN stack \ Span(top - n, top) : stack'[a] = stack[a]
  <2>1. top \in Int /\ sp = Cell(top) /\ n \in 1 .. 3 /\ Len(bytes) = n
    BY <1>1, <1>4
  <2>2. Writes(top, n, bytes)
    BY <2>1, PushEffect
  <2> QED BY <2>2 DEF Writes
<1>7. DOMAIN stack' = Span(top - n, base)
  <2>1. \A x \in (top - n) + 1 .. base : x \in (top - n) + 1 .. top \/ x \in top + 1 .. base
    BY <1>1, <1>4
  <2>2. /\ \A x \in (top - n) + 1 .. top : x \in (top - n) + 1 .. base
        /\ \A x \in top + 1 .. base : x \in (top - n) + 1 .. base
    BY <1>1, <1>4
  <2> QED BY <1>4, <1>6, <2>1, <2>2 DEF Span
<1>8. \A x \in top + 1 .. base : stack'[Cell(x)] = stack[Cell(x)]
  <2> SUFFICES ASSUME NEW x \in top + 1 .. base
               PROVE  Cell(x) \in DOMAIN stack \ Span(top - n, top)
    BY <1>6
  <2>1. \A y \in (top - n) + 1 .. top : Cell(x) # Cell(y)
    <3> SUFFICES ASSUME NEW y \in (top - n) + 1 .. top, Cell(x) = Cell(y)
                 PROVE  FALSE
      OBVIOUS
    <3>1. /\ x \in (top - n) + 1 .. base /\ y \in (top - n) + 1 .. base
          /\ top - n \in Int /\ top - n <= base /\ x # y
      BY <1>1, <1>4
    <3> QED BY <1>4, <1>5, <3>1, SpanSize
  <2> QED BY <1>4, <2>1 DEF Span
<1>9. FrameBytes(f, top - n)'
  <2>1. CASE f.kind = "interrupt"
    <3>1. n = 3
      BY <1>0, <2>1 DEF FrameSize
    <3>2. /\ stack'[Cell((top - n) + 1)] = bytes[3] /\ stack'[Cell((top - n) + 2)] = bytes[2]
          /\ stack'[Cell((top - n) + 3)] = bytes[1]
      BY <1>6, <3>1
    <3> QED BY <2>1, <3>2 DEF FrameBytes, FrameIs, Restores
  <2>2. CASE f.kind = "call"
    <3>1. n = 2
      BY <1>0, <2>2 DEF FrameSize
    <3>2. stack'[Cell((top - n) + 1)] = bytes[2] /\ stack'[Cell((top - n) + 2)] = bytes[1]
      BY <1>6, <3>1
    <3> QED BY <2>2, <3>2 DEF FrameBytes, FrameIs
  <2>3. CASE f.kind = "status"
    <3>1. n = 1
      BY <1>0, <2>3 DEF FrameSize
    <3>2. stack'[Cell((top - n) + 1)] = bytes[1]
      BY <1>6, <3>1
    <3> QED BY <2>3, <3>2 DEF FrameBytes, FrameIs, Restores
  <2> QED BY <2>1, <2>2, <2>3 DEF StackFrames
<1>10. /\ new[1] = top - n /\ new[2] = top
       /\ \A k \in 1 .. len + 1 : new[k + 1] = at[k]
  BY <1>3, <1>a, <1>b
<1>11. new \in Places' /\ Base(new)' = base
  <2>1. \A k \in 1 .. len + 2 : k = 1 \/ k - 1 \in 1 .. len + 1
    BY <1>3
  <2>2. top - n \in Int
    BY <1>1, <1>4
  <2>3. new \in [1 .. len + 2 -> Int]
    BY <1>4, <1>b, <2>1, <2>2
  <2>4. Len(calls') + 1 = len + 2 /\ new[len + 2] = at[len + 1]
    BY <1>3, <1>10
  <2> QED BY <1>0, <1>a, <2>3, <2>4 DEF Places, Base
<1>12. \A j, k \in 1 .. len + 2 : j <= k => new[j] <= new[k]
  <2> SUFFICES ASSUME NEW j \in 1 .. len + 2, NEW k \in 1 .. len + 2, j <= k
               PROVE  new[j] <= new[k]
    OBVIOUS
  <2>1. \A i \in 1 .. len + 2 : i = 1 \/ (i - 1 \in 1 .. len + 1 /\ new[i] = at[i - 1])
    BY <1>3, <1>10
  <2>2. \A i, l \in 1 .. len + 1 : i <= l => at[i] <= at[l]
    BY <1>0, <1>2 DEF StackAt
  <2>3. CASE j = 1
    BY <1>1, <1>4, <1>10, <2>1, <2>3
  <2>4. CASE j # 1
    <3>1. k # 1 /\ j - 1 \in 1 .. len + 1 /\ k - 1 \in 1 .. len + 1 /\ j - 1 <= k - 1
      BY <1>3, <2>4
    <3> QED BY <2>1, <2>2, <2>4, <3>1
  <2> QED BY <2>3, <2>4
<1>13. ASSUME NEW k \in 1 .. len + 1
       PROVE  /\ new[k + 1] = new[k] + FrameSize(calls'[k])
              /\ calls'[k].sp = Cell(new[k + 1])
              /\ FrameBytes(calls[k], new[k])'
  <2>1. CASE k = 1
    <3>1. top = (top - n) + n
      BY <1>1, <1>4
    <3> QED BY <1>3, <1>4, <1>9, <1>10, <1>0, <2>1, <3>1
  <2>2. CASE k # 1
    <3>1. PICK j \in 1 .. len : k = j + 1
      <4>1. k - 1 \in 1 .. len /\ k = (k - 1) + 1
        BY <1>3, <2>2
      <4> QED BY <4>1
    <3>2. new[k] = at[j] /\ new[k + 1] = at[j + 1] /\ calls'[k] = calls[j]
      BY <1>3, <1>10, <3>1
    <3>3. /\ at[j + 1] = at[j] + FrameSize(calls[j]) /\ calls[j].sp = Cell(at[j + 1])
          /\ FrameBytes(calls[j], at[j])
      BY <1>0, <1>2, <3>1 DEF StackAt
    <3>4. /\ calls[j] \in StackFrames
          /\ \A i \in 1 .. FrameSize(calls[j]) : at[j] + i \in top + 1 .. base
      BY <1>0, <1>a, <1>2, <3>1, FramesInPlace
    <3>6. PICK g, place : g = calls[j] /\ place = at[j]
      OBVIOUS
    <3>5. FrameBytes(g, place)'
      <4>1. /\ g \in StackFrames /\ FrameBytes(g, place)
            /\ \A i \in 1 .. FrameSize(g) : stack'[Cell(place + i)] = stack[Cell(place + i)]
        BY <1>8, <3>3, <3>4, <3>6
      <4> QED BY <4>1, FrameStays
    <3> QED BY <3>2, <3>3, <3>5, <3>6
  <2> QED BY <2>1, <2>2
<1>14. StackAt(new)'
  BY <1>3, <1>5, <1>6, <1>7, <1>10, <1>11, <1>12, <1>13, <1>0, <1>a DEF StackAt
<1> QED BY <1>11, <1>14 DEF StackIsFrames

(* What the pulls of the newest frame find: what was pushed. *)
LEMMA PulledBytes ==
  ASSUME Registers, StackIsFrames, calls # << >>
  PROVE  LET f == Head(calls)
         IN  /\ f.kind # "call" => Restores(Pulled(1), f.p)
             /\ f.kind = "interrupt" => Pulled(2) = Lo(f.pc) /\ Pulled(3) = Hi(f.pc)
             /\ f.kind = "call" =>
                  \E a \in 0 .. Addrs - 1 :
                    Pulled(1) = Lo(a) /\ Pulled(2) = Hi(a) /\ Next16(a, 1) = f.pc
<1>1. PICK at \in Places : StackAt(at)
  BY DEF StackIsFrames
<1>2. /\ Len(calls) \in Nat /\ Len(calls) >= 1 /\ Head(calls) = calls[1]
  BY HeadTailProperties DEF Registers
<1>3. at[1] \in Int /\ sp = Cell(at[1]) /\ FrameBytes(calls[1], at[1])
  BY <1>1, <1>2, FramesInPlace DEF StackAt
<1>4. \A k \in Nat : Pulled(k) = stack[Cell(at[1] + k)]
  BY <1>3, PointerMoves DEF Pulled
<1>5. /\ Pulled(1) = stack[Cell(at[1] + 1)] /\ Pulled(2) = stack[Cell(at[1] + 2)]
      /\ Pulled(3) = stack[Cell(at[1] + 3)]
  BY <1>4
<1> QED BY <1>2, <1>3, <1>5 DEF FrameBytes

(* A pull takes the newest frame off, SP is where it was before the frame    *)
(* was pushed, and the other frames stay.                                    *)
LEMMA PullKeepsFrames ==
  ASSUME Registers, StackIsFrames, calls # << >>,
         PullAll(FrameSize(Head(calls))), calls' = Tail(calls)
  PROVE  StackIsFrames' /\ sp' = Head(calls).sp
<1>1. PICK at \in Places : StackAt(at)
  BY DEF StackIsFrames
<1>2. PICK n, len, top, base :
        n = FrameSize(Head(calls)) /\ len = Len(calls) /\ top = at[1] /\ base = Base(at)
  OBVIOUS
<1>3. PICK new : new = [k \in 1 .. len |-> at[k + 1]]
  OBVIOUS
<1>4. /\ len \in Nat /\ len >= 1 /\ Head(calls) = calls[1] /\ Len(calls') = len - 1
      /\ calls' \in Seq(StackFrames)
      /\ \A k \in 1 .. len - 1 : calls'[k] = calls[k + 1]
  <2>1. calls \in Seq(StackFrames)
    BY DEF Registers
  <2> QED BY <1>2, <2>1, HeadTailProperties
<1>5. /\ \A k \in 1 .. len + 1 : at[k] \in Int /\ top <= at[k] /\ at[k] <= base
      /\ at[2] = top + n /\ n \in 1 .. 3 /\ Head(calls).sp = Cell(at[2])
  <2>1. 1 \in 1 .. Len(calls)
    BY <1>2, <1>4
  <2>2. FrameSize(calls[1]) \in 1 .. 3
    BY <1>1, <2>1, FramesInPlace
  <2>3. at[1 + 1] = at[1] + FrameSize(calls[1]) /\ calls[1].sp = Cell(at[1 + 1])
    BY <1>1, <2>1 DEF StackAt
  <2> QED BY <1>1, <1>2, <1>4, <2>2, <2>3, FramesInPlace
<1>6. /\ top \in Int /\ base \in Int /\ top + n <= base
      /\ sp = Cell(top) /\ DOMAIN stack = Span(top, base) /\ base - top <= PageSize
  <2>1. 1 \in 1 .. len + 1 /\ len + 1 \in 1 .. len + 1 /\ 2 \in 1 .. len + 1
    BY <1>4
  <2>2. sp = Cell(top) /\ DOMAIN stack = Span(top, base) /\ base - top <= PageSize
    BY <1>1, <1>2 DEF StackAt
  <2>3. base = at[len + 1]
    BY <1>2 DEF Base
  <2> QED BY <1>2, <1>5, <2>1, <2>2, <2>3
<1>7. /\ sp' = Cell(top + n) /\ DOMAIN stack' = Span(top + n, base)
      /\ \A a \in DOMAIN stack' : stack'[a] = stack[a]
  BY <1>2, <1>5, <1>6, PullEffect
<1>8. \A k \in 1 .. len : new[k] = at[k + 1] /\ k + 1 \in 1 .. len + 1
  BY <1>3, <1>4
<1>9. new \in Places' /\ Base(new)' = base /\ new[1] = top + n
  <2>1. new \in [1 .. len -> Int]
    BY <1>3, <1>4, <1>5
  <2>2. Len(calls') + 1 = len /\ new[len] = base /\ new[1] = top + n
    BY <1>2, <1>4, <1>5, <1>8 DEF Base
  <2> QED BY <2>1, <2>2 DEF Places, Base
<1>10. \A j, k \in 1 .. len : j <= k => new[j] <= new[k]
  <2>1. \A j, k \in 1 .. len + 1 : j <= k => at[j] <= at[k]
    BY <1>1, <1>2 DEF StackAt
  <2>2. \A j, k \in 1 .. len : j <= k => j + 1 <= k + 1
    BY <1>4
  <2> QED BY <1>8, <2>1, <2>2
<1>11. ASSUME NEW k \in 1 .. len - 1
       PROVE  /\ new[k + 1] = new[k] + FrameSize(calls'[k])
              /\ calls'[k].sp = Cell(new[k + 1])
              /\ FrameBytes(calls[k], new[k])'
  <2>1. k \in 1 .. len /\ k + 1 \in 1 .. len
    BY <1>4
  <2>2. new[k] = at[k + 1] /\ new[k + 1] = at[(k + 1) + 1] /\ calls'[k] = calls[k + 1]
    BY <1>4, <1>8, <2>1
  <2>3. /\ at[(k + 1) + 1] = at[k + 1] + FrameSize(calls[k + 1])
        /\ calls[k + 1].sp = Cell(at[(k + 1) + 1])
        /\ FrameBytes(calls[k + 1], at[k + 1])
    BY <1>1, <1>2, <2>1 DEF StackAt
  <2>4. PICK g, place : g = calls[k + 1] /\ place = at[k + 1]
    OBVIOUS
  <2>5. /\ g \in StackFrames /\ FrameSize(g) \in 1 .. 3
        /\ \A i \in 1 .. FrameSize(g) : place + i \in top + 1 .. base
    BY <1>1, <1>2, <2>1, <2>4, FramesInPlace
  <2>6. place \in Int /\ top + n <= place
    <3>1. 2 \in 1 .. len + 1 /\ k + 1 \in 1 .. len + 1 /\ 2 <= k + 1
      BY <1>4, <2>1
    <3>2. at[2] <= at[k + 1]
      BY <1>1, <1>2, <3>1 DEF StackAt
    <3> QED BY <1>5, <2>4, <3>1, <3>2
  <2>7. ASSUME NEW i \in 1 .. FrameSize(g)
        PROVE  stack'[Cell(place + i)] = stack[Cell(place + i)]
    <3>1. place + i \in (top + n) + 1 .. base
      BY <1>5, <1>6, <2>5, <2>6
    <3>2. Cell(place + i) \in Span(top + n, base)
      BY <3>1 DEF Span
    <3> QED BY <1>7, <3>2
  <2>8. FrameBytes(g, place)'
    BY <2>3, <2>4, <2>5, <2>7, FrameStays
  <2> QED BY <2>2, <2>3, <2>4, <2>8
<1>12. base - (top + n) <= PageSize
  BY <1>5, <1>6, PageIsNat
<1>13. StackAt(new)'
  <2>1. Len(calls)' = len - 1 /\ (len - 1) + 1 = len
    BY <1>4
  <2> QED BY <1>7, <1>9, <1>10, <1>11, <1>12, <2>1 DEF StackAt
<1> QED BY <1>5, <1>7, <1>9, <1>13 DEF StackIsFrames

(* What leaves the stack alone leaves its frames. *)
LEMMA FramesStay ==
  ASSUME StackIsFrames, sp' = sp, stack' = stack, calls' = calls
  PROVE  StackIsFrames'
<1>1. PICK at \in Places : StackAt(at)
  BY DEF StackIsFrames
<1>2. at \in Places' /\ StackAt(at)'
  BY <1>1 DEF Places, StackAt, Base, FrameBytes
<1> QED BY <1>2 DEF StackIsFrames

(* An empty stack, at power on and after a reset. *)
LEMMA NoFrames ==
  /\ PowerOn => Registers /\ StackIsFrames
  /\ SoftReset /\ Registers => Registers' /\ StackIsFrames'
<1>1. ASSUME NEW x \in Int
      PROVE  [k \in 1 .. 1 |-> x] \in [1 .. 0 + 1 -> Int] /\ Span(x, x) = {}
  BY DEF Span
<1>2. Len(<< >>) = 0 /\ DOMAIN << >> = {} /\ << >> \in Seq(StackFrames)
  OBVIOUS
<1>3. 2 \in 0 .. Addrs - 1
  BY InterruptAssumption
<1>4. ASSUME PowerOn
      PROVE  Registers /\ StackIsFrames
  <2>1. sp = Cell(-3) /\ -3 \in Int
    BY <1>4 DEF PowerOn, Down, Cell
  <2>2. Registers
    BY <1>2, <1>3, <1>4, <2>1, CellsOfPage DEF PowerOn, Registers, Flags
  <2> DEFINE at == [k \in 1 .. 1 |-> -3]
  <2>3. at \in Places
    BY <1>1, <1>2, <1>4, <2>1 DEF PowerOn, Places
  <2>4. at[1] = -3 /\ Base(at) = -3
    BY <1>2, <1>4 DEF PowerOn, Base
  <2> HIDE DEF at
  <2>5. StackAt(at)
    BY <1>1, <1>2, <1>4, <2>1, <2>4, PageIsNat DEF PowerOn, StackAt
  <2> QED BY <2>2, <2>3, <2>5 DEF StackIsFrames
<1>5. ASSUME SoftReset, Registers
      PROVE  Registers' /\ StackIsFrames'
  <2>1. PICK x \in Int : sp' = Cell(x)
    <3>1. sp - 3 \in Int /\ sp' = Cell(sp - 3)
      BY <1>5 DEF SoftReset, Down, Cell, Registers
    <3> QED BY <3>1
  <2>2. Registers'
    BY <1>2, <1>3, <1>5, <2>1, CellsOfPage DEF SoftReset, Registers, Flags
  <2>3. PICK at : at = [k \in 1 .. 1 |-> x]
    OBVIOUS
  <2>4. at \in Places' /\ at[1] = x /\ Base(at)' = x
    BY <1>1, <1>2, <1>5, <2>3 DEF SoftReset, Places, Base
  <2>5. StackAt(at)'
    BY <1>1, <1>2, <1>5, <2>1, <2>4, PageIsNat DEF SoftReset, StackAt
  <2> QED BY <2>2, <2>4, <2>5 DEF StackIsFrames
<1> QED BY <1>4, <1>5

-----------------------------------------------------------------------------
(* The instructions and the interrupts. *)

(* The program counter stays in the address space. *)
LEMMA CounterMoves ==
  ASSUME NEW a \in 0 .. Addrs - 1, NEW n \in Nat
  PROVE  /\ Next16(a, n) \in 0 .. Addrs - 1
         /\ Next16(Next16(a, n), 1) = Next16(a, n + 1)
<1>1. Addrs \in Nat \ {0} /\ a \in Int /\ n \in Int /\ 1 \in Int /\ a + n \in Int
  BY InterruptAssumption
<1>2. (a + n) % Addrs \in 0 .. Addrs - 1
  BY <1>1, DivMod
<1>3. (((a + n) % Addrs) + 1) % Addrs = ((a + n) + 1) % Addrs
  BY <1>1, ModAdd, Zenon
<1>4. (a + n) + 1 = a + (n + 1)
  BY <1>1
<1> QED BY <1>2, <1>3, <1>4 DEF Next16

(* A push leaves SP on the page. *)
LEMMA PushStaysOnPage ==
  ASSUME Registers, NEW bytes, Len(bytes) \in Nat, PushAll(bytes)
  PROVE  sp' \in 0 .. PageSize - 1
<1>1. sp' = (sp - Len(bytes)) % PageSize
  BY DEF PushAll, Down
<1>2. sp - Len(bytes) \in Int /\ PageSize \in Nat \ {0}
  BY PageIsNat DEF Registers
<1> QED BY <1>1, <1>2, DivMod

(* Entering a handler pushes its frame. *)
LEMMA EnterHandler ==
  ASSUME Registers, StackIsFrames, NEW kind, NEW vector \in 0 .. Addrs - 1,
         NEW from \in 0 .. Addrs - 1, NEW pushed,
         (pushed \ {"B"}) \cup {"U"} = (p \ {"B"}) \cup {"U"},
         ServiceInterrupt(kind, vector, from, pushed)
  PROVE  Registers' /\ StackIsFrames'
<1> DEFINE f == [kind |-> "interrupt", pc |-> from, p |-> p, sp |-> sp]
           bytes == <<Hi(from), Lo(from), Status(pushed)>>
<1>1. /\ Fits(3) /\ PushAll(bytes) /\ p' = p \cup {"I"} /\ pc' = vector
      /\ calls' = <<f>> \o calls
  BY DEF ServiceInterrupt
<1>2. /\ f \in StackFrames /\ f.kind = "interrupt" /\ f.pc = from /\ f.p = p /\ f.sp = sp
      /\ FrameSize(f) = 3
  BY DEF Registers, StackFrames, FrameSize
<1>3. Len(bytes) = 3 /\ bytes[1] = Hi(from) /\ bytes[2] = Lo(from) /\ bytes[3] = Status(pushed)
  OBVIOUS
<1> HIDE DEF f, bytes
<1>4. FrameIs(f, bytes)
  BY <1>2, <1>3 DEF FrameIs, Restores, Status
<1>5. StackIsFrames'
  BY <1>1, <1>2, <1>4, PushKeepsFrames
<1>6. calls' \in Seq(StackFrames)
  BY <1>1, <1>2, FrameAdded
<1>7. sp' \in 0 .. PageSize - 1
  BY <1>1, <1>3, PushStaysOnPage
<1> QED BY <1>1, <1>5, <1>6, <1>7 DEF Registers, Flags

(* What a push of one or two bytes leaves, PHP and JSR. *)
LEMMA PushInstructions ==
  ASSUME Registers, StackIsFrames, Php \/ Jsr
  PROVE  Registers' /\ StackIsFrames'
<1>0. pc \in 0 .. Addrs - 1
  BY DEF Registers
<1>1. CASE Php
  <2> DEFINE f == [kind |-> "status", p |-> p, sp |-> sp]
             bytes == <<Status(p \cup {"B", "U"})>>
  <2>1. /\ Fits(1) /\ PushAll(bytes) /\ p' = p /\ pc' = Next16(pc, 1)
        /\ calls' = <<f>> \o calls
    BY <1>1 DEF Php
  <2>2. /\ f \in StackFrames /\ f.kind = "status" /\ f.p = p /\ f.sp = sp /\ FrameSize(f) = 1
    BY DEF Registers, StackFrames, FrameSize
  <2>3. Len(bytes) = 1 /\ bytes[1] = Status(p \cup {"B", "U"})
    OBVIOUS
  <2>4. FrameIs(f, bytes)
    <3>1. ((p \cup {"B", "U"}) \ {"B"}) \cup {"U"} = (p \ {"B"}) \cup {"U"}
      OBVIOUS
    <3>2. bytes[1].of = p \cup {"B", "U"}
      BY <2>3 DEF Status
    <3> HIDE DEF f, bytes
    <3> QED BY <2>2, <2>3, <3>1, <3>2 DEF FrameIs, Restores
  <2> HIDE DEF f, bytes
  <2>5. StackIsFrames' /\ calls' \in Seq(StackFrames)
    BY <2>1, <2>2, <2>4, PushKeepsFrames, FrameAdded
  <2>6. sp' \in 0 .. PageSize - 1
    BY <2>1, <2>3, PushStaysOnPage
  <2> QED BY <1>0, <2>1, <2>5, <2>6, CounterMoves DEF Registers
<1>2. CASE Jsr
  <2> DEFINE f == [kind |-> "call", pc |-> Next16(pc, 3), sp |-> sp]
             bytes == <<Hi(Next16(pc, 2)), Lo(Next16(pc, 2))>>
  <2>1. /\ Fits(2) /\ PushAll(bytes) /\ p' = p /\ pc' \in {0, 2}
        /\ calls' = <<f>> \o calls
    BY <1>2 DEF Jsr
  <2>2. /\ Next16(pc, 3) \in 0 .. Addrs - 1 /\ Next16(pc, 2) \in 0 .. Addrs - 1
        /\ Next16(Next16(pc, 2), 1) = Next16(pc, 3)
    BY <1>0, CounterMoves
  <2>3. /\ f \in StackFrames /\ f.kind = "call" /\ f.pc = Next16(pc, 3) /\ f.sp = sp
        /\ FrameSize(f) = 2
    BY <2>2 DEF Registers, StackFrames, FrameSize
  <2>4. Len(bytes) = 2 /\ bytes[1] = Hi(Next16(pc, 2)) /\ bytes[2] = Lo(Next16(pc, 2))
    OBVIOUS
  <2> HIDE DEF f, bytes
  <2>5. FrameIs(f, bytes)
    BY <2>2, <2>3, <2>4 DEF FrameIs
  <2>6. StackIsFrames' /\ calls' \in Seq(StackFrames)
    BY <2>1, <2>3, <2>5, PushKeepsFrames, FrameAdded
  <2>7. sp' \in 0 .. PageSize - 1
    BY <2>1, <2>4, PushStaysOnPage
  <2> QED BY <2>1, <2>6, <2>7, InterruptAssumption DEF Registers
<1> QED BY <1>1, <1>2

(* What leaves a handler, a call, or a saved status behind: RTI, RTS, PLP.   *)
(* Each undoes the newest frame.                                             *)
LEMMA PullInstructions ==
  ASSUME Registers, StackIsFrames, Plp \/ Rts \/ Rti
  PROVE  /\ Registers' /\ StackIsFrames'
         /\ calls # << >> /\ sp' = Head(calls).sp
         /\ Head(calls).kind \in {"interrupt", "call"} => pc' = Head(calls).pc
         /\ Head(calls).kind \in {"interrupt", "status"} =>
              p' = (Head(calls).p \ {"B"}) \cup {"U"}
<1>1. PICK f : f = Head(calls)
  OBVIOUS
<1>2. /\ calls # << >> /\ PullAll(FrameSize(f)) /\ calls' = Tail(calls)
      /\ f.kind \in {"interrupt", "call", "status"}
  BY <1>1 DEF Plp, Rts, Rti, FrameSize
<1>3. /\ f \in StackFrames /\ calls' \in Seq(StackFrames)
  BY <1>1, <1>2, HeadTailProperties DEF Registers
<1>4. StackIsFrames' /\ sp' = f.sp
  BY <1>1, <1>2, PullKeepsFrames
<1>5. f.kind \in {"interrupt", "status"} => p' = (f.p \ {"B"}) \cup {"U"} /\ f.p \subseteq Flags
  <2>1. f.kind \in {"interrupt", "status"} => p' = (Pulled(1).of \ {"B"}) \cup {"U"}
    BY <1>1 DEF Plp, Rts, Rti
  <2>2. f.kind # "call" => (Pulled(1).of \ {"B"}) \cup {"U"} = (f.p \ {"B"}) \cup {"U"}
    BY <1>1, <1>2, PulledBytes DEF Restores
  <2>3. f.kind \in {"interrupt", "status"} => f.p \subseteq Flags
    BY <1>3 DEF StackFrames
  <2> QED BY <2>1, <2>2, <2>3
<1>6. f.kind = "call" => p' = p
  BY <1>1 DEF Plp, Rts, Rti
<1>7. f.kind \in {"interrupt", "call"} => pc' = f.pc /\ f.pc \in 0 .. Addrs - 1
  <2>1. f.kind \in {"interrupt", "call"} => f.pc \in 0 .. Addrs - 1
    BY <1>3 DEF StackFrames
  <2>2. ASSUME f.kind = "interrupt"
        PROVE  pc' = f.pc
    <3>1. pc' \in Joined(Pulled(2), Pulled(3))
      BY <1>1, <2>2 DEF Plp, Rts, Rti
    <3>2. Pulled(2) = Lo(f.pc) /\ Pulled(3) = Hi(f.pc)
      BY <1>1, <1>2, <2>2, PulledBytes
    <3> QED BY <3>1, <3>2 DEF Joined, Lo, Hi
  <2>3. ASSUME f.kind = "call"
        PROVE  pc' = f.pc
    <3>1. \E a \in Joined(Pulled(1), Pulled(2)) : pc' = Next16(a, 1)
      BY <1>1, <2>3 DEF Plp, Rts, Rti
    <3>2. PICK b \in 0 .. Addrs - 1 :
            Pulled(1) = Lo(b) /\ Pulled(2) = Hi(b) /\ Next16(b, 1) = f.pc
      BY <1>1, <1>2, <2>3, PulledBytes
    <3>3. Joined(Pulled(1), Pulled(2)) = {b}
      BY <3>2 DEF Joined, Lo, Hi
    <3> QED BY <3>1, <3>2, <3>3
  <2> QED BY <2>1, <2>2, <2>3
<1>8. f.kind = "status" => pc' = Next16(pc, 1)
  BY <1>1 DEF Plp, Rts, Rti
<1>9. Registers'
  <2>1. pc' \in 0 .. Addrs - 1
    <3>1. pc \in 0 .. Addrs - 1 /\ 1 \in Nat
      BY DEF Registers
    <3> QED BY <1>2, <1>7, <1>8, <3>1, CounterMoves
  <2>2. sp' \in 0 .. PageSize - 1
    BY <1>3, <1>4 DEF StackFrames
  <2>3. p' \in SUBSET Flags
    BY <1>2, <1>5, <1>6 DEF Registers, Flags
  <2> QED BY <1>3, <2>1, <2>2, <2>3 DEF Registers
<1> QED BY <1>1, <1>2, <1>4, <1>5, <1>7, <1>9

(* No step breaks the invariant. *)
LEMMA CpuKept ==
  ASSUME CpuIInv, [CpuNext]_cpuVars
  PROVE  CpuIInv'
<1> USE DEF CpuIInv
<1>0. pc \in 0 .. Addrs - 1 /\ 0 \in 0 .. Addrs - 1 /\ 1 \in 0 .. Addrs - 1
  BY InterruptAssumption DEF Registers
<1>a. \A n \in Nat : Next16(pc, n) \in 0 .. Addrs - 1
  BY <1>0, CounterMoves
<1>1. Registers' /\ StackIsFrames'
  <2>1. CASE ServiceNmi \/ ServiceIrq
    <3>1. (((p \cup {"U"}) \ {"B"}) \ {"B"}) \cup {"U"} = (p \ {"B"}) \cup {"U"}
      OBVIOUS
    <3> QED BY <1>0, <2>1, <3>1, EnterHandler DEF ServiceNmi, ServiceIrq, Vectors
  <2>2. CASE Brk
    <3>1. ((p \cup {"U", "B"}) \ {"B"}) \cup {"U"} = (p \ {"B"}) \cup {"U"}
      OBVIOUS
    <3>2. /\ ServiceInterrupt("other", 1, Next16(pc, 2), p \cup {"U", "B"})
          /\ Next16(pc, 2) \in 0 .. Addrs - 1
      BY <1>a, <2>2 DEF Brk, Vectors
    <3> QED BY <1>0, <3>1, <3>2, EnterHandler
  <2>3. CASE Php \/ Jsr
    BY <2>3, PushInstructions
  <2>4. CASE Plp \/ Rts \/ Rti
    BY <2>4, PullInstructions
  <2>5. CASE Other \/ Cli \/ Sei \/ Jam \/ RaiseNmi \/ ToggleIrq \/ UNCHANGED cpuVars
    <3>1. sp' = sp /\ stack' = stack /\ calls' = calls
      BY <2>5 DEF Other, Cli, Sei, ChangeI, Jam, RaiseNmi, ToggleIrq, cpuVars
    <3>2. pc' = pc \/ pc' = Next16(pc, 1)
      BY <2>5 DEF Other, Cli, Sei, ChangeI, Jam, RaiseNmi, ToggleIrq, cpuVars
    <3>3. p' \in {p, p \cup {"I"}, p \ {"I"}}
      BY <2>5 DEF Other, Cli, Sei, ChangeI, Jam, RaiseNmi, ToggleIrq, cpuVars
    <3> QED BY <1>0, <1>a, <3>1, <3>2, <3>3, FramesStay DEF Registers, Flags
  <2>6. CASE SoftReset
    BY <2>6, NoFrames
  <2> QED BY <2>1, <2>2, <2>3, <2>4, <2>5, <2>6 DEF CpuNext, Instruction
<1>2. DelayIsLatent'
  <2>a. I \in BOOLEAN
    BY DEF I
  <2>b. ASSUME NEW kind, kind # "latent", step' = [kind |-> kind, i |-> I], delayed' = None
        PROVE  DelayIsLatent'
    <3>1. step'.kind = kind /\ step'.i = I
      BY <2>b
    <3> QED BY <2>a, <2>b, <3>1 DEF DelayIsLatent
  <2>1. CASE ServiceNmi \/ ServiceIrq \/ Brk
    <3>1. PICK kind \in {"nmi", "irq", "other"} :
            step' = [kind |-> kind, i |-> I] /\ delayed' = None
      BY <2>1 DEF ServiceNmi, ServiceIrq, Brk, ServiceInterrupt
    <3> QED BY <2>b, <3>1
  <2>2. CASE Other \/ Php \/ Jsr \/ Rts \/ Rti \/ Jam
    BY <2>2, <2>b DEF Other, Php, Jsr, Rts, Rti, Jam, Plain
  <2>3. CASE Cli \/ Sei \/ Plp
    <3>1. step' = [kind |-> "latent", i |-> I] /\ delayed' = I
      BY <2>3 DEF Cli, Sei, ChangeI, Plp
    <3>2. step'.kind = "latent" /\ step'.i = I
      BY <3>1
    <3> QED BY <2>a, <3>1, <3>2 DEF DelayIsLatent
  <2>4. CASE SoftReset
    BY <2>4, <2>b DEF SoftReset
  <2>5. CASE RaiseNmi \/ ToggleIrq \/ UNCHANGED cpuVars
    BY <2>5 DEF RaiseNmi, ToggleIrq, cpuVars, DelayIsLatent
  <2> QED BY <2>1, <2>2, <2>3, <2>4, <2>5 DEF CpuNext, Instruction
<1> QED BY <1>1, <1>2

(* The invariant of the stack and the delayed flag. *)
THEOREM CpuInvariantHolds == CpuSpec => []CpuIInv
<1>1. CpuInit => CpuIInv
  BY NoFrames DEF CpuInit, PowerOn, CpuIInv, DelayIsLatent
<1> QED BY <1>1, CpuKept, PTL DEF CpuSpec

(* RTI, RTS and PLP undo what an interrupt, a call or PHP did, at any depth, *)
(* for any size of the page and wherever SP wraps in it (Cpu::step).         *)
THEOREM HandlersAreTransparent == CpuSpec => HandlerIsTransparent
<1> DEFINE Body ==
      calls # << >> /\ calls' = Tail(calls) /\ step'.kind # "reset" =>
        LET f == Head(calls) IN
        /\ sp' = f.sp
        /\ f.kind \in {"interrupt", "call"} => pc' = f.pc
        /\ f.kind \in {"interrupt", "status"} => p' = (f.p \ {"B"}) \cup {"U"}
<1>1. CpuIInv /\ [CpuNext]_cpuVars => [Body]_cpuVars
  <2> SUFFICES ASSUME CpuIInv, CpuNext, calls # << >>, calls' = Tail(calls),
                      step'.kind # "reset"
               PROVE  /\ sp' = Head(calls).sp
                      /\ Head(calls).kind \in {"interrupt", "call"} => pc' = Head(calls).pc
                      /\ Head(calls).kind \in {"interrupt", "status"} =>
                           p' = (Head(calls).p \ {"B"}) \cup {"U"}
    OBVIOUS
  <2>1. calls \in Seq(StackFrames) /\ Len(calls) \in Nat /\ Len(calls') = Len(calls) - 1
    BY HeadTailProperties DEF CpuIInv, Registers
  <2>2. ASSUME NEW f, calls' = <<f>> \o calls
        PROVE  FALSE
    <3> DEFINE S == StackFrames \cup {f}
    <3>1. calls \in Seq(S) /\ <<f>> \in Seq(S) /\ Len(<<f>>) = 1
      BY <2>1
    <3>2. Len(calls') = Len(<<f>>) + Len(calls)
      BY <2>2, <3>1, ConcatProperties
    <3> QED BY <2>1, <3>1, <3>2
  <2>3. calls' # calls
    <3>1. PICK n \in Nat : Len(calls) = n /\ Len(calls') = n - 1
      BY <2>1
    <3>2. n - 1 # n
      OBVIOUS
    <3> QED BY <3>1, <3>2, Zenon
  <2>4. ~SoftReset
    <3>1. SoftReset => step'.kind = "reset"
      BY DEF SoftReset
    <3> QED BY <3>1
  <2>5. ~ServiceNmi /\ ~ServiceIrq /\ ~Brk /\ ~Php /\ ~Jsr
    BY <2>2 DEF ServiceNmi, ServiceIrq, Brk, ServiceInterrupt, Php, Jsr
  <2>6. ~Other /\ ~Cli /\ ~Sei /\ ~Jam /\ ~RaiseNmi /\ ~ToggleIrq
    BY <2>3 DEF Other, Cli, Sei, ChangeI, Jam, RaiseNmi, ToggleIrq
  <2>7. Plp \/ Rts \/ Rti
    BY <2>4, <2>5, <2>6 DEF CpuNext, Instruction
  <2> QED BY <2>7, PullInstructions DEF CpuIInv
<1> QED BY <1>1, CpuInvariantHolds, PTL DEF CpuSpec, HandlerIsTransparent

(* Every IRQ and every instruction comes when the I flag, as late as the     *)
(* program saw it change, lets it (Cpu::step, delayed_i).                    *)
THEOREM PollsAreInTurn == CpuSpec => InterruptsAtTheirTurn
<1> DEFINE Body ==
      /\ ServiceIrq => IF step.kind = "latent" THEN ~step.i ELSE ~I
      /\ Instruction => ~nmi /\ ~(irq /\ ~I /\ ~step.i)
<1>1. CpuIInv /\ [CpuNext]_cpuVars => [Body]_cpuVars
  <2> SUFFICES ASSUME CpuIInv PROVE Body
    OBVIOUS
  <2>1. Masked <=> IF step.kind = "latent" THEN step.i ELSE I
    BY InterruptAssumption DEF CpuIInv, DelayIsLatent, Masked, I
  <2>2. ServiceIrq => ~Masked
    BY DEF ServiceIrq
  <2>3. Instruction => ~nmi /\ (Masked \/ ~irq)
    BY DEF Instruction, Other, Cli, Sei, ChangeI, Php, Plp, Jsr, Rts, Rti, Brk, Jam, Plain, Executes
  <2> QED BY <2>1, <2>2, <2>3
<1> QED BY <1>1, CpuInvariantHolds, PTL DEF CpuSpec, InterruptsAtTheirTurn

-----------------------------------------------------------------------------
(* The MMC3's scanline interrupt, ScanlineIrq. *)

Chips ==
  [a12 : Bit, low : 0 .. 3, counter : 0 .. MaxLatch, reload : BOOLEAN,
   enabled : BOOLEAN, pending : BOOLEAN, clocks : Nat, since : Int]

(* The counter is how far it is from $C001 to the next interrupt.            *)
CountsFromReload(c) ==
  c.since # -1 =>
    /\ c.since \in 0 .. latch
    /\ c.counter = IF c.since = 0 THEN 0 ELSE latch + 1 - c.since
    /\ c.since # 0 => ~c.reload

(* The dots that fetch the first sprite's and the next line's first pattern. *)
FirstSprite   == 8 * Tiles + 5
FirstPrefetch == 8 * Tiles + 69

(* A12 has been low for some dots, k of them in the cycle under way.         *)
LowLong(c, dots, k) == c.low = 3 \/ 3 * c.low + k >= dots

(* What an undisturbed line has shown the mapper before its dot d, after k   *)
(* dots of the cycle under way: the line is the background's table, then the *)
(* sprites', then the background's again, and low for long enough where it   *)
(* is about to rise.                                                         *)
LineSeen(c, d, k) ==
  /\ d <= FirstSprite /\ quiet = 2 =>
       c.a12 = ctrl.bg /\ (ctrl.bg = 0 /\ ctrl.spr = 1 => c.low = 3)
  /\ d \in FirstSprite + 1 .. FirstPrefetch =>
       /\ c.a12 = ctrl.spr
       /\ quiet = 2 /\ ctrl.bg = 1 /\ ctrl.spr = 0 => LowLong(c, d - FirstSprite, k)
  /\ d > FirstPrefetch =>
       /\ c.a12 = ctrl.bg
       /\ ctrl.bg = 0 /\ ctrl.spr = 1 => LowLong(c, d - FirstPrefetch, k)
  /\ quiet = 2 =>
       c.clocks = IF \/ ctrl.bg = 0 /\ ctrl.spr = 1 /\ d > FirstSprite
                     \/ ctrl.bg = 1 /\ ctrl.spr = 0 /\ d > FirstPrefetch THEN 1 ELSE 0

(* Two lines in which nothing interferes. *)
Foreseen == quiet # 0 /\ rendering /\ ~ctrl.tall

ScanIInv ==
  /\ TypeOK /\ chip \in Chips /\ (canWrite => writes < MaxWrites)
  /\ CountsFromReload(chip)
  /\ Foreseen => LineSeen(chip, dot, 0)

-----------------------------------------------------------------------------
(* The dots of a line, for every number of its tiles. *)
LEMMA LineDots ==
  /\ Tiles \in Nat /\ Tiles > 0 /\ MaxLatch \in Nat /\ MaxLatch > 0 /\ MaxWrites \in Nat
  /\ FirstSprite \in Nat /\ FirstPrefetch = FirstSprite + 64 /\ Dots = FirstSprite + 80
  /\ Sprites = FirstSprite - 4 /\ Prefetch = FirstSprite + 60 /\ FirstSprite > 12
BY ScanlineAssumption DEF FirstSprite, FirstPrefetch, Dots, Sprites, Prefetch

(* Around the two changes of table nothing is fetched. *)
LEMMA FetchDots ==
  ASSUME NEW d \in Nat, FetchesAt(d)
  PROVE  /\ d <= FirstPrefetch + 10 /\ d >= 5
         /\ ~(d \in FirstSprite - 4 .. FirstSprite - 1)
         /\ ~(d \in FirstPrefetch - 4 .. FirstPrefetch - 1)
BY LineDots DEF FetchesAt, Prefetch, FirstSprite, FirstPrefetch

(* The dot after the last of a line is its first. *)
LEMMA SmallRemainder ==
  ASSUME NEW a \in Nat, NEW b \in Nat, a <= b
  PROVE  (a + 1) % (b + 1) = IF a = b THEN 0 ELSE a + 1
OBVIOUS

(* A clock and what leaves the counter alone. *)
SameCount(c, e) ==
  /\ e.counter = c.counter /\ e.reload = c.reload /\ e.enabled = c.enabled
  /\ e.pending = c.pending /\ e.clocks = c.clocks /\ e.since = c.since

(* A clock counts from the reload, and asks for an interrupt on reaching 0 *)
(* while interrupts are enabled (clock_irq_counter).                       *)
LEMMA ClockEffect ==
  ASSUME NEW c \in Chips, latch \in 0 .. MaxLatch, CountsFromReload(c)
  PROVE  /\ ClockIrqCounter(c) \in Chips /\ CountsFromReload(ClockIrqCounter(c))
         /\ ClockIrqCounter(c).a12 = c.a12 /\ ClockIrqCounter(c).low = c.low
         /\ ClockIrqCounter(c).clocks = c.clocks + 1
         /\ ClockIrqCounter(c).since = -1 <=> c.since = -1
         /\ ClockIrqCounter(c).enabled = c.enabled
         /\ c.since # -1 => ClockIrqCounter(c).pending =
                              (c.pending \/ (ClockIrqCounter(c).since = 0 /\ c.enabled))
<1> DEFINE n == IF c.counter = 0 \/ c.reload THEN latch ELSE c.counter - 1
           s == IF c.since = -1 THEN -1 ELSE (c.since + 1) % (latch + 1)
           req == c.pending \/ (n = 0 /\ c.enabled)
<1>1. /\ c.counter \in 0 .. MaxLatch /\ c.since \in Int /\ c.clocks \in Nat
      /\ c.pending \in BOOLEAN /\ c.enabled \in BOOLEAN /\ c.reload \in BOOLEAN
      /\ latch \in Nat /\ latch <= MaxLatch
  BY LineDots DEF Chips
<1>2. n \in 0 .. MaxLatch
  BY <1>1, LineDots
<1>3. c.since # -1 =>
        /\ c.since \in 0 .. latch
        /\ s = IF c.since = latch THEN 0 ELSE c.since + 1
  <2> SUFFICES ASSUME c.since # -1
               PROVE  c.since \in 0 .. latch /\ s = IF c.since = latch THEN 0 ELSE c.since + 1
    OBVIOUS
  <2>1. c.since \in 0 .. latch
    BY DEF CountsFromReload
  <2>2. (c.since + 1) % (latch + 1) = IF c.since = latch THEN 0 ELSE c.since + 1
    BY <1>1, <2>1, SmallRemainder
  <2> QED BY <2>1, <2>2
<1>4. s \in Int /\ (s = -1 <=> c.since = -1)
  BY <1>1, <1>3
<1>5. c.since # -1 => s \in 0 .. latch /\ n = IF s = 0 THEN 0 ELSE latch + 1 - s
  BY <1>1, <1>3 DEF CountsFromReload
<1>6. req \in BOOLEAN
  BY <1>1
<1> HIDE DEF n, s, req
<1>7. ClockIrqCounter(c) = [c EXCEPT !.counter = n, !.reload = FALSE, !.pending = req,
                                     !.clocks = @ + 1, !.since = s]
  BY DEF ClockIrqCounter, n, s, req
<1>8. PICK e : e = ClockIrqCounter(c)
  OBVIOUS
<1>9. c.clocks + 1 \in Nat
  BY <1>1
<1>10. e \in Chips
  BY <1>2, <1>4, <1>6, <1>7, <1>8, <1>9 DEF Chips
<1>11. /\ e.counter = n /\ e.reload = FALSE /\ e.pending = req /\ e.clocks = c.clocks + 1
       /\ e.since = s /\ e.a12 = c.a12 /\ e.low = c.low /\ e.enabled = c.enabled
  BY <1>7, <1>8 DEF Chips
<1>12. CountsFromReload(e)
  <2> SUFFICES ASSUME e.since # -1
               PROVE  /\ e.since \in 0 .. latch
                      /\ e.counter = IF e.since = 0 THEN 0 ELSE latch + 1 - e.since
                      /\ ~e.reload
    BY DEF CountsFromReload
  <2>1. c.since # -1
    BY <1>4, <1>11
  <2>2. s \in 0 .. latch /\ n = IF s = 0 THEN 0 ELSE latch + 1 - s
    BY <1>5, <2>1
  <2>3. ~e.reload
    BY <1>11
  <2> QED BY <1>11, <2>2, <2>3
<1>13. c.since # -1 => (n = 0 <=> s = 0)
  BY <1>1, <1>5
<1>14. c.since # -1 => req = (c.pending \/ (s = 0 /\ c.enabled))
  BY <1>13 DEF req
<1> QED BY <1>4, <1>8, <1>10, <1>11, <1>12, <1>14

(* After a clock the filter lets none through before cycles have passed.     *)
Spent(c) == c.a12 = 1 \/ c.low < 3

(* A clock looks at the counter's side of the chip only. *)
LEMMA SameClock ==
  ASSUME NEW c \in Chips, NEW e \in Chips, SameCount(c, e)
  PROVE  SameCount(ClockIrqCounter(c), ClockIrqCounter(e))
BY DEF Chips, SameCount, ClockIrqCounter

(* An observed address clocks the counter on a rise of A12 that follows three *)
(* low cycles, and never otherwise (observe_a12).                             *)
LEMMA Observed ==
  ASSUME NEW c \in Chips, latch \in 0 .. MaxLatch, CountsFromReload(c), NEW a \in Bit
  PROVE  /\ ObserveA12(c, a) \in Chips /\ ObserveA12(c, a).a12 = a
         /\ ObserveA12(c, a).low = IF a = 0 /\ c.a12 = 1 THEN 0 ELSE c.low
         /\ IF a = 1 /\ c.a12 = 0 /\ c.low = 3
            THEN SameCount(ClockIrqCounter(c), ObserveA12(c, a))
            ELSE SameCount(c, ObserveA12(c, a))
<1>1. PICK seen : seen = IF a = 1 /\ c.a12 = 0 /\ c.low >= 3 THEN ClockIrqCounter(c) ELSE c
  OBVIOUS
<1>2. c.low \in 0 .. 3 /\ c.a12 \in Bit
  BY DEF Chips
<1>3. seen \in Chips /\ seen.a12 = c.a12 /\ seen.low = c.low
  BY <1>1, ClockEffect
<1>4. PICK l : l = IF a = 0 /\ c.a12 = 1 THEN 0 ELSE c.low
  OBVIOUS
<1>5. PICK e : e = [seen EXCEPT !.a12 = a, !.low = l]
  OBVIOUS
<1>6. ObserveA12(c, a) = e
  BY <1>1, <1>3, <1>4, <1>5 DEF ObserveA12, Chips
<1>7. l \in 0 .. 3
  BY <1>2, <1>4
<1>8. e \in Chips
  BY <1>3, <1>5, <1>7 DEF Chips
<1>9. e.a12 = a /\ e.low = l
  BY <1>3, <1>5 DEF Chips
<1>10. SameCount(seen, e)
  BY <1>3, <1>5 DEF Chips, SameCount
<1>11. seen = IF a = 1 /\ c.a12 = 0 /\ c.low = 3 THEN ClockIrqCounter(c) ELSE c
  BY <1>1, <1>2
<1> QED BY <1>4, <1>6, <1>8, <1>9, <1>10, <1>11

(* The facts a run preserves: types, the counter's place, and that at most   *)
(* one clock has passed since c.                                             *)
Follows(c, e) ==
  /\ e \in Chips
  /\ SameCount(c, e) \/ (SameCount(ClockIrqCounter(c), e) /\ Spent(e))

(* Whatever is observed after a chip's clock, the chip has the same count. *)
LEMMA ObservedAgain ==
  ASSUME NEW c \in Chips, latch \in 0 .. MaxLatch, CountsFromReload(c),
         NEW e, Follows(c, e), NEW a \in Bit
  PROVE  Follows(c, ObserveA12(e, a)) /\ CountsFromReload(ObserveA12(e, a))
<1>1. e \in Chips /\ CountsFromReload(e)
  <2>1. CountsFromReload(ClockIrqCounter(c))
    BY ClockEffect
  <2> QED BY <2>1 DEF Follows, SameCount, CountsFromReload
<1>2. PICK o : o = ObserveA12(e, a)
  OBVIOUS
<1>3. /\ o \in Chips /\ o.a12 = a
      /\ o.low = IF a = 0 /\ e.a12 = 1 THEN 0 ELSE e.low
      /\ IF a = 1 /\ e.a12 = 0 /\ e.low = 3
         THEN SameCount(ClockIrqCounter(e), o)
         ELSE SameCount(e, o)
  BY <1>1, <1>2, Observed
<1>4. e.low \in 0 .. 3 /\ e.a12 \in Bit
  BY <1>1 DEF Chips
<1>5. CASE SameCount(c, e) /\ a = 1 /\ e.a12 = 0 /\ e.low = 3
  <2>1. SameCount(ClockIrqCounter(e), o)
    BY <1>3, <1>5
  <2>2. SameCount(ClockIrqCounter(c), ClockIrqCounter(e))
    BY <1>1, <1>5, SameClock
  <2>3. SameCount(ClockIrqCounter(c), o) /\ Spent(o)
    BY <1>3, <1>5, <2>1, <2>2 DEF SameCount, Spent
  <2> QED BY <1>2, <1>3, <2>3, ClockEffect DEF Follows, SameCount, CountsFromReload
<1>6. CASE SameCount(c, e) /\ ~(a = 1 /\ e.a12 = 0 /\ e.low = 3)
  <2>1. SameCount(c, o)
    BY <1>3, <1>6 DEF SameCount
  <2> QED BY <1>2, <1>3, <2>1 DEF Follows, SameCount, CountsFromReload
<1>7. CASE SameCount(ClockIrqCounter(c), e) /\ Spent(e)
  <2>1. SameCount(e, o)
    BY <1>3, <1>4, <1>7 DEF Spent
  <2>2. Spent(o)
    BY <1>3, <1>4, <1>7 DEF Spent, Bit
  <2>3. SameCount(ClockIrqCounter(c), o)
    BY <1>7, <2>1 DEF SameCount
  <2>4. CountsFromReload(o)
    BY <1>1, <2>1 DEF SameCount, CountsFromReload
  <2> QED BY <1>2, <1>3, <2>2, <2>3, <2>4 DEF Follows
<1> QED BY <1>5, <1>6, <1>7 DEF Follows

(* Nothing has been shown yet. *)
LEMMA FollowsItself ==
  ASSUME NEW c \in Chips
  PROVE  Follows(c, c)
BY DEF Follows, SameCount

(* A CPU cycle only lets the low cycles grow, up to three. *)
LEMMA StepEffect ==
  ASSUME NEW c \in Chips
  PROVE  /\ StepMapper(c) \in Chips /\ StepMapper(c).a12 = c.a12 /\ SameCount(c, StepMapper(c))
         /\ StepMapper(c).low = IF c.a12 = 1 \/ c.low = 3 THEN 3 ELSE c.low + 1
<1>1. c.low \in 0 .. 3 /\ c.a12 \in Bit
  BY DEF Chips
<1>2. PICK l : l = IF c.a12 = 1 THEN 3 ELSE Lesser(c.low + 1, 3)
  OBVIOUS
<1>3. l \in 0 .. 3 /\ l = IF c.a12 = 1 \/ c.low = 3 THEN 3 ELSE c.low + 1
  BY <1>1, <1>2 DEF Lesser
<1>4. PICK e : e = [c EXCEPT !.low = l]
  OBVIOUS
<1>5. e \in Chips /\ e.a12 = c.a12 /\ e.low = l
  BY <1>3, <1>4 DEF Chips
<1>6. SameCount(c, e)
  BY <1>4 DEF Chips, SameCount
<1>7. StepMapper(c) = e
  BY <1>2, <1>4 DEF StepMapper
<1> QED BY <1>3, <1>5, <1>6, <1>7

(* A dot leaves the count that its fetches have made. *)
LEMMA DotRuns ==
  ASSUME NEW c \in Chips, latch \in 0 .. MaxLatch, CountsFromReload(c), ctrl \in Ctrl,
         NEW e, Follows(c, e), CountsFromReload(e), NEW d \in Nat, NEW t \in Bit
  PROVE  Follows(c, RunDot(e, d, t)) /\ CountsFromReload(RunDot(e, d, t))
<1>1. TableAt(d, t) \in Bit
  BY DEF TableAt, Ctrl
<1> QED BY <1>1, ObservedAgain DEF RunDot

-----------------------------------------------------------------------------
(* The three dots of a cycle: three in a row on the line, or the end of the  *)
(* line, where nothing is fetched any more, and the first dots of the next.  *)
Quiescent(d) == d \in {0, 1} \/ d \in FirstPrefetch + 12 .. Dots - 1

(* Three dots in a row, within a line or over its end. *)
LEMMA CycleDots ==
  ASSUME dot \in 0 .. Dots - 1, rendering \in BOOLEAN,
         NEW d1 \in After(dot), NEW d2 \in After(d1), NEW d3 \in After(d2)
  PROVE  /\ d1 \in Nat /\ d2 \in Nat /\ d3 \in 0 .. Dots - 1
         /\ IF d3 < dot THEN d3 \in 0 .. 2 /\ Quiescent(dot) /\ Quiescent(d1) /\ Quiescent(d2)
                            /\ dot >= FirstPrefetch + 12
                       ELSE d1 = dot + 1 /\ d2 = dot + 2 /\ d3 = dot + 3
<1>1. Dots = FirstPrefetch + 16 /\ FirstPrefetch \in Nat /\ FirstPrefetch > 60
  BY LineDots
<1>2. \A d \in 0 .. Dots - 1 : \A e \in After(d) :
         (e = d + 1 /\ e \in 0 .. Dots - 1) \/ (e = 0 /\ d >= Dots - 2)
  BY <1>1 DEF After
<1>3. (d1 = dot + 1 /\ d1 \in 0 .. Dots - 1) \/ (d1 = 0 /\ dot >= Dots - 2)
  BY <1>2
<1>4. d1 \in 0 .. Dots - 1
  BY <1>1, <1>3
<1>5. (d2 = d1 + 1 /\ d2 \in 0 .. Dots - 1) \/ (d2 = 0 /\ d1 >= Dots - 2)
  BY <1>2, <1>4
<1>6. d2 \in 0 .. Dots - 1
  BY <1>1, <1>5
<1>7. (d3 = d2 + 1 /\ d3 \in 0 .. Dots - 1) \/ (d3 = 0 /\ d2 >= Dots - 2)
  BY <1>2, <1>6
<1>8. d3 \in 0 .. Dots - 1 /\ d1 \in Nat /\ d2 \in Nat
  BY <1>1, <1>4, <1>6, <1>7
<1>9. CASE d1 = dot + 1 /\ d2 = d1 + 1 /\ d3 = d2 + 1
  BY <1>8, <1>9
<1>10. CASE ~(d1 = dot + 1 /\ d2 = d1 + 1 /\ d3 = d2 + 1)
  BY <1>1, <1>3, <1>5, <1>7, <1>8, <1>10 DEF Quiescent
<1> QED BY <1>9, <1>10

(* A quiescent dot shows the mapper nothing. *)
LEMMA QuiescentDots ==
  ASSUME NEW d \in Nat, Quiescent(d), NEW c, NEW t
  PROVE  RunDot(c, d, t) = c
<1>1. ~FetchesAt(d)
  BY FetchDots, LineDots DEF Quiescent
<1> QED BY <1>1 DEF RunDot

(* A cycle of given dots. *)
Cycle(t, d1, d2, d3) ==
  LET done == StepMapper(RunDot(RunDot(RunDot(chip, dot, t), d1, t), d2, t)) IN
  /\ dot' = d3 /\ UNCHANGED <<ctrl, latch>>
  /\ chip' = IF d3 < dot THEN [done EXCEPT !.clocks = 0] ELSE done
  /\ \/ rendering' = rendering
        /\ quiet' = IF d3 < dot THEN Lesser(quiet + 1, 2) ELSE quiet
     \/ d3 < dot /\ rendering' = ~rendering /\ quiet' = 0

(* A tick of the bus is three dots under one table. *)
LEMMA TickIsCycle ==
  ASSUME BusTick
  PROVE  \E t \in Bit : \E d1 \in After(dot) : \E d2 \in After(d1) : \E d3 \in After(d2) :
           Cycle(t, d1, d2, d3)
BY DEF BusTick, Cycle

(* One cycle: the counter's side takes at most one clock, and none on the    *)
(* way to the next line, whose clocks it begins to count anew.               *)
LEMMA CycleEffect ==
  ASSUME TypeOK, chip \in Chips, CountsFromReload(chip), BusTick
  PROVE  /\ chip' \in Chips /\ CountsFromReload(chip')
         /\ \/ SameCount(chip, chip')
            \/ SameCount(ClockIrqCounter(chip), chip')
            \/ SameCount([chip EXCEPT !.clocks = 0], chip')
<1>1. PICK t \in Bit, d1 \in After(dot) :
        \E d2 \in After(d1) : \E d3 \in After(d2) : Cycle(t, d1, d2, d3)
  BY TickIsCycle
<1>2. PICK d2 \in After(d1) : \E d3 \in After(d2) : Cycle(t, d1, d2, d3)
  BY <1>1
<1>3. PICK d3 \in After(d2) : Cycle(t, d1, d2, d3)
  BY <1>2
<1>4. PICK e1, e2, e3 :
      e1 = RunDot(chip, dot, t) /\ e2 = RunDot(e1, d1, t) /\ e3 = RunDot(e2, d2, t)
  OBVIOUS
<1>5. chip' = IF d3 < dot THEN [StepMapper(e3) EXCEPT !.clocks = 0] ELSE StepMapper(e3)
  BY <1>3, <1>4 DEF Cycle
<1>6. /\ d1 \in Nat /\ d2 \in Nat /\ dot \in Nat /\ latch \in 0 .. MaxLatch /\ ctrl \in Ctrl
      /\ d3 < dot => Quiescent(dot) /\ Quiescent(d1) /\ Quiescent(d2)
  BY CycleDots, LineDots DEF TypeOK
<1>7. Follows(chip, e3) /\ CountsFromReload(e3)
  <2>1. Follows(chip, e1) /\ CountsFromReload(e1)
    BY <1>4, <1>5, <1>6, FollowsItself, DotRuns
  <2>2. Follows(chip, e2) /\ CountsFromReload(e2)
    BY <1>4, <1>5, <1>6, <2>1, DotRuns
  <2> QED BY <1>4, <1>5, <1>6, <2>2, DotRuns
<1>8. PICK e : e = StepMapper(e3)
  OBVIOUS
<1>9. e \in Chips /\ SameCount(e3, e)
  BY <1>7, <1>8, StepEffect DEF Follows
<1>10. CountsFromReload(e)
  BY <1>7, <1>9 DEF SameCount, CountsFromReload
<1>11. CASE ~(d3 < dot)
  <2>1. chip' = e
    BY <1>4, <1>5, <1>8, <1>11
  <2>2. SameCount(chip, e) \/ SameCount(ClockIrqCounter(chip), e)
    BY <1>7, <1>9 DEF Follows, SameCount
  <2> QED BY <1>9, <1>10, <2>1, <2>2
<1>12. CASE d3 < dot
  <2>1. e3 = chip
    BY <1>4, <1>5, <1>6, <1>12, QuiescentDots
  <2>2. PICK o : o = [e EXCEPT !.clocks = 0]
    OBVIOUS
  <2>3. o \in Chips
    BY <1>9, <2>2 DEF Chips
  <2>4. SameCount([chip EXCEPT !.clocks = 0], o) /\ CountsFromReload(o)
    <3>1. /\ o.counter = e.counter /\ o.reload = e.reload /\ o.enabled = e.enabled
          /\ o.pending = e.pending /\ o.since = e.since /\ o.clocks = 0
      BY <1>9, <2>2 DEF Chips
    <3>2. PICK z : z = [chip EXCEPT !.clocks = 0]
      OBVIOUS
    <3>3. /\ z.counter = chip.counter /\ z.reload = chip.reload /\ z.enabled = chip.enabled
          /\ z.pending = chip.pending /\ z.since = chip.since /\ z.clocks = 0
      BY <3>2 DEF Chips
    <3> QED BY <1>9, <1>10, <2>1, <3>1, <3>2, <3>3 DEF SameCount, CountsFromReload
  <2> QED BY <1>4, <1>5, <1>8, <1>12, <2>2, <2>3, <2>4
<1> QED BY <1>11, <1>12

(* Where the tables change, a pattern is fetched; where one is fetched, it   *)
(* is from the table of the part of the line.                                *)
LEMMA TableDots ==
  ASSUME NEW d \in Nat, NEW t, ~ctrl.tall
  PROVE  /\ FetchesAt(FirstSprite) /\ FetchesAt(FirstPrefetch)
         /\ FetchesAt(d) =>
              TableAt(d, t) = IF d >= FirstSprite /\ d < FirstPrefetch THEN ctrl.spr ELSE ctrl.bg
<1>1. FetchesAt(FirstSprite) /\ FetchesAt(FirstPrefetch)
  BY LineDots DEF FetchesAt, Prefetch, FirstSprite, FirstPrefetch
<1>2. ASSUME FetchesAt(d)
      PROVE  IsSprite(d) <=> d >= FirstSprite /\ d < FirstPrefetch
  BY <1>2, FetchDots, LineDots DEF IsSprite
<1> QED BY <1>1, <1>2 DEF TableAt

(* What a dot of an undisturbed line makes of the chip.                      *)
LEMMA DotShows ==
  ASSUME NEW c \in Chips, latch \in 0 .. MaxLatch, CountsFromReload(c), ctrl \in Ctrl,
         ~ctrl.tall, rendering, NEW d \in Nat, NEW t \in Bit
  PROVE  LET a == IF d >= FirstSprite /\ d < FirstPrefetch THEN ctrl.spr ELSE ctrl.bg
             e == RunDot(c, d, t)
         IN  /\ e \in Chips
             /\ ~FetchesAt(d) => e = c
             /\ FetchesAt(d) =>
                  /\ e.a12 = a /\ e.low = IF a = 0 /\ c.a12 = 1 THEN 0 ELSE c.low
                  /\ e.clocks = IF a = 1 /\ c.a12 = 0 /\ c.low = 3 THEN c.clocks + 1 ELSE c.clocks
<1>1. CASE ~FetchesAt(d)
  BY <1>1 DEF RunDot
<1>2. CASE FetchesAt(d)
  <2>1. PICK a : a = TableAt(d, t)
    OBVIOUS
  <2>2. a = IF d >= FirstSprite /\ d < FirstPrefetch THEN ctrl.spr ELSE ctrl.bg
    BY <1>2, <2>1, TableDots
  <2>3. a \in Bit
    BY <2>2 DEF Ctrl
  <2>4. PICK e : e = ObserveA12(c, a)
    OBVIOUS
  <2>5. RunDot(c, d, t) = e
    BY <1>2, <2>1, <2>4 DEF RunDot
  <2>6. /\ e \in Chips /\ e.a12 = a
        /\ e.low = IF a = 0 /\ c.a12 = 1 THEN 0 ELSE c.low
        /\ IF a = 1 /\ c.a12 = 0 /\ c.low = 3
           THEN SameCount(ClockIrqCounter(c), e) ELSE SameCount(c, e)
    BY <2>3, <2>4, Observed
  <2>7. e.clocks = IF a = 1 /\ c.a12 = 0 /\ c.low = 3 THEN c.clocks + 1 ELSE c.clocks
    BY <2>6, ClockEffect DEF SameCount
  <2> QED BY <1>2, <2>2, <2>5, <2>6, <2>7
<1> QED BY <1>1, <1>2

(* Dot by dot the mapper sees what the line's plan says.                     *)
LEMMA DotIsSeen ==
  ASSUME NEW c \in Chips, latch \in 0 .. MaxLatch, CountsFromReload(c), ctrl \in Ctrl,
         ~ctrl.tall, rendering, quiet \in {1, 2}, NEW d \in Nat, NEW t \in Bit,
         NEW k \in 0 .. 2, LineSeen(c, d, k)
  PROVE  LineSeen(RunDot(c, d, t), d + 1, k + 1)
<1>1. PICK e : e = RunDot(c, d, t)
  OBVIOUS
<1>2. PICK x, y : x = ctrl.bg /\ y = ctrl.spr /\ x \in {0, 1} /\ y \in {0, 1}
  BY DEF Ctrl, Bit
<1>3. PICK F \in Nat : F = FirstSprite /\ FirstPrefetch = F + 64 /\ F > 12
  BY LineDots
<1>4. PICK a : a = IF d >= F /\ d < F + 64 THEN y ELSE x
  OBVIOUS
<1>5. /\ e \in Chips
      /\ ~FetchesAt(d) => e = c
      /\ FetchesAt(d) =>
           /\ e.a12 = a /\ e.low = IF a = 0 /\ c.a12 = 1 THEN 0 ELSE c.low
           /\ e.clocks = IF a = 1 /\ c.a12 = 0 /\ c.low = 3 THEN c.clocks + 1 ELSE c.clocks
  BY <1>1, <1>2, <1>3, <1>4, DotShows
<1>6. d \in {F, F + 64} => FetchesAt(d)
  BY <1>3, TableDots
<1>7. /\ c.low \in 0 .. 3 /\ c.a12 \in {0, 1} /\ c.clocks \in Nat
      /\ e.low \in 0 .. 3 /\ e.a12 \in {0, 1} /\ e.clocks \in Nat
  BY <1>5 DEF Chips, Bit
<1>8. /\ d <= F /\ quiet = 2 => c.a12 = x /\ (x = 0 /\ y = 1 => c.low = 3)
      /\ d \in F + 1 .. F + 64 =>
           /\ c.a12 = y
           /\ quiet = 2 /\ x = 1 /\ y = 0 => c.low = 3 \/ 3 * c.low + k >= d - F
      /\ d > F + 64 =>
           /\ c.a12 = x
           /\ x = 0 /\ y = 1 => c.low = 3 \/ 3 * c.low + k >= d - (F + 64)
      /\ quiet = 2 =>
           c.clocks = IF (x = 0 /\ y = 1 /\ d > F) \/ (x = 1 /\ y = 0 /\ d > F + 64)
                      THEN 1 ELSE 0
  BY <1>2, <1>3 DEF LineSeen, LowLong
<1>9. d + 1 <= F /\ quiet = 2 => e.a12 = x /\ (x = 0 /\ y = 1 => e.low = 3)
  BY <1>2, <1>3, <1>4, <1>5, <1>7, <1>8
<1>10. d + 1 \in F + 1 .. F + 64 =>
         /\ e.a12 = y
         /\ quiet = 2 /\ x = 1 /\ y = 0 => e.low = 3 \/ 3 * e.low + (k + 1) >= d + 1 - F
  <2>1. CASE d = F
    BY <1>2, <1>3, <1>4, <1>5, <1>6, <1>7, <1>8, <2>1
  <2>2. CASE d \in F + 1 .. F + 63 /\ FetchesAt(d)
    <3>1. e.a12 = y /\ e.low = IF y = 0 /\ c.a12 = 1 THEN 0 ELSE c.low
      BY <1>3, <1>4, <1>5, <2>2
    <3>2. c.a12 = y /\ (quiet = 2 /\ x = 1 /\ y = 0 => c.low = 3 \/ 3 * c.low + k >= d - F)
      BY <1>3, <1>8, <2>2
    <3> QED BY <1>2, <1>3, <1>7, <2>2, <3>1, <3>2
  <2>3. CASE d \in F + 1 .. F + 63 /\ ~FetchesAt(d)
    BY <1>3, <1>5, <1>7, <1>8, <2>3
  <2> QED BY <1>3, <2>1, <2>2, <2>3
<1>11. d + 1 > F + 64 =>
         /\ e.a12 = x
         /\ x = 0 /\ y = 1 => e.low = 3 \/ 3 * e.low + (k + 1) >= d + 1 - (F + 64)
  BY <1>2, <1>3, <1>4, <1>5, <1>6, <1>7, <1>8
<1>12. quiet = 2 =>
         e.clocks = IF (x = 0 /\ y = 1 /\ d + 1 > F) \/ (x = 1 /\ y = 0 /\ d + 1 > F + 64)
                    THEN 1 ELSE 0
  <2>1. CASE x = y
    BY <1>2, <1>3, <1>4, <1>5, <1>7, <1>8, <2>1
  <2>2. CASE x = 0 /\ y = 1
    BY <1>2, <1>3, <1>4, <1>5, <1>6, <1>7, <1>8, <2>2
  <2>3. CASE x = 1 /\ y = 0
    BY <1>2, <1>3, <1>4, <1>5, <1>6, <1>7, <1>8, <2>3
  <2> QED BY <1>2, <2>1, <2>2, <2>3
<1>13. LineSeen(e, d + 1, k + 1)
  BY <1>2, <1>3, <1>9, <1>10, <1>11, <1>12 DEF LineSeen, LowLong
<1> QED BY <1>1, <1>13

(* The end of a cycle: A12 has been low for one more.                        *)
LEMMA CycleSeen ==
  ASSUME NEW c \in Chips, ctrl \in Ctrl, NEW d \in Nat, LineSeen(c, d, 3)
  PROVE  LineSeen(StepMapper(c), d, 0)
<1>1. PICK e : e = StepMapper(c)
  OBVIOUS
<1>2. /\ e.a12 = c.a12 /\ e.clocks = c.clocks
      /\ e.low = IF c.a12 = 1 \/ c.low = 3 THEN 3 ELSE c.low + 1
  BY <1>1, StepEffect DEF SameCount
<1>3. c.low \in 0 .. 3 /\ FirstSprite \in Nat /\ FirstPrefetch \in Nat
  BY LineDots DEF Chips
<1>4. \A dots \in Int : LowLong(c, dots, 3) => LowLong(e, dots, 0)
  BY <1>2, <1>3 DEF LowLong
<1>5. c.low = 3 => e.low = 3
  BY <1>2
<1>6. d - FirstSprite \in Int /\ d - FirstPrefetch \in Int
  BY <1>3
<1>7. LineSeen(e, d, 0)
  BY <1>2, <1>4, <1>5, <1>6 DEF LineSeen
<1> QED BY <1>1, <1>7

(* At its end a line has shown all of its plan, and A12 has been low for     *)
(* long if it is to rise in the next one: whether that is the second line in *)
(* which nothing interferes or a later one.                                  *)
LEMMA LineEnds ==
  ASSUME NEW c \in Chips, ctrl \in Ctrl, NEW d \in Nat, d >= FirstPrefetch + 12,
         LineSeen(c, d, 0), NEW e \in Chips, e.a12 = c.a12, NEW b \in 0 .. 2,
         c.low = 3 => e.low = 3, e.clocks = 0
  PROVE  /\ e.a12 = ctrl.bg /\ (ctrl.bg = 0 /\ ctrl.spr = 1 => e.low = 3)
         /\ ~(b > FirstSprite) /\ ~(b > FirstPrefetch)
<1>1. c.low \in 0 .. 3 /\ FirstSprite \in Nat /\ FirstPrefetch \in Nat /\ FirstSprite > 12
      /\ FirstPrefetch > 12
  BY LineDots DEF Chips
<1>2. /\ c.a12 = ctrl.bg
      /\ ctrl.bg = 0 /\ ctrl.spr = 1 => c.low = 3 \/ 3 * c.low >= d - FirstPrefetch
  BY <1>1 DEF LineSeen, LowLong
<1> QED BY <1>1, <1>2

(* The clock a line makes is the one its tables foretell, after every cycle. *)
LEMMA CycleKeepsPlan ==
  ASSUME TypeOK, chip \in Chips, CountsFromReload(chip), Foreseen => LineSeen(chip, dot, 0), BusTick
  PROVE  (Foreseen => LineSeen(chip, dot, 0))'
<1> SUFFICES ASSUME Foreseen' PROVE LineSeen(chip, dot, 0)'
  OBVIOUS
<1>1. PICK t \in Bit, d1 \in After(dot) :
        \E d2 \in After(d1) : \E d3 \in After(d2) : Cycle(t, d1, d2, d3)
  BY TickIsCycle
<1>2. PICK d2 \in After(d1) : \E d3 \in After(d2) : Cycle(t, d1, d2, d3)
  BY <1>1
<1>3. PICK d3 \in After(d2) : Cycle(t, d1, d2, d3)
  BY <1>2
<1>4. PICK e1, e2, e3 :
      e1 = RunDot(chip, dot, t) /\ e2 = RunDot(e1, d1, t) /\ e3 = RunDot(e2, d2, t)
  OBVIOUS
<1>5. /\ dot' = d3 /\ ctrl' = ctrl
      /\ \/ rendering' = rendering
            /\ quiet' = IF d3 < dot THEN Lesser(quiet + 1, 2) ELSE quiet
         \/ d3 < dot /\ rendering' = ~rendering /\ quiet' = 0
      /\ chip' = IF d3 < dot THEN [StepMapper(e3) EXCEPT !.clocks = 0] ELSE StepMapper(e3)
  BY <1>3, <1>4 DEF Cycle
<1>6. /\ d1 \in Nat /\ d2 \in Nat /\ d3 \in Nat /\ dot \in Nat
      /\ IF d3 < dot THEN d3 \in 0 .. 2 /\ Quiescent(dot) /\ Quiescent(d1) /\ Quiescent(d2)
                         /\ dot >= FirstPrefetch + 12
                    ELSE d1 = dot + 1 /\ d2 = dot + 2 /\ d3 = dot + 3
  BY CycleDots, LineDots DEF TypeOK
<1>7. rendering' = rendering /\ rendering /\ ~ctrl.tall /\ quiet' # 0
  BY <1>4, <1>5 DEF Foreseen
<1>8. latch \in 0 .. MaxLatch /\ ctrl \in Ctrl /\ quiet \in 0 .. 2
  BY DEF TypeOK
<1>9. CASE ~(d3 < dot)
  <2>1. quiet' = quiet /\ quiet \in {1, 2} /\ LineSeen(chip, dot, 0)
    <3>1. quiet' = quiet
      BY <1>4, <1>5, <1>9
    <3>2. quiet # 0 /\ quiet \in {1, 2}
      BY <1>7, <1>8, <3>1
    <3>3. LineSeen(chip, dot, 0)
      BY <1>7, <3>2 DEF Foreseen
    <3> QED BY <3>1, <3>2, <3>3
  <2>2. LineSeen(e1, dot + 1, 1) /\ e1 \in Chips /\ CountsFromReload(e1) /\ Follows(chip, e1)
    BY <1>4, <1>5, <1>6, <1>7, <1>8, <2>1, DotIsSeen, DotRuns, FollowsItself DEF Follows
  <2>3. LineSeen(e2, dot + 2, 2) /\ e2 \in Chips /\ CountsFromReload(e2) /\ Follows(chip, e2)
    <3>1. LineSeen(e2, (dot + 1) + 1, 1 + 1)
      BY <1>4, <1>5, <1>6, <1>7, <1>8, <1>9, <2>1, <2>2, DotIsSeen
    <3>2. Follows(chip, e2) /\ CountsFromReload(e2)
      BY <1>4, <1>5, <1>6, <1>8, <2>2, DotRuns
    <3>3. (dot + 1) + 1 = dot + 2 /\ 1 + 1 = 2
      BY <1>6
    <3> QED BY <3>1, <3>2, <3>3 DEF Follows
  <2>4. LineSeen(e3, dot + 3, 3) /\ e3 \in Chips
    <3>1. LineSeen(e3, (dot + 2) + 1, 2 + 1)
      BY <1>4, <1>5, <1>6, <1>7, <1>8, <1>9, <2>1, <2>3, DotIsSeen
    <3>2. Follows(chip, e3)
      BY <1>4, <1>5, <1>6, <1>8, <2>3, DotRuns
    <3>3. (dot + 2) + 1 = dot + 3 /\ 2 + 1 = 3
      BY <1>6
    <3> QED BY <3>1, <3>2, <3>3 DEF Follows
  <2>5. LineSeen(StepMapper(e3), d3, 0)
    BY <1>6, <1>8, <1>9, <2>4, CycleSeen
  <2>6. chip' = StepMapper(e3)
    BY <1>4, <1>5, <1>9
  <2> QED BY <1>4, <1>5, <2>1, <2>5, <2>6 DEF LineSeen, LowLong
<1>10. CASE d3 < dot
  <2>1. quiet # 0 => LineSeen(chip, dot, 0)
    BY <1>7 DEF Foreseen
  <2>2. e3 = chip
    BY <1>4, <1>5, <1>6, <1>10, QuiescentDots
  <2>3. /\ chip' \in Chips /\ chip'.a12 = chip.a12 /\ chip'.clocks = 0
        /\ chip.low = 3 => chip'.low = 3
    <3>1. PICK e : e = StepMapper(chip)
      OBVIOUS
    <3>2. /\ e \in Chips /\ e.a12 = chip.a12
          /\ e.low = IF chip.a12 = 1 \/ chip.low = 3 THEN 3 ELSE chip.low + 1
      BY <3>1, StepEffect
    <3>3. PICK o : o = [e EXCEPT !.clocks = 0]
      OBVIOUS
    <3>4. o \in Chips /\ o.a12 = e.a12 /\ o.low = e.low /\ o.clocks = 0
      BY <3>2, <3>3 DEF Chips
    <3>5. chip' = o
      BY <1>4, <1>5, <1>10, <2>2, <3>1, <3>3
    <3> QED BY <3>2, <3>4, <3>5
  <2>4. quiet' = Lesser(quiet + 1, 2)
    BY <1>4, <1>5, <1>7, <1>10
  <2>5. quiet' = 2 => quiet # 0
    BY <1>8, <2>4 DEF Lesser
  <2>6. ~(d3 > FirstSprite) /\ ~(d3 > FirstPrefetch) /\ FirstSprite \in Nat
        /\ FirstPrefetch = FirstSprite + 64
    BY <1>6, <1>10, LineDots
  <2>7. quiet' = 2 => chip'.a12 = ctrl.bg /\ (ctrl.bg = 0 /\ ctrl.spr = 1 => chip'.low = 3)
    <3>1. PICK e \in Chips : e = chip'
      BY <2>3
    <3> QED BY <1>6, <1>8, <1>10, <2>1, <2>3, <2>5, <3>1, LineEnds
  <2>8. ~(d3 \in FirstSprite + 1 .. FirstPrefetch)
    BY <1>6, <2>6
  <2> QED BY <1>4, <1>5, <2>3, <2>6, <2>7, <2>8 DEF LineSeen
<1> QED BY <1>9, <1>10

-----------------------------------------------------------------------------
(* What an access does to the counter's side: at most one clock, by way of   *)
(* the data port, or what its register is for.                               *)
LEMMA DataAccessEffect ==
  ASSUME TypeOK, chip \in Chips, CountsFromReload(chip), DataAccess
  PROVE  /\ chip' \in Chips /\ CountsFromReload(chip')
         /\ SameCount(chip, chip') \/ SameCount(ClockIrqCounter(chip), chip')
<1>1. PICK a \in Bit, b \in Bit : chip' = ObserveA12(ObserveA12(chip, a), b)
  BY DEF DataAccess
<1>2. PICK e : e = ObserveA12(chip, a)
  OBVIOUS
<1>3. latch \in 0 .. MaxLatch
  BY DEF TypeOK
<1>4. Follows(chip, e) /\ CountsFromReload(e)
  BY <1>2, <1>3, FollowsItself, ObservedAgain
<1>5. Follows(chip, ObserveA12(e, b)) /\ CountsFromReload(ObserveA12(e, b))
  BY <1>3, <1>4, ObservedAgain
<1> QED BY <1>1, <1>2, <1>5 DEF Follows

(* Types, action by action. *)
LEMMA ChipStaysTyped ==
  ASSUME TypeOK, chip \in Chips, CountsFromReload(chip), [Next]_vars
  PROVE  chip' \in Chips /\ CountsFromReload(chip)'
<1>1. CASE BusTick
  <2>1. chip' \in Chips /\ CountsFromReload(chip') /\ latch' = latch
    BY <1>1, CycleEffect DEF BusTick
  <2> QED BY <2>1 DEF CountsFromReload
<1>2. CASE DataAccess
  <2>1. chip' \in Chips /\ CountsFromReload(chip') /\ latch' = latch
    BY <1>2, DataAccessEffect DEF DataAccess, Disturb
  <2> QED BY <2>1 DEF CountsFromReload
<1>3. CASE WriteCtrl \/ WriteMask \/ UNCHANGED vars
  BY <1>3 DEF WriteCtrl, WriteMask, Disturb, vars, CountsFromReload
<1>4. CASE WriteLatch
  <2>1. PICK s : s = IF latch' = latch THEN chip.since ELSE -1
    OBVIOUS
  <2>2. s \in Int
    BY <2>1 DEF Chips
  <2>3. chip' = [chip EXCEPT !.since = s]
    BY <1>4, <2>1 DEF WriteLatch
  <2>4. chip' \in Chips
    BY <2>2, <2>3 DEF Chips
  <2>5. /\ chip'.since = s /\ chip'.counter = chip.counter /\ chip'.reload = chip.reload
    BY <2>3 DEF Chips
  <2>6. CountsFromReload(chip)'
    BY <2>1, <2>5 DEF CountsFromReload
  <2> QED BY <2>4, <2>6
<1>5. CASE WriteReload
  <2>1. chip' = [chip EXCEPT !.counter = 0, !.reload = TRUE, !.since = 0] /\ latch' = latch
    BY <1>5 DEF WriteReload
  <2>2. chip' \in Chips
    <3>1. 0 \in 0 .. MaxLatch /\ 0 \in Int
      BY LineDots
    <3> QED BY <2>1, <3>1 DEF Chips
  <2>3. chip'.counter = 0 /\ chip'.since = 0
    BY <2>1 DEF Chips
  <2>4. 0 \in 0 .. latch
    BY LineDots DEF TypeOK
  <2> QED BY <2>1, <2>2, <2>3, <2>4 DEF CountsFromReload
<1>6. CASE WriteDisable \/ WriteEnable
  <2>1. chip' \in Chips /\ latch' = latch
    BY <1>6 DEF WriteDisable, WriteEnable, Chips
  <2>2. /\ chip'.since = chip.since /\ chip'.counter = chip.counter
        /\ chip'.reload = chip.reload
    BY <1>6 DEF WriteDisable, WriteEnable, Chips
  <2> QED BY <2>1, <2>2 DEF CountsFromReload
<1> QED BY <1>1, <1>2, <1>3, <1>4, <1>5, <1>6 DEF Next

(* The states stay of their types. *)
LEMMA ScanTypesKept ==
  ASSUME TypeOK, chip \in Chips, CountsFromReload(chip), canWrite => writes < MaxWrites,
         [Next]_vars
  PROVE  TypeOK' /\ (canWrite => writes < MaxWrites)'
<1>1. chip' \in Chips /\ CountsFromReload(chip)'
  BY ChipStaysTyped
<1>2. dot' \in 0 .. Dots - 1 /\ ctrl' \in Ctrl /\ rendering' \in BOOLEAN /\ tile' \in Bit
      /\ canWrite' \in BOOLEAN /\ latch' \in 0 .. MaxLatch /\ quiet' \in 0 .. 2
      /\ writes' \in 0 .. MaxWrites
  <2>1. CASE BusTick
    <3>1. dot' \in 0 .. Dots - 1
      BY <2>1, CycleDots DEF BusTick, TypeOK
    <3>2. tile' \in Bit /\ UNCHANGED <<ctrl, latch, writes>>
      BY <2>1 DEF BusTick
    <3>3. rendering' \in BOOLEAN
      BY <2>1 DEF BusTick, TypeOK
    <3>4. quiet' \in 0 .. 2
      BY <2>1 DEF BusTick, TypeOK, Lesser
    <3>5. canWrite' \in BOOLEAN
      <4>1. (writes < MaxWrites) \in BOOLEAN
        BY LineDots, SMT DEF TypeOK
      <4>2. canWrite' = (writes < MaxWrites)
        BY <2>1 DEF BusTick
      <4> QED BY <4>1, <4>2, Zenon
    <3> QED BY <3>1, <3>2, <3>3, <3>4, <3>5 DEF TypeOK
  <2>2. CASE WriteCtrl \/ WriteMask \/ DataAccess
    <3>1. canWrite /\ canWrite' = FALSE /\ writes' = writes + 1 /\ quiet' = 0
          /\ dot' = dot /\ latch' = latch
      BY <2>2 DEF WriteCtrl, WriteMask, DataAccess, Disturb
    <3>2. ctrl' \in Ctrl /\ tile' \in Bit
      BY <2>2 DEF WriteCtrl, WriteMask, DataAccess, picture, TypeOK
    <3>3. rendering' \in BOOLEAN
      BY <2>2 DEF WriteCtrl, WriteMask, DataAccess, picture, TypeOK
    <3>4. writes' \in 0 .. MaxWrites
      BY <3>1, LineDots DEF TypeOK
    <3>5. canWrite' \in BOOLEAN
      BY <3>1
    <3>6. dot' \in 0 .. Dots - 1 /\ latch' \in 0 .. MaxLatch /\ quiet' \in 0 .. 2
      BY <3>1 DEF TypeOK
    <3> QED BY <3>2, <3>3, <3>4, <3>5, <3>6
  <2>3. CASE WriteLatch \/ WriteReload \/ WriteDisable \/ WriteEnable
    <3>1. /\ canWrite /\ canWrite' = FALSE /\ writes' = writes + 1
          /\ dot' = dot /\ quiet' = quiet /\ UNCHANGED picture
      BY <2>3 DEF WriteLatch, WriteReload, WriteDisable, WriteEnable, WriteChip
    <3>2. latch' \in 0 .. MaxLatch
      BY <2>3 DEF WriteLatch, WriteReload, WriteDisable, WriteEnable, TypeOK
    <3>3. writes' \in 0 .. MaxWrites
      BY <3>1, LineDots DEF TypeOK
    <3> QED BY <3>1, <3>2, <3>3 DEF TypeOK, picture
  <2>4. CASE UNCHANGED vars
    BY <2>4 DEF vars, picture, TypeOK
  <2> QED BY <2>1, <2>2, <2>3, <2>4 DEF Next
<1>3. /\ chip.a12 \in Bit /\ chip.low \in 0 .. 3 /\ chip.counter \in 0 .. MaxLatch
      /\ chip.reload \in BOOLEAN /\ chip.enabled \in BOOLEAN /\ chip.pending \in BOOLEAN
      /\ chip.clocks \in Nat /\ chip.since \in -1 .. latch
  BY DEF TypeOK
<1>4. PICK e, l : e = chip' /\ l = latch'
  OBVIOUS
<1>5. e \in Chips /\ l \in Nat /\ (e.since # -1 => e.since \in 0 .. l)
  BY <1>1, <1>2, <1>4, LineDots DEF CountsFromReload
<1>6. /\ e.a12 \in Bit /\ e.low \in 0 .. 3 /\ e.counter \in 0 .. MaxLatch
      /\ e.reload \in BOOLEAN /\ e.enabled \in BOOLEAN /\ e.pending \in BOOLEAN
      /\ e.clocks \in Nat /\ e.since \in -1 .. l
  BY <1>5 DEF Chips
<1>7. (canWrite => writes < MaxWrites)'
  <2>1. CASE BusTick
    <3>1. canWrite' = (writes < MaxWrites) /\ writes' = writes
      BY <2>1 DEF BusTick
    <3> QED BY <3>1, Zenon
  <2>2. CASE WriteCtrl \/ WriteMask \/ DataAccess \/ WriteLatch \/ WriteReload \/ WriteDisable
                \/ WriteEnable
    BY <2>2 DEF WriteCtrl, WriteMask, DataAccess, Disturb, WriteLatch, WriteReload,
                WriteDisable, WriteEnable, WriteChip
  <2>3. CASE UNCHANGED vars
    BY <2>3 DEF vars
  <2> QED BY <2>1, <2>2, <2>3 DEF Next
<1> QED BY <1>2, <1>4, <1>6, <1>7 DEF TypeOK

(* Whatever disturbs begins a new count of undisturbed lines; the mapper's   *)
(* registers show it nothing.                                                *)
LEMMA PlanKept ==
  ASSUME TypeOK, chip \in Chips, CountsFromReload(chip), Foreseen => LineSeen(chip, dot, 0),
         [Next]_vars
  PROVE  (Foreseen => LineSeen(chip, dot, 0))'
<1>1. CASE BusTick
  BY <1>1, CycleKeepsPlan
<1>2. CASE WriteCtrl \/ WriteMask \/ DataAccess
  BY <1>2 DEF WriteCtrl, WriteMask, DataAccess, Disturb, Foreseen
<1>3. CASE WriteLatch \/ WriteReload \/ WriteDisable \/ WriteEnable
  <2>1. chip'.a12 = chip.a12 /\ chip'.low = chip.low /\ chip'.clocks = chip.clocks
    BY <1>3 DEF WriteLatch, WriteReload, WriteDisable, WriteEnable, Chips
  <2>2. dot' = dot /\ ctrl' = ctrl /\ rendering' = rendering /\ quiet' = quiet
    BY <1>3 DEF WriteLatch, WriteReload, WriteDisable, WriteEnable, WriteChip, picture
  <2> QED BY <2>1, <2>2 DEF Foreseen, LineSeen, LowLong
<1>4. CASE UNCHANGED vars
  BY <1>4 DEF vars, picture, Foreseen, LineSeen, LowLong
<1> QED BY <1>1, <1>2, <1>3, <1>4 DEF Next

(* The invariant holds at power-on. *)
LEMMA ScanBegins == Init => ScanIInv
<1> SUFFICES ASSUME Init PROVE ScanIInv
  OBVIOUS
<1>1. PICK reload \in BOOLEAN, enabled \in BOOLEAN :
        chip = [a12 |-> 0, low |-> 3, counter |-> 0, reload |-> reload,
                enabled |-> enabled, pending |-> FALSE, clocks |-> 0,
                since |-> IF reload THEN 0 ELSE -1]
  BY DEF Init
<1>2. PICK s \in {0, -1} : s = IF reload THEN 0 ELSE -1
  OBVIOUS
<1>3. 0 \in 0 .. MaxLatch /\ s \in Int /\ 0 \in 0 .. latch /\ latch \in 0 .. MaxLatch
  BY LineDots DEF Init
<1>4. chip = [a12 |-> 0, low |-> 3, counter |-> 0, reload |-> reload, enabled |-> enabled,
              pending |-> FALSE, clocks |-> 0, since |-> s]
  BY <1>1, <1>2
<1>5. chip \in Chips
  BY <1>3, <1>4 DEF Chips, Bit
<1>6. chip.since = s /\ chip.counter = 0
  BY <1>4
<1>7. CountsFromReload(chip)
  BY <1>3, <1>6 DEF CountsFromReload
<1>8. chip.since \in -1 .. latch
  BY <1>3, <1>6
<1>9. TypeOK /\ (canWrite => writes < MaxWrites)
  <2>1. /\ dot \in 0 .. Dots - 1 /\ ctrl \in Ctrl /\ rendering = FALSE /\ tile \in Bit
        /\ canWrite = FALSE /\ quiet \in 0 .. 2 /\ writes \in 0 .. MaxWrites
    BY LineDots DEF Init, Bit
  <2>2. /\ chip.a12 \in Bit /\ chip.low \in 0 .. 3 /\ chip.counter \in 0 .. MaxLatch
        /\ chip.reload \in BOOLEAN /\ chip.enabled \in BOOLEAN /\ chip.pending \in BOOLEAN
        /\ chip.clocks \in Nat
    BY <1>5 DEF Chips
  <2> QED BY <1>3, <1>8, <2>1, <2>2 DEF TypeOK
<1>10. ~Foreseen
  BY DEF Init, Foreseen
<1> QED BY <1>5, <1>7, <1>9, <1>10 DEF ScanIInv

(* Every step keeps the invariant. *)
LEMMA ScanKept == ScanIInv /\ [Next]_vars => ScanIInv'
BY ChipStaysTyped, ScanTypesKept, PlanKept DEF ScanIInv

(* The counter stays in its byte, and with 8x8 sprites every undisturbed     *)
(* line clocks it exactly once if the tables differ and never if they do     *)
(* not, however long the line and wherever the CPU's cycles fall on it.      *)
THEOREM ScanlineHolds == Spec => []ScanlineInvariant
<1>1. ScanIInv => ScanlineInvariant
  <2> SUFFICES ASSUME ScanIInv, quiet = 2, rendering, ~ctrl.tall, LineFetched
               PROVE  chip.clocks = IF ctrl.bg = ctrl.spr THEN 0 ELSE 1
    BY DEF ScanIInv, ScanlineInvariant, OneClockPerLine
  <2>1. LineSeen(chip, dot, 0)
    BY DEF ScanIInv, Foreseen
  <2>2. dot > FirstSprite /\ dot > FirstPrefetch
    BY LineDots DEF ScanIInv, TypeOK, LineFetched
  <2>3. ctrl.bg \in {0, 1} /\ ctrl.spr \in {0, 1}
    BY DEF ScanIInv, TypeOK, Ctrl, Bit
  <2> QED BY <2>1, <2>2, <2>3 DEF LineSeen
<1> QED BY <1>1, ScanBegins, ScanKept, PTL DEF Spec

(* A clock requests the interrupt exactly if it is the (n + 1)th since the   *)
(* reload.                                                                   *)
LEMMA RequestsOnTime ==
  ASSUME NEW c \in Chips, latch \in 0 .. MaxLatch, CountsFromReload(c), NEW e,
         \/ SameCount(c, e) \/ SameCount(ClockIrqCounter(c), e)
         \/ SameCount([c EXCEPT !.clocks = 0], e),
         c.since # -1
  PROVE  /\ e.pending /\ ~c.pending => e.clocks > c.clocks /\ e.since = 0
         /\ e.clocks > c.clocks /\ e.since = 0 /\ c.enabled => e.pending
<1>1. c.clocks \in Nat
  BY DEF Chips
<1>2. CASE SameCount(c, e)
  BY <1>1, <1>2 DEF SameCount
<1>3. CASE SameCount(ClockIrqCounter(c), e)
  <2>1. PICK k : k = ClockIrqCounter(c)
    OBVIOUS
  <2>2. /\ k.clocks = c.clocks + 1 /\ k.pending = (c.pending \/ (k.since = 0 /\ c.enabled))
    BY <2>1, ClockEffect
  <2>3. e.clocks > c.clocks
    BY <1>1, <1>3, <2>1, <2>2 DEF SameCount
  <2>4. e.pending = (c.pending \/ (e.since = 0 /\ c.enabled))
    BY <1>3, <2>1, <2>2 DEF SameCount
  <2> QED BY <2>3, <2>4
<1>4. CASE SameCount([c EXCEPT !.clocks = 0], e)
  <2>1. e.clocks = 0 /\ e.pending = c.pending
    BY <1>4 DEF SameCount, Chips
  <2> QED BY <1>1, <2>1
<1> QED BY <1>2, <1>3, <1>4

(* The interrupt comes at every (n + 1)th clock after $C001 and at no other. *)
THEOREM IrqOnTimeHolds == Spec => IrqOnTime
<1> DEFINE OnTime ==
      LET clocked == chip'.clocks > chip.clocks IN
      chip.since # -1 /\ chip'.since # -1 =>
        /\ chip'.pending /\ ~chip.pending => clocked /\ chip'.since = 0
        /\ clocked /\ chip'.since = 0 /\ chip.enabled => chip'.pending
<1>1. ScanIInv /\ [Next]_vars => [OnTime]_vars
  <2> SUFFICES ASSUME ScanIInv, Next, chip.since # -1, chip'.since # -1
               PROVE  /\ chip'.pending /\ ~chip.pending
                           => chip'.clocks > chip.clocks /\ chip'.since = 0
                      /\ chip'.clocks > chip.clocks /\ chip'.since = 0 /\ chip.enabled
                           => chip'.pending
    OBVIOUS
  <2>1. chip \in Chips /\ TypeOK /\ CountsFromReload(chip) /\ latch \in 0 .. MaxLatch
    BY DEF ScanIInv, TypeOK
  <2>2. CASE BusTick \/ DataAccess
    <3>1. PICK e : e = chip'
      OBVIOUS
    <3>2. \/ SameCount(chip, e) \/ SameCount(ClockIrqCounter(chip), e)
          \/ SameCount([chip EXCEPT !.clocks = 0], e)
      BY <2>1, <2>2, <3>1, CycleEffect, DataAccessEffect
    <3> QED BY <2>1, <3>1, <3>2, RequestsOnTime
  <2>3. CASE WriteCtrl \/ WriteMask
    BY <2>1, <2>3 DEF WriteCtrl, WriteMask, Chips
  <2>4. CASE WriteLatch \/ WriteReload \/ WriteDisable \/ WriteEnable
    <3>1. chip'.clocks = chip.clocks /\ (chip'.pending => chip.pending) /\ chip.clocks \in Nat
      BY <2>1, <2>4 DEF WriteLatch, WriteReload, WriteDisable, WriteEnable, Chips
    <3> QED BY <3>1
  <2> QED BY <2>2, <2>3, <2>4 DEF Next
<1> QED BY <1>1, ScanBegins, ScanKept, PTL DEF Spec, IrqOnTime
=============================================================================
