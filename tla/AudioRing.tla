------------------------------ MODULE AudioRing -----------------------------
(***************************************************************************)
(* The audio path of a session (app/src-tauri/src/audio.rs): the emulation *)
(* thread resamples each frame's samples into a bounded ring, evicting the *)
(* oldest one when it is full; the device callback pops from the ring; the *)
(* host pauses by raising a flag and then flushing the ring.  Every access *)
(* to the ring (crossbeam's ArrayQueue) is a step of its own.              *)
(*                                                                         *)
(* An output sample is its number: 1 for the first the resampler emits.    *)
(* Its value, and the volume and mute the callback applies to it, are not  *)
(* modelled.  The u32 arithmetic saturates at U32Max.                      *)
(***************************************************************************)
EXTENDS Integers, Sequences

CONSTANTS
  SrcRate,    \* rate of the APU's samples
  DstRate,    \* rate of the output device
  U32Max,     \* u32::MAX
  Capacity,   \* RING_CAPACITY
  Burst,      \* samples the APU produces per frame
  Window,     \* samples the device asks for per callback
  MaxFed      \* bound on the samples fed, so that TLC's instance is finite

ASSUME RateAssumption ==
  /\ SrcRate \in Nat \ {0} /\ DstRate \in Nat \ {0} /\ U32Max \in Nat
  /\ SrcRate + DstRate <= U32Max
ASSUME SizeAssumption ==
  /\ Capacity \in Nat \ {0} /\ Burst \in Nat \ {0}
  /\ Window \in Nat \ {0} /\ MaxFed \in Nat

VARIABLES
  ring,      \* the queued samples, oldest first
  acc,       \* LinearResampler.acc, the phase
  fed,       \* samples the resampler has consumed
  emitted,   \* samples the resampler has emitted, and the newest one's number
  due,       \* boundaries the current input still has to emit a sample for
  left,      \* samples of the current frame the resampler has yet to consume
  prod,      \* the producer: "idle", in a "frame", about to "evict" or "retry"
  wanted,    \* samples the running callback still has to pop
  heard,     \* history: the last sample the device got
  paused,    \* the session's pause flag
  host,      \* "idle", or in flush() after raising the flag
  tail,      \* history: samples emitted since the flag was last raised
  flushed    \* history: samples the current or last flush has popped

resampler == <<acc, fed, emitted, due, left>>
device    == <<wanted, heard>>
control   == <<paused, host, flushed>>
vars == <<ring, resampler, prod, device, control, tail>>

Init ==
  /\ ring = <<>> /\ acc = 0 /\ fed = 0 /\ emitted = 0 /\ due = 0 /\ left = 0
  /\ prod = "idle" /\ wanted = 0 /\ heard = 0
  /\ paused = FALSE /\ host = "idle" /\ tail = 0 /\ flushed = 0

Full == Len(ring) >= Capacity

-----------------------------------------------------------------------------
(* The emulation thread. *)

(* One turn of run_emulation: unless paused, a frame's samples are pushed.   *)
BeginBurst ==
  /\ prod = "idle" /\ ~paused
  /\ fed + Burst <= MaxFed
  /\ prod' = "frame" /\ left' = Burst
  /\ UNCHANGED <<ring, acc, fed, emitted, due, device, control, tail>>

SaturatingAdd(a, b) == IF a + b > U32Max THEN U32Max ELSE a + b

(* A slip: the phase is reset at every input instead of carried over. *)
CarriedPhaseReset(accNew) == 0

(* The phase kept for the next input: accNew % src_rate. *)
CarriedPhase(accNew) == accNew % SrcRate

(* LinearResampler::process, one input: the phase advances by dst_rate, and  *)
(* one output is due for each multiple of src_rate it crosses.               *)
Feed ==
  /\ prod = "frame" /\ due = 0 /\ left > 0
  /\ LET accNew == SaturatingAdd(acc, DstRate) IN
       /\ due' = accNew \div SrcRate
       /\ acc' = CarriedPhase(accNew)
  /\ fed' = fed + 1 /\ left' = left - 1
  /\ UNCHANGED <<ring, emitted, prod, device, control, tail>>

(* The resampler hands the next sample to push_drop_oldest. *)
Emit ==
  /\ emitted' = emitted + 1 /\ due' = due - 1 /\ tail' = tail + 1

(* push_drop_oldest: the first push. *)
Push ==
  /\ prod = "frame" /\ due > 0 /\ ~Full
  /\ ring' = Append(ring, emitted + 1)
  /\ Emit
  /\ UNCHANGED <<acc, fed, left, prod, device, control>>

PushFails ==
  /\ prod = "frame" /\ due > 0 /\ Full
  /\ prod' = "evict"
  /\ UNCHANGED <<ring, resampler, device, control, tail>>

(* A slip: the oldest sample is left in place. *)
EvictNothing ==
  /\ prod = "evict"
  /\ prod' = "retry"
  /\ UNCHANGED <<ring, resampler, device, control, tail>>

(* The evicting pop: the callback or a flush may have emptied the ring since.*)
Evict ==
  /\ prod = "evict"
  /\ ring' = IF ring = <<>> THEN ring ELSE Tail(ring)
  /\ prod' = "retry"
  /\ UNCHANGED <<resampler, device, control, tail>>

(* The second push; a sample it cannot place is dropped. *)
Retry ==
  /\ prod = "retry"
  /\ ring' = IF Full THEN ring ELSE Append(ring, emitted + 1)
  /\ prod' = "frame"
  /\ Emit
  /\ UNCHANGED <<acc, fed, left, device, control>>

EndBurst ==
  /\ prod = "frame" /\ due = 0 /\ left = 0
  /\ prod' = "idle"
  /\ UNCHANGED <<ring, resampler, device, control, tail>>

Produce == BeginBurst \/ Feed \/ Push \/ PushFails \/ Evict \/ Retry \/ EndBurst

-----------------------------------------------------------------------------
(* The device callback, on a thread of the audio library. *)

BeginCallback ==
  /\ wanted = 0 /\ wanted' = Window
  /\ UNCHANGED <<ring, resampler, prod, heard, control, tail>>

(* ring.pop().unwrap_or(0.0): a sample, or silence when the ring is empty.   *)
Play ==
  /\ wanted > 0 /\ wanted' = wanted - 1
  /\ heard' = IF ring = <<>> THEN heard ELSE Head(ring)
  /\ ring' = IF ring = <<>> THEN ring ELSE Tail(ring)
  /\ UNCHANGED <<resampler, prod, control, tail>>

-----------------------------------------------------------------------------
(* The host. *)

(* A slip: the ring is flushed without stopping the producer first. *)
PauseLater ==
  /\ host = "idle" /\ ~paused
  /\ host' = "flush" /\ tail' = 0 /\ flushed' = 0 /\ UNCHANGED paused
  /\ UNCHANGED <<ring, resampler, prod, device>>

(* EmulatorSession::set_paused(true): the flag, then flush. *)
Pause ==
  /\ host = "idle"
  /\ paused' = TRUE /\ host' = "flush" /\ flushed' = 0
  /\ tail' = IF paused THEN tail ELSE 0
  /\ UNCHANGED <<ring, resampler, prod, device>>

(* while ring.pop().is_some() {} *)
FlushPop ==
  /\ host = "flush" /\ ring # <<>>
  /\ ring' = Tail(ring) /\ flushed' = flushed + 1
  /\ UNCHANGED <<resampler, prod, device, paused, host, tail>>

FlushDone ==
  /\ host = "flush" /\ ring = <<>>
  /\ host' = "idle"
  /\ UNCHANGED <<ring, resampler, prod, device, paused, flushed, tail>>

ResumeSound ==
  /\ host = "idle" /\ paused
  /\ paused' = FALSE
  /\ UNCHANGED <<ring, resampler, prod, device, host, flushed, tail>>

Next == Produce \/ BeginCallback \/ Play \/ Pause \/ FlushPop \/ FlushDone \/ ResumeSound

Spec == Init /\ [][Next]_vars

-----------------------------------------------------------------------------
TypeOK ==
  /\ ring \in Seq(Nat)
  /\ acc \in 0 .. SrcRate - 1
  /\ fed \in Nat /\ emitted \in Nat /\ due \in Nat /\ left \in 0 .. Burst
  /\ prod \in {"idle", "frame", "evict", "retry"}
  /\ wanted \in 0 .. Window /\ heard \in Nat
  /\ paused \in BOOLEAN /\ host \in {"idle", "flush"}
  /\ tail \in Nat /\ flushed \in Nat

(* The resampler never drifts: outputs emitted or due, plus the phase, always *)
(* account exactly for the inputs, so playback stays in step for ever.        *)
NoDrift == (emitted + due) * SrcRate + acc = fed * DstRate

(* An overrun costs the oldest samples only: what is queued is a gap-free run *)
(* that ends with the newest sample, whoever popped in between, and the ring  *)
(* never outgrows its capacity.                                               *)
NewestKept ==
  /\ Len(ring) <= Capacity
  /\ \A i \in 1 .. Len(ring) : ring[i] = emitted - Len(ring) + i

(* The device never hears a sample twice, nor one older than it has heard.    *)
HeardInOrder ==
  /\ heard <= emitted
  /\ \A i \in 1 .. Len(ring) : heard < ring[i]

(* What is queued and what is heard: nothing lost but the oldest, nothing     *)
(* heard twice (push_drop_oldest, the device callback).                       *)
RingInvariant == TypeOK /\ NewestKept /\ HeardInOrder

(* Once the pause flag is up, at most one frame's samples still enter the     *)
(* ring, so a paused game falls silent after the frame that was in flight.    *)
PauseTail == paused => tail * SrcRate <= SrcRate - 1 + Burst * DstRate

(* A flush ends: it never pops more than a full ring and that one frame's     *)
(* samples, however the producer and the callback interleave with it.         *)
FlushBounded ==
  flushed * SrcRate <= Capacity * SrcRate + SrcRate - 1 + Burst * DstRate

(* A pause is short and ends: what still gets in and what the flush has to    *)
(* take out are bounded by one frame (EmulatorSession::set_paused).           *)
PauseBounded == PauseTail /\ FlushBounded
=============================================================================
