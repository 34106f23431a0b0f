-------------------------- MODULE AudioRingProofs ---------------------------
(***************************************************************************)
(* Proofs about AudioRing, for every pair of sample rates, every capacity  *)
(* of the ring, every frame's burst of samples and every callback window.  *)
(***************************************************************************)
EXTENDS AudioRing, SequenceTheorems, TLAPS

(* Where the producer is decides what it still owes: an evicting or retried  *)
(* push is for a sample that is due, and an idle thread owes nothing.        *)
ProducerOwes ==
  /\ prod \in {"evict", "retry"} => due > 0
  /\ prod = "idle" => due = 0 /\ left = 0

(* A second push finds room: only the producer fills the ring, and it has    *)
(* just popped from it or found it empty.                                    *)
RetryHasRoom == prod = "retry" => Len(ring) < Capacity

(* What the frame in flight can still add: the samples due, and those the    *)
(* rest of its inputs will make.                                             *)
FrameBudget == due * SrcRate + acc + left * DstRate <= SrcRate - 1 + Burst * DstRate

(* Together with those that entered the ring since the flag went up.         *)
TailBudget ==
  paused => (tail + due) * SrcRate + acc + left * DstRate <= SrcRate - 1 + Burst * DstRate

(* What a flush has popped was in the ring when it began or came in since.   *)
FlushBudget ==
  host = "flush" => paused /\ flushed + Len(ring) <= Capacity + tail

IInv ==
  /\ TypeOK /\ NoDrift /\ ProducerOwes /\ RetryHasRoom /\ NewestKept /\ HeardInOrder
  /\ FrameBudget /\ TailBudget /\ FlushBudget /\ FlushBounded

-----------------------------------------------------------------------------
(* One input of the resampler: the addition does not saturate, and what the  *)
(* phase and the samples due are worth together is what the input added.     *)
LEMMA PhaseSplit ==
  ASSUME NEW a \in 0 .. SrcRate - 1
  PROVE  /\ SaturatingAdd(a, DstRate) = a + DstRate
         /\ (a + DstRate) \div SrcRate \in Nat
         /\ CarriedPhase(a + DstRate) \in 0 .. SrcRate - 1
         /\ ((a + DstRate) \div SrcRate) * SrcRate + CarriedPhase(a + DstRate) = a + DstRate
<1>1. SaturatingAdd(a, DstRate) = a + DstRate
  BY RateAssumption DEF SaturatingAdd
<1>2. /\ (a + DstRate) \div SrcRate \in Nat
      /\ CarriedPhase(a + DstRate) \in 0 .. SrcRate - 1
  BY RateAssumption DEF CarriedPhase
<1>3. ((a + DstRate) \div SrcRate) * SrcRate + CarriedPhase(a + DstRate) = a + DstRate
  BY RateAssumption DEF CarriedPhase
<1> QED BY <1>1, <1>2, <1>3

(* Samples are worth SrcRate each, whether they are counted with others or   *)
(* on their own.                                                             *)
LEMMA WorthOfSamples ==
  ASSUME NEW n \in Nat, NEW d \in Nat, NEW a \in Nat, NEW b \in Nat,
         d * SrcRate + b = a + DstRate
  PROVE  (n + d) * SrcRate + b = n * SrcRate + a + DstRate
<1>1. (n + d) * SrcRate = n * SrcRate + d * SrcRate
  BY RateAssumption
<1>2. n * SrcRate \in Int /\ d * SrcRate \in Int
  BY RateAssumption
<1> QED BY <1>1, <1>2, RateAssumption

(* So feeding one input turns DstRate into samples due and phase.            *)
LEMMA FeedEffect ==
  ASSUME TypeOK, Feed
  PROVE  /\ due' \in Nat /\ acc' \in 0 .. SrcRate - 1
         /\ due' * SrcRate + acc' = acc + DstRate
         /\ \A n \in Nat : (n + due') * SrcRate + acc' = n * SrcRate + acc + DstRate
<1>1. acc \in 0 .. SrcRate - 1
  BY DEF TypeOK
<1>2. due' = (acc + DstRate) \div SrcRate /\ acc' = CarriedPhase(acc + DstRate)
  BY <1>1, PhaseSplit DEF Feed
<1>3. /\ due' \in Nat /\ acc' \in 0 .. SrcRate - 1
      /\ due' * SrcRate + acc' = acc + DstRate
  BY <1>1, <1>2, PhaseSplit
<1>4. acc \in Nat /\ acc' \in Nat
  BY <1>3, RateAssumption DEF TypeOK
<1>5. \A n \in Nat : (n + due') * SrcRate + acc' = n * SrcRate + acc + DstRate
  BY <1>3, <1>4, WorthOfSamples
<1> QED BY <1>3, <1>5

(* A budget bounds what has been spent of it, and what a flush can have      *)
(* popped.                                                                   *)
LEMMA BudgetBounds ==
  ASSUME NEW t \in Nat, NEW d \in Nat, NEW a \in Nat, NEW l \in Nat, NEW f \in Nat,
         (t + d) * SrcRate + a + l * DstRate <= SrcRate - 1 + Burst * DstRate,
         f <= Capacity + t
  PROVE  /\ t * SrcRate <= SrcRate - 1 + Burst * DstRate
         /\ f * SrcRate <= Capacity * SrcRate + SrcRate - 1 + Burst * DstRate
<1> USE RateAssumption, SizeAssumption
<1>1. (t + d) * SrcRate = t * SrcRate + d * SrcRate /\ d * SrcRate \in Nat /\ l * DstRate \in Nat
  OBVIOUS
<1>2. t * SrcRate \in Nat /\ Burst * DstRate \in Nat /\ Capacity * SrcRate \in Nat
  OBVIOUS
<1>3. t * SrcRate <= SrcRate - 1 + Burst * DstRate
  BY <1>1, <1>2
<1>4. (Capacity + t) * SrcRate = Capacity * SrcRate + t * SrcRate
  OBVIOUS
<1>5. f * SrcRate <= (Capacity + t) * SrcRate
  OBVIOUS
<1> QED BY <1>2, <1>3, <1>4, <1>5

(* The ring's two operations, as the invariants see them.                    *)
LEMMA PopProperties ==
  ASSUME NEW q \in Seq(Nat), q # <<>>
  PROVE  /\ Tail(q) \in Seq(Nat) /\ Len(Tail(q)) = Len(q) - 1
         /\ Len(q) \in Nat \ {0} /\ Head(q) = q[1]
         /\ \A i \in 1 .. Len(Tail(q)) : Tail(q)[i] = q[i + 1]
BY EmptySeq, HeadTailProperties

(* What a push leaves in the queue. *)
LEMMA PushProperties ==
  ASSUME NEW q \in Seq(Nat), NEW e \in Nat
  PROVE  /\ Append(q, e) \in Seq(Nat) /\ Len(Append(q, e)) = Len(q) + 1
         /\ \A i \in 1 .. Len(q) : Append(q, e)[i] = q[i]
         /\ Append(q, e)[Len(q) + 1] = e
BY AppendProperties

(* The type invariant, on its own inductive but for what is due: a sample is *)
(* emitted only when one is.                                                 *)
LEMMA TypeKept ==
  ASSUME TypeOK, ProducerOwes, [Next]_vars
  PROVE  TypeOK'
<1> USE RateAssumption, SizeAssumption DEF TypeOK, ProducerOwes, resampler, device, control
<1>1. CASE BeginBurst
  BY <1>1 DEF BeginBurst
<1>2. CASE Feed
  BY <1>2, FeedEffect DEF Feed
<1>3. CASE Push
  <2>1. ring' \in Seq(Nat)
    BY <1>3, PushProperties DEF Push
  <2>2. due' \in Nat /\ emitted' \in Nat /\ tail' \in Nat
    BY <1>3 DEF Push, Emit
  <2> QED BY <1>3, <2>1, <2>2 DEF Push
<1>4. CASE PushFails
  BY <1>4 DEF PushFails
<1>5. CASE Evict
  BY <1>5, PopProperties DEF Evict
<1>6. CASE Retry
  <2>1. ring' \in Seq(Nat)
    <3>1. ring' = ring \/ ring' = Append(ring, emitted + 1)
      BY <1>6 DEF Retry
    <3>2. Append(ring, emitted + 1) \in Seq(Nat)
      BY PushProperties
    <3> QED BY <3>1, <3>2
  <2>2. due' \in Nat /\ emitted' \in Nat /\ tail' \in Nat
    BY <1>6 DEF Retry, Emit
  <2> QED BY <1>6, <2>1, <2>2 DEF Retry
<1>7. CASE EndBurst
  BY <1>7 DEF EndBurst
<1>8. CASE BeginCallback
  BY <1>8 DEF BeginCallback
<1>9. CASE Play
  BY <1>9, PopProperties DEF Play
<1>10. CASE Pause
  BY <1>10 DEF Pause
<1>11. CASE FlushPop
  BY <1>11, PopProperties DEF FlushPop
<1>12. CASE FlushDone \/ ResumeSound \/ UNCHANGED vars
  BY <1>12 DEF FlushDone, ResumeSound, vars
<1> QED
  BY <1>1, <1>2, <1>3, <1>4, <1>5, <1>6, <1>7, <1>8, <1>9, <1>10, <1>11, <1>12
  DEF Next, Produce

-----------------------------------------------------------------------------
(* The resampler's account: feeding moves DstRate into the samples due and   *)
(* the phase, and emitting moves one sample from due to emitted.             *)
LEMMA NoDriftKept ==
  ASSUME TypeOK, NoDrift, [Next]_vars
  PROVE  NoDrift'
<1> USE RateAssumption DEF TypeOK, NoDrift, resampler, device, control
<1>1. CASE Feed
  <2>1. (emitted + due') * SrcRate + acc' = emitted * SrcRate + acc + DstRate
    BY <1>1, FeedEffect
  <2>2. fed' * DstRate = fed * DstRate + DstRate
    BY <1>1 DEF Feed
  <2>3. emitted * SrcRate + acc = fed * DstRate
    BY <1>1 DEF Feed
  <2> QED BY <1>1, <2>1, <2>2, <2>3 DEF Feed
<1>2. CASE Emit /\ UNCHANGED <<acc, fed, left>>
  BY <1>2 DEF Emit
<1>3. CASE UNCHANGED resampler
  BY <1>3
<1> QED
  BY <1>1, <1>2, <1>3
  DEF Next, Produce, BeginBurst, Push, PushFails, Evict, Retry, EndBurst, BeginCallback,
      Play, Pause, FlushPop, FlushDone, ResumeSound, vars

(* What the producer owes, and the room its second push finds.               *)
LEMMA ProducerKept ==
  ASSUME TypeOK, ProducerOwes, RetryHasRoom, NewestKept, [Next]_vars
  PROVE  ProducerOwes' /\ RetryHasRoom'
<1> USE SizeAssumption
    DEF TypeOK, ProducerOwes, RetryHasRoom, NewestKept, Full, resampler, device, control
<1>1. CASE BeginBurst \/ Push \/ Retry
  BY <1>1 DEF BeginBurst, Push, Retry, Emit
<1>2. CASE Feed
  BY <1>2 DEF Feed
<1>3. CASE PushFails
  BY <1>3 DEF PushFails
<1>4. CASE Evict
  <2>1. Len(ring') < Capacity
    <3>1. CASE ring = <<>>
      BY <1>4, <3>1, EmptySeq DEF Evict
    <3>2. CASE ring # <<>>
      BY <1>4, <3>2, PopProperties DEF Evict
    <3> QED BY <3>1, <3>2
  <2> QED BY <1>4, <2>1 DEF Evict
<1>5. CASE EndBurst
  BY <1>5 DEF EndBurst
<1>6. CASE Play
  BY <1>6, PopProperties DEF Play
<1>7. CASE FlushPop
  BY <1>7, PopProperties DEF FlushPop
<1>8. CASE BeginCallback \/ Pause \/ FlushDone \/ ResumeSound \/ UNCHANGED vars
  BY <1>8 DEF BeginCallback, Pause, FlushDone, ResumeSound, vars
<1> QED
  BY <1>1, <1>2, <1>3, <1>4, <1>5, <1>6, <1>7, <1>8 DEF Next, Produce

(* What is queued stays a gap-free run up to the newest sample, newer than   *)
(* all that was heard.  The pops take from its front, whoever performs them, *)
(* and a push appends the sample emitted with it.                            *)
QueuedRun == NewestKept /\ HeardInOrder

(* Taking the oldest sample off leaves a run of the newest ones. *)
LEMMA PopKeepsRun ==
  ASSUME TypeOK, QueuedRun, ring # <<>>, ring' = Tail(ring), UNCHANGED emitted,
         heard' \in {heard, Head(ring)}
  PROVE  QueuedRun'
<1> USE SizeAssumption DEF TypeOK, QueuedRun, NewestKept, HeardInOrder
<1>1. /\ Len(ring') = Len(ring) - 1 /\ Len(ring) \in Nat \ {0}
      /\ \A i \in 1 .. Len(ring') : ring'[i] = ring[i + 1]
  BY PopProperties
<1>2. Head(ring) = emitted - Len(ring) + 1
  BY PopProperties
<1>3. \A i \in 1 .. Len(ring') : ring'[i] = emitted' - Len(ring') + i
  BY <1>1
<1>4. heard' <= emitted' /\ \A i \in 1 .. Len(ring') : heard' < ring'[i]
  <2>1. CASE heard' = heard
    BY <1>1, <2>1
  <2>2. CASE heard' = Head(ring)
    BY <1>1, <1>2, <1>3, <2>2
  <2> QED BY <2>1, <2>2
<1> QED BY <1>1, <1>3, <1>4

(* A push into a ring that has room continues the run. *)
LEMMA PushKeepsRun ==
  ASSUME TypeOK, QueuedRun, Len(ring) < Capacity, ring' = Append(ring, emitted + 1),
         emitted' = emitted + 1, UNCHANGED heard
  PROVE  QueuedRun'
<1> USE SizeAssumption DEF TypeOK, QueuedRun, NewestKept, HeardInOrder
<1>1. /\ Len(ring') = Len(ring) + 1 /\ Len(ring) \in Nat
      /\ \A i \in 1 .. Len(ring) : ring'[i] = ring[i]
      /\ ring'[Len(ring) + 1] = emitted + 1
  BY PushProperties
<1>2. \A i \in 1 .. Len(ring') : ring'[i] = emitted' - Len(ring') + i
  BY <1>1
<1> QED BY <1>1, <1>2

(* No step of the two threads breaks the run. *)
LEMMA QueueKept ==
  ASSUME TypeOK, RetryHasRoom, QueuedRun, [Next]_vars
  PROVE  QueuedRun'
<1> USE DEF TypeOK, resampler, device, control
<1>1. CASE Push
  BY <1>1, SizeAssumption, PushKeepsRun DEF Push, Emit, Full
<1>2. CASE Retry
  BY <1>2, SizeAssumption, PushKeepsRun DEF Retry, Emit, Full, RetryHasRoom
<1>3. CASE Play /\ ring # <<>>
  BY <1>3, PopKeepsRun DEF Play
<1>4. CASE (Evict \/ FlushPop) /\ ring # <<>>
  BY <1>4, PopKeepsRun DEF Evict, FlushPop
<1>5. CASE UNCHANGED <<ring, emitted, heard>>
  BY <1>5 DEF QueuedRun, NewestKept, HeardInOrder
<1> QED
  BY <1>1, <1>2, <1>3, <1>4, <1>5
  DEF Next, Produce, BeginBurst, Feed, PushFails, Evict, EndBurst, BeginCallback, Play,
      Pause, FlushPop, FlushDone, ResumeSound, vars

-----------------------------------------------------------------------------
(* A step feeds, emits, begins a frame, or leaves what the frame in flight   *)
(* can still add alone.                                                      *)
LEMMA ProducerSteps ==
  ASSUME [Next]_vars
  PROVE  \/ Feed
         \/ /\ Emit /\ prod # "idle" /\ UNCHANGED <<acc, left, paused, host, flushed>>
            /\ ring' = Append(ring, emitted + 1) \/ UNCHANGED ring
         \/ BeginBurst
         \/ UNCHANGED <<tail, due, acc, left, paused>>
         \/ Pause
         \/ ResumeSound
BY DEF Next, Produce, Push, PushFails, Evict, Retry, EndBurst, BeginCallback, Play,
       FlushPop, FlushDone, vars, resampler, device, control

(* The budget of the frame in flight: set by its burst, spent by feeding and *)
(* emitting.                                                                 *)
LEMMA BudgetsKept ==
  ASSUME TypeOK, ProducerOwes, FrameBudget, TailBudget, [Next]_vars
  PROVE  FrameBudget' /\ TailBudget'
<1> USE RateAssumption, SizeAssumption
<1>1. CASE Feed
  <2>1. left' * DstRate = left * DstRate - DstRate
    BY <1>1 DEF Feed, TypeOK
  <2>2. due * SrcRate = 0 /\ (tail + due) * SrcRate = tail * SrcRate
    BY <1>1 DEF Feed, TypeOK
  <2>3. /\ tail \in Nat
        /\ due' * SrcRate + acc' = acc + DstRate
        /\ (tail + due') * SrcRate + acc' = tail * SrcRate + acc + DstRate
    <3>1. tail \in Nat
      BY DEF TypeOK
    <3> QED BY <1>1, <3>1, FeedEffect
  <2>4. /\ due' * SrcRate + acc' + left' * DstRate = due * SrcRate + acc + left * DstRate
        /\ (tail + due') * SrcRate + acc' + left' * DstRate
            = (tail + due) * SrcRate + acc + left * DstRate
    BY <2>1, <2>2, <2>3 DEF TypeOK
  <2>5. UNCHANGED <<tail, paused>>
    BY <1>1 DEF Feed, control
  <2> QED BY <2>4, <2>5 DEF FrameBudget, TailBudget
<1>2. CASE Emit /\ UNCHANGED <<acc, left, paused>>
  <2>1. due' * SrcRate = due * SrcRate - SrcRate
    BY <1>2 DEF Emit, TypeOK
  <2>2. tail' + due' = tail + due
    BY <1>2 DEF Emit, TypeOK
  <2> QED BY <1>2, <2>1, <2>2 DEF FrameBudget, TailBudget, TypeOK
<1>3. CASE BeginBurst
  BY <1>3 DEF BeginBurst, FrameBudget, TailBudget, TypeOK, ProducerOwes, device, control
<1>4. CASE UNCHANGED <<tail, due, acc, left, paused>>
  BY <1>4 DEF FrameBudget, TailBudget
<1>5. CASE Pause
  BY <1>5 DEF Pause, FrameBudget, TailBudget, TypeOK, resampler
<1>6. CASE ResumeSound
  BY <1>6 DEF ResumeSound, FrameBudget, TailBudget, resampler
<1> QED BY <1>1, <1>2, <1>3, <1>4, <1>5, <1>6, ProducerSteps

(* A flush pops only what was in the ring or has come in since the flag.     *)
LEMMA FlushKept ==
  ASSUME TypeOK, RetryHasRoom, NewestKept, TailBudget, FlushBudget, FlushBounded, [Next]_vars
  PROVE  FlushBudget' /\ FlushBounded'
<1> USE SizeAssumption DEF TypeOK, FlushBudget, resampler, device, control
<1>1. CASE FlushPop
  <2>1. flushed' \in Nat /\ flushed' <= Capacity + tail /\ FlushBudget'
    BY <1>1, PopProperties DEF FlushPop
  <2>2. (tail + due) * SrcRate + acc + left * DstRate <= SrcRate - 1 + Burst * DstRate
    BY <1>1 DEF FlushPop, TailBudget
  <2>3. tail \in Nat /\ due \in Nat /\ acc \in Nat /\ left \in Nat
    OBVIOUS
  <2>4. FlushBounded'
    BY <2>1, <2>2, <2>3, BudgetBounds DEF FlushBounded
  <2> QED BY <2>1, <2>4
<1>2. CASE Pause
  <2>1. FlushBudget'
    BY <1>2 DEF Pause, NewestKept
  <2>2. FlushBounded'
    BY <1>2, RateAssumption DEF Pause, FlushBounded
  <2> QED BY <2>1, <2>2
<1>3. CASE Push \/ Retry
  <2>1. flushed' = flushed
    BY <1>3 DEF Push, Retry
  <2>2. ring' = ring \/ ring' = Append(ring, emitted + 1)
    BY <1>3 DEF Push, Retry
  <2>3. Len(ring) \in Nat /\ Len(ring') \in Nat /\ Len(ring') <= Len(ring) + 1
    BY <2>2, PushProperties
  <2>4. host' = host /\ paused' = paused /\ tail' = tail + 1
    BY <1>3 DEF Push, Retry, Emit
  <2>5. FlushBudget'
    BY <2>1, <2>3, <2>4
  <2> QED BY <2>1, <2>5 DEF FlushBounded
<1>4. CASE Evict \/ Play
  <2>1. flushed' = flushed
    BY <1>4 DEF Evict, Play
  <2>2. (ring = <<>> /\ ring' = ring) \/ (ring # <<>> /\ ring' = Tail(ring))
    BY <1>4 DEF Evict, Play
  <2>3. Len(ring') \in Nat /\ Len(ring') <= Len(ring)
    BY <2>2, PopProperties
  <2>4. host' = host /\ paused' = paused /\ tail' = tail
    BY <1>4 DEF Evict, Play
  <2>5. FlushBudget'
    BY <2>1, <2>3, <2>4
  <2> QED BY <2>1, <2>5 DEF FlushBounded
<1>5. CASE FlushDone \/ ResumeSound
  <2>1. flushed' = flushed
    BY <1>5 DEF FlushDone, ResumeSound
  <2>2. FlushBudget'
    BY <1>5 DEF FlushDone, ResumeSound
  <2> QED BY <2>1, <2>2 DEF FlushBounded
<1>6. CASE UNCHANGED <<ring, paused, host, flushed, tail>>
  BY <1>6 DEF FlushBounded
<1> QED
  BY <1>1, <1>2, <1>3, <1>4, <1>5, <1>6
  DEF Next, Produce, BeginBurst, Feed, PushFails, EndBurst, BeginCallback, vars

-----------------------------------------------------------------------------
(* The inductive invariant. *)
THEOREM InvariantHolds == Spec => []IInv
<1>1. Init => IInv
  <2> SUFFICES ASSUME Init PROVE IInv
    OBVIOUS
  <2> USE RateAssumption, SizeAssumption
  <2>1. TypeOK /\ ProducerOwes /\ RetryHasRoom /\ NewestKept /\ HeardInOrder
    <3>1. ring \in Seq(Nat) /\ Len(ring) = 0
      BY EmptySeq DEF Init
    <3>2. acc \in 0 .. SrcRate - 1 /\ left \in 0 .. Burst /\ wanted \in 0 .. Window
      BY DEF Init
    <3>3. TypeOK
      BY <3>1, <3>2 DEF Init, TypeOK
    <3> QED BY <3>1, <3>3 DEF Init, ProducerOwes, RetryHasRoom, NewestKept, HeardInOrder
  <2>2. NoDrift
    BY DEF Init, NoDrift
  <2>3. FrameBudget /\ TailBudget /\ FlushBudget /\ FlushBounded
    BY DEF Init, FrameBudget, TailBudget, FlushBudget, FlushBounded
  <2> QED BY <2>1, <2>2, <2>3 DEF IInv
<1>2. IInv /\ [Next]_vars => IInv'
  BY TypeKept, NoDriftKept, ProducerKept, QueueKept, BudgetsKept, FlushKept DEF IInv, QueuedRun
<1> QED BY <1>1, <1>2, PTL DEF Spec

(* The resampler never drifts, at any pair of rates whose sum fits in u32.   *)
THEOREM NeverDrifts == Spec => []NoDrift
<1>1. IInv => NoDrift
  BY DEF IInv
<1> QED BY <1>1, InvariantHolds, PTL

(* An overrun costs the oldest samples only, and nothing is heard twice,     *)
(* however the producer, the callback and a flush interleave on the ring.    *)
THEOREM RingKeepsNewest == Spec => []RingInvariant
<1>1. IInv => RingInvariant
  BY DEF IInv, RingInvariant
<1> QED BY <1>1, InvariantHolds, PTL

(* A pause lets at most one frame's samples in, and its flush pops no more   *)
(* than a full ring and those.                                               *)
THEOREM PauseIsShort == Spec => []PauseBounded
<1>1. IInv => PauseBounded
  <2> SUFFICES ASSUME IInv PROVE PauseTail /\ FlushBounded
    BY DEF PauseBounded
  <2>1. /\ tail \in Nat /\ due \in Nat /\ acc \in Nat /\ left \in Nat
        /\ 0 \in Nat /\ 0 <= Capacity + tail
    BY SizeAssumption DEF IInv, TypeOK
  <2>2. paused => (tail + due) * SrcRate + acc + left * DstRate <= SrcRate - 1 + Burst * DstRate
    BY DEF IInv, TailBudget
  <2> QED BY <2>1, <2>2, BudgetBounds DEF IInv, PauseTail
<1> QED BY <1>1, InvariantHolds, PTL
=============================================================================
