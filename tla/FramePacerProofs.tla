-------------------------- MODULE FramePacerProofs --------------------------
(***************************************************************************)
(* Proofs about the two clocks of a frame.  FramePacer, for every frame    *)
(* period, catch-up threshold and skip limit, frames slow by less than a   *)
(* period, and stalls and pauses of any length: the game is never ahead of *)
(* its schedule, and how far it falls behind and how many frames it then   *)
(* renders in a row follows from what the stalls cost.  FrameTiming, for   *)
(* every number of lines and dots, every length of instructions and DMAs   *)
(* that fits in front of the vertical blank.                               *)
(***************************************************************************)
EXTENDS FramePacer, FrameTiming, TLAPS

(* How late the loop is, in ticks after the deadline of the frame rendered   *)
(* last: the one quantity all the pacer's decisions are about.               *)
Late == now - start - index * Period

(* The ticks a frame rendered in a hurry gains.                              *)
Gain == Period - MaxRender

(* Never ahead, in ticks. *)
NotEarly == /\ turn = "render" => Late >= 0
            /\ turn # "render" => Late >= -Period

(* The lateness the threshold leaves alone.                                  *)
Tolerated == (Threshold + 1) * Period - 1

(* What the catch-ups that fell short have taken off the lateness.           *)
LeaptOver == leaps * (MaxSkip * Period)

(* How late the loop can be: what the threshold tolerates and what the       *)
(* stalls have cost, less what was leapt over.                               *)
LateBound ==
  /\ LeaptOver + Late <= Tolerated + lost
  /\ turn = "catchUp" => LeaptOver + Late <= Threshold * Period - 1 + MaxRender + lost
  /\ turn = "wait" /\ stalled = 0 /\ lost + MaxRender <= (MaxSkip + 1) * Period =>
       Late <= Tolerated

(* Frames rendered without sleeping, but for one to each leap. *)
Rushed == rush - leaps

(* Those have each worked off some lateness, once it was down to what is     *)
(* tolerated; while it is more, every frame is followed by a leap.           *)
RushBound ==
  /\ turn = "wait" =>
       /\ Late > Tolerated => Rushed <= 0
       /\ Late <= Tolerated /\ Rushed >= 1 => (Rushed - 1) * Gain + Late <= Tolerated
  /\ turn # "wait" /\ Late > Tolerated => Rushed <= 1
  /\ turn = "render" /\ Rushed >= 2 => (Rushed - 2) * Gain + Late <= Tolerated
  /\ turn = "catchUp" /\ Rushed >= 2 => (Rushed - 1) * Gain + Late <= Tolerated

IInv == PacerTypeOK /\ NotEarly /\ LateBound /\ RushBound /\ FloodIsTheStalls

-----------------------------------------------------------------------------
(* The schedule in ticks: what the frame arithmetic of the code compares.    *)
LEMMA LateIsInt ==
  ASSUME PacerTypeOK
  PROVE  /\ Late \in Int /\ now - start \in Nat /\ index * Period \in Nat
         /\ now - start = Late + index * Period
BY PacerAssumption DEF PacerTypeOK, Late

(* A deadline is how late the loop is, counted back from now. *)
LEMMA DeadlineInTicks ==
  ASSUME PacerTypeOK
  PROVE  /\ DeadlineFor(index) = now - Late
         /\ DeadlineFor(index + 1) = now - Late + Period
<1>1. index * Period \in Int /\ (index + 1) * Period = index * Period + Period
  BY PacerAssumption DEF PacerTypeOK
<1> QED BY <1>1, PacerAssumption DEF PacerTypeOK, DeadlineFor, Late

(* A product with the period moves by a period for each frame.               *)
LEMMA FramesInTicks ==
  ASSUME NEW i \in Int, NEW k \in Int
  PROVE  /\ (i + k) * Period = i * Period + k * Period
         /\ i * Period \in Int /\ k * Period \in Int
BY PacerAssumption

(* The frame that is due is the quotient of the time by the period. *)
LEMMA ExpectedDivides ==
  ASSUME PacerTypeOK
  PROVE  /\ Expected \in Nat
         /\ Expected * Period <= now - start
         /\ now - start < Expected * Period + Period
BY PacerAssumption DEF PacerTypeOK, Expected

(* The catch-up's comparison, and the frames it would have to skip.          *)
LEMMA ExpectedInTicks ==
  ASSUME PacerTypeOK, NEW k \in Nat
  PROVE  Expected <= index + k <=> Late < (k + 1) * Period
<1> DEFINE e == Expected
           p == Period
<1>1. /\ e \in Nat /\ p \in Nat \ {0} /\ index \in Nat
      /\ e * p <= Late + index * p /\ Late + index * p < e * p + p
  BY ExpectedDivides, LateIsInt, PacerAssumption DEF PacerTypeOK
<1>2. (index + k) * p = index * p + k * p /\ (k + 1) * p = k * p + p
  BY <1>1
<1>3. Late \in Int /\ index * p \in Int /\ k * p \in Int /\ e * p \in Int
  BY <1>1, LateIsInt
<1>4. ASSUME e <= index + k PROVE Late < (k + 1) * p
  <2>1. e * p <= (index + k) * p
    BY <1>1, <1>4
  <2> QED BY <1>1, <1>2, <1>3, <2>1
<1>5. ASSUME ~(e <= index + k) PROVE ~(Late < (k + 1) * p)
  <2>1. (index + k + 1) * p <= e * p
    BY <1>1, <1>5
  <2>2. (index + k + 1) * p = index * p + k * p + p
    BY <1>1
  <2> QED BY <1>1, <1>2, <1>3, <2>1, <2>2
<1> QED BY <1>4, <1>5
-----------------------------------------------------------------------------
(* What each action does to the lateness.                                    *)

(* A frame's rendering costs its time and gains its period.                  *)
LEMMA RenderInTicks ==
  ASSUME PacerTypeOK, Render
  PROVE  \E d \in 0 .. MaxRender : now' = now + d /\ Late' = Late + d - Period
<1>1. PICK d \in 0 .. MaxRender : now' = now + d
  BY DEF Render
<1>2. index' * Period = index * Period + Period
  BY FramesInTicks, PacerAssumption DEF Render, PacerTypeOK
<1> QED
  BY <1>1, <1>2, LateIsInt, PacerAssumption DEF Render, PacerTypeOK, Late

(* A catch-up leaves the loop as late as the threshold allows, by less than  *)
(* a period, or by what it could not skip, which is then a leap.             *)
LEMMA CatchUpInTicks ==
  ASSUME PacerTypeOK, CatchUp
  PROVE  /\ index' \in Nat
         /\ \/ UNCHANGED leaps /\ Late' = Late /\ Late' <= Tolerated
            \/ UNCHANGED leaps /\ Late' \in Nat /\ Late' <= Late /\ Late' < Period
            \/ leaps' = leaps + 1 /\ Late' \in Nat /\ Late' = Late - MaxSkip * Period
<1>1. CASE Expected <= index + Threshold
  <2>1. index' = index /\ leaps' = leaps /\ Late' = Late
    BY <1>1 DEF CatchUp, Late
  <2>2. Late < (Threshold + 1) * Period /\ (Threshold + 1) * Period \in Int
    BY <1>1, ExpectedInTicks, PacerAssumption
  <2>3. Late <= Tolerated
    BY <2>2, LateIsInt DEF Tolerated
  <2> QED BY <2>1, <2>3 DEF PacerTypeOK
<1>2. CASE ~(Expected <= index + Threshold)
  <2>1. /\ index' = index + Skip /\ Skip \in Nat
        /\ \/ Skip = MaxSkip /\ Expected - index > MaxSkip /\ leaps' = leaps + 1
           \/ Skip = Expected - index /\ leaps' = leaps + 0
        /\ Skip <= Expected - index /\ index \in Nat /\ Expected \in Nat
    BY <1>2, ExpectedDivides, PacerAssumption DEF CatchUp, Skip, PacerTypeOK
  <2>2. /\ (index + Skip) * Period = index * Period + Skip * Period
        /\ index * Period \in Int /\ Skip * Period \in Nat
    BY <2>1, PacerAssumption
  <2>3. Late' = Late - Skip * Period /\ Late \in Int
    BY <2>1, <2>2, LateIsInt DEF CatchUp, Late, PacerTypeOK
  <2>4. (index + Skip) * Period <= Expected * Period
    BY <2>1, PacerAssumption
  <2>5. Late' \in Nat /\ Late' <= Late /\ index' \in Nat
    BY <2>1, <2>2, <2>3, <2>4, ExpectedDivides, LateIsInt, PacerAssumption
  <2>6. CASE Skip = MaxSkip /\ leaps' = leaps + 1
    BY <2>3, <2>5, <2>6
  <2>7. CASE Skip = Expected - index /\ leaps' = leaps + 0
    <3>1. index + Skip = Expected /\ leaps' = leaps
      BY <2>1, <2>7 DEF PacerTypeOK
    <3>2. Late' = now - start - Expected * Period
      BY <2>2, <2>3, <3>1, LateIsInt
    <3>3. Late' < Period
      BY <2>1, <3>2, ExpectedDivides, LateIsInt, PacerAssumption
    <3> QED BY <2>5, <3>1, <3>3
  <2> QED BY <2>1, <2>6, <2>7
<1> QED BY <1>1, <1>2

(* A sleep ends at the next deadline, or a little later.                     *)
LEMMA SleepInTicks ==
  ASSUME PacerTypeOK, Sleep
  PROVE  now' \in now .. MaxNow /\ Late' \in Period .. Period + 1
<1>1. PICK late \in 0 .. 1 : /\ DeadlineFor(index + 1) + late <= MaxNow
                             /\ now' = DeadlineFor(index + 1) + late
  BY DEF Sleep
<1>2. now' = now - Late + Period + late /\ Late < Period
  BY <1>1, DeadlineInTicks, LateIsInt, PacerAssumption DEF Sleep, PacerTypeOK
<1>3. Late' = Late + (now' - now)
  BY <1>2, LateIsInt, PacerAssumption DEF Sleep, Late, PacerTypeOK
<1> QED BY <1>1, <1>2, <1>3, LateIsInt, PacerAssumption DEF PacerTypeOK

(* A stall costs its time. *)
LEMMA StallInTicks ==
  ASSUME PacerTypeOK, Stall
  PROVE  \E d \in 1 .. MaxStall - stalled :
           /\ now' = now + d /\ stalled' = stalled + d /\ lost' = lost + d
           /\ Late' = Late + d /\ now' <= MaxNow
<1>1. PICK d \in 1 .. MaxStall - stalled :
        now + d <= MaxNow /\ now' = now + d /\ stalled' = stalled + d /\ lost' = lost + d
  BY DEF Stall
<1>2. Late' = Late + d
  BY <1>1, LateIsInt, PacerAssumption DEF Stall, Late, PacerTypeOK
<1> QED BY <1>1, <1>2

(* A resume never takes the fallback of ResyncStart: the frames rendered so  *)
(* far fit into the time since the clock's zero, so the loop is on time.     *)
LEMMA ResumeInTicks ==
  ASSUME PacerTypeOK, NotEarly, Resume
  PROVE  now' \in now .. MaxNow /\ start' \in 0 .. now' /\ Late' = 0
<1>1. PICK d \in 0 .. MaxPause :
        now + d <= MaxNow /\ now' = now + d /\ start' = ResyncStart(now + d)
  BY DEF Resume
<1>2. index * Period \in Nat /\ index * Period <= now + d
  BY <1>1, LateIsInt, PacerAssumption DEF Resume, NotEarly, PacerTypeOK
<1>3. start' = now' - index * Period /\ index' = index
  BY <1>1, <1>2 DEF ResyncStart, Resume
<1> QED BY <1>1, <1>2, <1>3, PacerAssumption DEF PacerTypeOK, Late

-----------------------------------------------------------------------------
(* Types and the order of the schedule and the clock, for every pacer.       *)
LEMMA ScheduleKept ==
  ASSUME PacerTypeOK, NotEarly, [PacerNext]_pacerVars
  PROVE  PacerTypeOK' /\ NotEarly'
<1> USE PacerAssumption DEF PacerTypeOK, NotEarly
<1>1. CASE Render
  <2>1. PICK d \in 0 .. MaxRender : now' = now + d /\ Late' = Late + d - Period
    BY <1>1, RenderInTicks
  <2>2. now' <= MaxNow
    BY <1>1, <2>1 DEF Render
  <2> QED BY <1>1, <2>1, <2>2, LateIsInt DEF Render
<1>2. CASE CatchUp
  <2>1. index' \in Nat /\ (Late' = Late \/ Late' \in Nat) /\ leaps' \in Nat
    BY <1>2, CatchUpInTicks
  <2>2. Late' >= -Period
    <3>1. Late >= -Period
      BY <1>2 DEF CatchUp
    <3> QED BY <2>1, <3>1, LateIsInt
  <2> QED BY <1>2, <2>1, <2>2 DEF CatchUp
<1>3. CASE Sleep
  BY <1>3, SleepInTicks, LateIsInt DEF Sleep
<1>4. CASE NoSleep
  <2>1. Late' = Late /\ Late >= Period
    BY <1>4, DeadlineInTicks, LateIsInt DEF NoSleep, Late
  <2> QED BY <1>4, <2>1, LateIsInt DEF NoSleep
<1>5. CASE Stall
  <2>1. PICK d \in 1 .. MaxStall - stalled :
          /\ now' = now + d /\ stalled' = stalled + d /\ lost' = lost + d
          /\ Late' = Late + d /\ now' <= MaxNow
    BY <1>5, StallInTicks
  <2> QED BY <1>5, <2>1, LateIsInt DEF Stall
<1>6. CASE Resume
  BY <1>6, ResumeInTicks DEF Resume
<1>7. CASE UNCHANGED pacerVars
  BY <1>7 DEF pacerVars, Late
<1> QED BY <1>1, <1>2, <1>3, <1>4, <1>5, <1>6, <1>7 DEF PacerNext

(* The constants in ticks. *)
LEMMA ToleratedInTicks ==
  /\ Tolerated = Threshold * Period + Period - 1 /\ Tolerated \in Nat
  /\ Threshold * Period \in Nat /\ Threshold * Period >= Period
  /\ MaxSkip * Period \in Nat /\ (MaxSkip + 1) * Period = MaxSkip * Period + Period
  /\ Period \in Nat /\ Period > 1 /\ MaxRender \in Nat /\ MaxRender < Period
  /\ Gain \in Nat /\ Gain <= Period /\ Gain = Period - MaxRender
<1>1. (Threshold + 1) * Period = Threshold * Period + Period
      /\ (MaxSkip + 1) * Period = MaxSkip * Period + Period
  BY PacerAssumption
<1>2. Threshold * Period \in Nat /\ Threshold * Period >= Period /\ MaxSkip * Period \in Nat
  BY PacerAssumption
<1> QED BY <1>1, <1>2, PacerAssumption DEF Tolerated, Gain

(* A leap takes off what it skips. *)
LEMMA LeapsInTicks ==
  ASSUME PacerTypeOK
  PROVE  /\ LeaptOver \in Nat /\ (leaps' = leaps => LeaptOver' = LeaptOver)
         /\ leaps' = 0 => LeaptOver' = 0
         /\ leaps' = leaps + 1 => LeaptOver' = LeaptOver + MaxSkip * Period
<1>1. MaxSkip * Period \in Nat /\ leaps \in Nat
  BY ToleratedInTicks DEF PacerTypeOK
<1> DEFINE s == MaxSkip * Period
<1> HIDE DEF s
<1>2. s \in Nat
  BY <1>1 DEF s
<1>3. leaps * s \in Nat /\ 0 * s = 0 /\ (leaps + 1) * s = leaps * s + s
  BY <1>1, <1>2
<1> QED BY <1>3 DEF s, LeaptOver

(* How late the loop can be: a turn adds at most a frame's rendering and the *)
(* stalls, and a catch-up takes that away again as far as it may skip.       *)
LEMMA LatenessKept ==
  ASSUME PacerTypeOK, NotEarly, LateBound, [PacerNext]_pacerVars
  PROVE  LateBound'
<1> USE ToleratedInTicks, LeapsInTicks, LateIsInt DEF PacerTypeOK
<1>1. /\ LeaptOver + Late <= Tolerated + lost
      /\ turn = "catchUp" => LeaptOver + Late <= Threshold * Period - 1 + MaxRender + lost
      /\ turn = "wait" /\ stalled = 0 /\ lost + MaxRender <= (MaxSkip + 1) * Period =>
           Late <= Tolerated
  BY DEF LateBound
<1>2. SUFFICES
        /\ LeaptOver' + Late' <= Tolerated + lost'
        /\ turn' = "catchUp" =>
             LeaptOver' + Late' <= Threshold * Period - 1 + MaxRender + lost'
        /\ turn' = "wait" /\ stalled' = 0 /\ lost' + MaxRender <= (MaxSkip + 1) * Period =>
             Late' <= Tolerated
  BY DEF LateBound, Tolerated
<1>3. CASE Render
  <2>1. PICK d \in 0 .. MaxRender : now' = now + d /\ Late' = Late + d - Period
    BY <1>3, RenderInTicks
  <2>2. turn' = "catchUp" /\ leaps' = leaps /\ lost' = lost
    BY <1>3 DEF Render
  <2> QED BY <1>1, <2>1, <2>2
<1>4. CASE CatchUp
  <2>1. turn = "catchUp" /\ turn' = "wait" /\ lost' = lost
    BY <1>4 DEF CatchUp
  <2>2. CASE UNCHANGED leaps /\ Late' = Late /\ Late' <= Tolerated
    BY <1>1, <2>1, <2>2
  <2>3. CASE UNCHANGED leaps /\ Late' \in Nat /\ Late' <= Late /\ Late' < Period
    BY <1>1, <2>1, <2>3
  <2>4. CASE leaps' = leaps + 1 /\ Late' \in Nat /\ Late' = Late - MaxSkip * Period
    BY <1>1, <2>1, <2>4
  <2> QED BY <2>2, <2>3, <2>4, <1>4, CatchUpInTicks
<1>5. CASE Sleep
  <2>1. Late' \in Int /\ Late' <= Period + 1
    BY <1>5, SleepInTicks
  <2>2. turn' = "render" /\ leaps' = 0 /\ lost' = 0
    BY <1>5 DEF Sleep
  <2> QED BY <2>1, <2>2
<1>6. CASE NoSleep
  <2>1. turn' = "render" /\ leaps' = leaps /\ lost' = lost /\ Late' = Late
    BY <1>6 DEF NoSleep, Late
  <2> QED BY <1>1, <2>1
<1>7. CASE Stall
  <2>1. PICK d \in 1 .. MaxStall - stalled :
          /\ now' = now + d /\ stalled' = stalled + d /\ lost' = lost + d
          /\ Late' = Late + d
    BY <1>7, StallInTicks
  <2>2. turn' = turn /\ leaps' = 0 /\ d > 0 /\ stalled' # 0 /\ MaxStall \in Nat
    BY <1>7, <2>1, PacerAssumption DEF Stall
  <2> QED BY <1>1, <2>1, <2>2
<1>8. CASE Resume
  <2>1. turn' = "render" /\ leaps' = 0 /\ lost' = 0 /\ Late' = 0
    BY <1>8, ResumeInTicks DEF Resume
  <2> QED BY <2>1
<1>9. CASE UNCHANGED pacerVars
  <2>1. /\ turn' = turn /\ leaps' = leaps /\ lost' = lost /\ stalled' = stalled
        /\ Late' = Late
    BY <1>9 DEF pacerVars, Late
  <2> QED BY <1>1, <2>1
<1> QED BY <1>3, <1>4, <1>5, <1>6, <1>7, <1>8, <1>9 DEF PacerNext

(* Frames rendered back to back: each works off a Gain of the lateness the   *)
(* catch-up left, and is begun only while there is a period of it left; but  *)
(* a leap pays for the frame before it, whatever lateness it leaves.         *)
LEMMA RushKept ==
  ASSUME PacerTypeOK, NotEarly, RushBound, FloodIsTheStalls, [PacerNext]_pacerVars
  PROVE  RushBound' /\ FloodIsTheStalls'
<1> DEFINE q == Rushed
<1>1. /\ q \in Int /\ Late \in Int /\ q * Gain \in Int
      /\ (q - 1) * Gain = q * Gain - Gain
      /\ (q - 2) * Gain = q * Gain - 2 * Gain
      /\ (q + 1) * Gain = q * Gain + Gain
      /\ 0 * Gain = 0 /\ 1 * Gain = Gain
  BY ToleratedInTicks, LateIsInt DEF PacerTypeOK, Rushed
<1>2. q <= 1 => q * Gain <= Gain
  BY <1>1, ToleratedInTicks
<1> DEFINE Waiting(r, l) == /\ l > Tolerated => r <= 0
                            /\ l <= Tolerated /\ r >= 1 => (r - 1) * Gain + l <= Tolerated
           Rendering(r, l) == /\ l > Tolerated => r <= 1
                              /\ r >= 2 => (r - 2) * Gain + l <= Tolerated
           Rendered(r, l) == /\ l > Tolerated => r <= 1
                             /\ r >= 2 => (r - 1) * Gain + l <= Tolerated
           Few(r) == r * Gain <= Tolerated - Period + 2 * Gain
<1>3. /\ turn = "wait" => Waiting(q, Late)
      /\ turn = "render" => Rendering(q, Late)
      /\ turn = "catchUp" => Rendered(q, Late)
  BY DEF RushBound
<1>4. FloodIsTheStalls <=> Few(q)
  BY ToleratedInTicks DEF FloodIsTheStalls, NotAFlood, Rushed, Gain
<1>5. SUFFICES /\ turn' = "wait" => Waiting(q', Late')
               /\ turn' = "render" => Rendering(q', Late')
               /\ turn' = "catchUp" => Rendered(q', Late')
               /\ Few(q')
  <2>1. FloodIsTheStalls' <=> Few(q')
    BY ToleratedInTicks DEF FloodIsTheStalls, NotAFlood, Rushed, Gain
  <2>2. turn' \in {"render", "catchUp", "wait"}
    BY ScheduleKept DEF PacerTypeOK
  <2> QED BY <1>5, <2>1, <2>2 DEF RushBound, Tolerated, Gain
<1>6. CASE UNCHANGED <<turn, rush, leaps>> /\ Late' = Late
  <2>1. q' = q /\ turn' = turn
    BY <1>6 DEF Rushed
  <2> QED BY <1>3, <1>4, <1>6, <2>1
<1>7. CASE rush' = 0 /\ leaps' = 0
  <2>1. q' = 0
    BY <1>7 DEF Rushed
  <2>2. Few(0)
    BY <1>1, ToleratedInTicks
  <2> QED BY <2>1, <2>2
<1>8. CASE Render
  <2>1. PICK d \in 0 .. MaxRender : now' = now + d /\ Late' = Late + d - Period
    BY <1>8, RenderInTicks
  <2>2. Late' \in Int /\ Late' <= Late - Gain
    BY <1>1, <2>1, PacerAssumption DEF Gain
  <2>3. turn = "render" /\ turn' = "catchUp" /\ q' = q
    BY <1>8 DEF Render, Rushed
  <2>4. Rendered(q, Late')
    BY <1>1, <1>3, <2>2, <2>3, ToleratedInTicks
  <2> QED BY <1>4, <2>3, <2>4
<1>9. CASE CatchUp
  <2>1. turn = "catchUp" /\ turn' = "wait" /\ rush' = rush
    BY <1>9 DEF CatchUp
  <2>2. Rendered(q, Late)
    BY <1>3, <2>1
  <2>3. CASE UNCHANGED leaps /\ Late' \in Int /\ Late' <= Late /\ Late' <= Tolerated
    <3>1. q' = q
      BY <2>1, <2>3 DEF Rushed
    <3>2. CASE q <= 1
      BY <1>1, <1>4, <2>1, <2>3, <3>1, <3>2, ToleratedInTicks
    <3>3. CASE q >= 2
      BY <1>1, <1>4, <2>1, <2>2, <2>3, <3>1, <3>3, ToleratedInTicks
    <3> QED BY <1>1, <3>2, <3>3
  <2>4. CASE leaps' = leaps + 1 /\ Late' \in Nat /\ Late' <= Late
    <3>1. q' = q - 1 /\ q' \in Int
      BY <1>1, <2>1, <2>4 DEF Rushed, PacerTypeOK
    <3>2. /\ q' * Gain = q * Gain - Gain
          /\ (q' - 1) * Gain = q * Gain - 2 * Gain
      BY <1>1, <3>1, ToleratedInTicks
    <3> QED BY <1>1, <1>4, <2>1, <2>2, <2>4, <3>1, <3>2, ToleratedInTicks
  <2> QED BY <1>1, <1>9, <2>3, <2>4, CatchUpInTicks, ToleratedInTicks
<1>10. CASE NoSleep
  <2>1. turn = "wait" /\ turn' = "render" /\ Late' = Late
    BY <1>10 DEF NoSleep, Late
  <2>2. q' = q + 1
    BY <1>10 DEF NoSleep, Rushed, PacerTypeOK
  <2>3. Late >= Period
    BY <1>1, <1>10, DeadlineInTicks, PacerAssumption DEF NoSleep, PacerTypeOK
  <2>4. (q' - 2) * Gain = q * Gain - Gain /\ q' * Gain = q * Gain + Gain
    BY <1>1, <2>2, ToleratedInTicks
  <2>5. CASE q <= 0
    BY <1>1, <1>2, <2>1, <2>2, <2>4, <2>5, ToleratedInTicks
  <2>6. CASE q >= 1
    <3>1. Late <= Tolerated /\ q * Gain - Gain + Late <= Tolerated
      BY <1>1, <1>3, <2>1, <2>6, ToleratedInTicks
    <3> QED BY <1>1, <2>1, <2>2, <2>3, <2>4, <3>1, ToleratedInTicks
  <2> QED BY <1>1, <2>5, <2>6
<1> QED
  BY <1>6, <1>7, <1>8, <1>9, <1>10 DEF PacerNext, Sleep, Stall, Resume, pacerVars, Late

-----------------------------------------------------------------------------
(* The game never runs ahead of real time, and resync() never takes its      *)
(* fallback, at any period, threshold, skip limit, stalls and pauses.        *)
THEOREM NeverAheadHolds == PacerSpec => [](PacerTypeOK /\ NeverAhead)
<1>1. PacerInit => PacerTypeOK /\ NotEarly
  BY PacerAssumption DEF PacerInit, PacerTypeOK, NotEarly, Late
<1>2. PacerTypeOK /\ NotEarly /\ [PacerNext]_pacerVars => PacerTypeOK' /\ NotEarly'
  BY ScheduleKept
<1>3. PacerTypeOK /\ NotEarly => NeverAhead
  BY DeadlineInTicks, LateIsInt, PacerAssumption DEF PacerTypeOK, NotEarly, NeverAhead
<1> QED BY <1>1, <1>2, <1>3, PTL DEF PacerSpec

(* The whole invariant, for stalls of any length: the game is behind by what *)
(* they cost and no more, and catches up to the threshold at once where one  *)
(* skip reaches; frames are rendered back to back only as far as the         *)
(* threshold allows and once for each skip that did not reach.               *)
THEOREM KeepsUp == PacerSpec => []PacerInvariant
<1>1. PacerInit => IInv
  <2> SUFFICES ASSUME PacerInit PROVE IInv
    OBVIOUS
  <2>1. PacerTypeOK /\ NotEarly /\ Late = 0
    BY PacerAssumption DEF PacerInit, PacerTypeOK, NotEarly, Late
  <2>2. 0 * (MaxSkip * Period) = 0 /\ 0 * (Period - MaxRender) = 0
    BY ToleratedInTicks DEF Gain
  <2>3. LeaptOver = 0 /\ Rushed = 0 /\ turn = "render" /\ lost = 0
    BY <2>2 DEF PacerInit, LeaptOver, Rushed
  <2>4. LateBound /\ RushBound
    BY <2>1, <2>3, ToleratedInTicks DEF LateBound, RushBound
  <2>5. FloodIsTheStalls
    BY <2>2, <2>3, ToleratedInTicks DEF Rushed, Gain, FloodIsTheStalls, NotAFlood
  <2> QED BY <2>1, <2>4, <2>5 DEF IInv
<1>2. IInv /\ [PacerNext]_pacerVars => IInv'
  BY ScheduleKept, LatenessKept, RushKept DEF IInv
<1>3. IInv => PacerInvariant
  <2> SUFFICES ASSUME IInv PROVE NeverAhead /\ LagBounded
    BY DEF IInv, PacerInvariant
  <2>1. NeverAhead
    BY DeadlineInTicks, LateIsInt, PacerAssumption DEF IInv, PacerTypeOK, NotEarly, NeverAhead
  <2>2. ASSUME Late <= Tolerated PROVE Expected <= index + Threshold
    <3>1. Late < (Threshold + 1) * Period
      BY <2>2, LateIsInt, PacerAssumption DEF IInv, Tolerated
    <3> QED BY <3>1, ExpectedInTicks, PacerAssumption DEF IInv
  <2>3. (Expected - index + leaps * MaxSkip) * Period <= (Threshold + 1) * Period - 1 + lost
    <3>1. (Expected - index + leaps * MaxSkip) * Period
             = Expected * Period - index * Period + leaps * (MaxSkip * Period)
      <4>1. /\ Expected \in Int /\ index \in Int /\ leaps \in Int /\ MaxSkip \in Int
            /\ Period \in Int
        BY ExpectedDivides, PacerAssumption DEF IInv, PacerTypeOK
      <4> HIDE DEF Expected
      <4> QED BY <4>1
    <3>2. Expected * Period - index * Period <= Late
      <4>1. Expected * Period \in Int
        BY ExpectedDivides, PacerAssumption DEF IInv
      <4> QED BY <4>1, ExpectedDivides, LateIsInt DEF IInv
    <3>3. Expected * Period \in Int /\ index * Period \in Int /\ LeaptOver \in Nat
      BY ExpectedDivides, LateIsInt, LeapsInTicks, PacerAssumption DEF IInv
    <3>4. LeaptOver + Late <= Tolerated + lost
      BY DEF IInv, LateBound
    <3> QED
      BY <3>1, <3>2, <3>3, <3>4, LateIsInt, ToleratedInTicks
      DEF IInv, PacerTypeOK, LeaptOver, Tolerated
  <2>4. LagBounded
    BY <2>2, <2>3 DEF LagBounded, IInv, LateBound
  <2> QED BY <2>1, <2>4
<1> QED BY <1>1, <1>2, <1>3, PTL DEF PacerSpec

-----------------------------------------------------------------------------
(* The core's frame, FrameTiming. *)

(* Types of the core's clock. *)
Clock ==
  [scanline : 0 .. PreRender, cycle : 0 .. DotsPerScanline - 1, odd : BOOLEAN,
   vblank : BOOLEAN, enable : BOOLEAN, rendering : BOOLEAN, previous : BOOLEAN,
   edge : BOOLEAN, frames : Nat, pictures : Nat]
FrameTypeOK ==
  /\ ppu \in Clock /\ latched \in BOOLEAN /\ canAccess \in BOOLEAN
  /\ owed \in BOOLEAN /\ fresh \in BOOLEAN
  /\ accesses \in 0 .. 8 /\ stall \in Nat /\ spent \in Nat
  /\ pc \in {"host", "frame", "reset"}

(* What the PPU and the bus hold of the NMI is its history: the level they   *)
(* compare with is the line's, the edge they keep is a rise no cycle has     *)
(* passed since, and the latch is the NMI owed.                              *)
NmiFollowed ==
  ppu.previous = NmiLine(ppu) /\ ppu.edge = fresh /\ latched = owed

(* The beam's place in the frame, in dots, and the picture's end.            *)
DotOf(p) == p.scanline * DotsPerScanline + p.cycle
FrameDots == ScanlinesPerFrame * DotsPerScanline
VblankDot == VblankStart * DotsPerScanline

(* The longest step of the CPU: an instruction of eight accesses with two    *)
(* DMAs and the fetches of the sample channel.                               *)
LongestStep == 8 + 2 * DmaStall + DmcStall
StepBound ==
  IF canAccess \/ accesses > 0 THEN stall <= DmcStall + 2 * DmaStall
  ELSE stall <= DmcStall + 2 * DmaStall + InterruptCycles

(* Where the beam is when step_frame's loop ends: while the frame lasts the  *)
(* cycles spent are behind it, three dots each, and once it is done what the *)
(* step has left to run fits in front of the vertical blank.                 *)
FrameProgress ==
  /\ pc # "frame" => ~canAccess /\ accesses = 0
  /\ pc = "host" => stall = 0 /\ DotOf(ppu) < VblankDot
  /\ pc = "reset" => DotOf(ppu) + 3 * stall <= 3 * ResetCycles
  /\ pc = "frame" =>
     /\ StepBound
     /\ ppu.frames \in {0, 1}
     /\ ppu.frames = 0 =>
          /\ 3 * spent <= DotOf(ppu)
          /\ ppu.pictures = IF DotOf(ppu) > VblankDot + 1 THEN 1 ELSE 0
     /\ ppu.frames = 1 =>
          /\ ppu.pictures = 1
          /\ DotOf(ppu) + 3 * (accesses + stall) < 3 * LongestStep
          /\ canAccess \/ accesses > 0 => DotOf(ppu) + 3 * accesses < 24

CoreIInv == FrameTypeOK /\ NmiFollowed /\ FrameProgress

(* Lines of dots: the scanline and the dot in it can be read off the place.  *)
LEMMA LineProducts ==
  ASSUME NEW a \in Nat, NEW b \in Nat, a < b
  PROVE  /\ a * DotsPerScanline \in Nat /\ b * DotsPerScanline \in Nat
         /\ a * DotsPerScanline + DotsPerScanline <= b * DotsPerScanline
         /\ (a + 1) * DotsPerScanline = a * DotsPerScanline + DotsPerScanline
<1> DEFINE D == DotsPerScanline
<1>1. D \in Nat
  BY FrameAssumption
<1>2. PICK k \in Nat : b = a + 1 + k
  <2>1. b - a - 1 \in Nat /\ b = a + 1 + (b - a - 1)
    OBVIOUS
  <2> QED BY <2>1
<1> HIDE DEF D
<1>3. b * D = (a + 1) * D + k * D
  BY <1>1, <1>2
<1>4. k * D \in Nat /\ a * D \in Nat /\ b * D \in Nat /\ (a + 1) * D = a * D + D
  BY <1>1
<1> QED BY <1>1, <1>3, <1>4 DEF D

(* The constants of the frame, in dots. *)
LEMMA FrameInDots ==
  /\ DotsPerScanline \in Nat /\ DotsPerScanline > 3
  /\ ScanlinesPerFrame \in Nat /\ VblankStart \in Nat /\ VblankStart < PreRender
  /\ PreRender \in Nat /\ SafetyLimit \in Nat /\ DmaStall \in Nat /\ DmcStall \in Nat
  /\ VblankDot \in Nat /\ FrameDots \in Nat /\ PreRender * DotsPerScanline \in Nat
  /\ 3 * LongestStep <= VblankDot /\ VblankDot >= 24
  /\ PreRender * DotsPerScanline + DotsPerScanline = FrameDots
  /\ VblankDot + DotsPerScanline <= PreRender * DotsPerScanline
  /\ FrameDots <= 3 * SafetyLimit /\ LongestStep \in Nat
<1>1. /\ DotsPerScanline \in Nat /\ DotsPerScanline > 3
      /\ ScanlinesPerFrame \in Nat /\ VblankStart \in Nat /\ VblankStart < PreRender
      /\ PreRender \in Nat /\ SafetyLimit \in Nat /\ DmaStall \in Nat /\ DmcStall \in Nat
      /\ PreRender + 1 = ScanlinesPerFrame
  BY FrameAssumption DEF PreRender
<1>2. /\ 3 * (8 + 2 * DmaStall + DmcStall) <= VblankDot
      /\ FrameDots <= 3 * SafetyLimit
  BY FrameAssumption DEF VblankDot, FrameDots
<1>3. /\ VblankDot \in Nat /\ PreRender * DotsPerScanline \in Nat
      /\ VblankDot + DotsPerScanline <= PreRender * DotsPerScanline
  BY <1>1, LineProducts DEF VblankDot
<1>4. /\ FrameDots \in Nat
      /\ PreRender * DotsPerScanline + DotsPerScanline = FrameDots
  <2>1. /\ ScanlinesPerFrame * DotsPerScanline \in Nat
        /\ (PreRender + 1) * DotsPerScanline = PreRender * DotsPerScanline + DotsPerScanline
    BY <1>1, LineProducts
  <2> QED BY <1>1, <2>1 DEF FrameDots
<1> QED BY <1>1, <1>2, <1>3, <1>4 DEF LongestStep

(* A place of the frame as one number. *)
LEMMA DotIsPlace ==
  ASSUME NEW p \in Clock
  PROVE  /\ DotOf(p) \in 0 .. FrameDots - 1
         /\ p.scanline = VblankStart /\ p.cycle = 1 <=> DotOf(p) = VblankDot + 1
         /\ p.scanline = PreRender <=> DotOf(p) >= PreRender * DotsPerScanline
         /\ DotOf(p) < VblankDot => p.scanline < VblankStart
         /\ (p.scanline + 1) * DotsPerScanline = p.scanline * DotsPerScanline + DotsPerScanline
         /\ p.scanline * DotsPerScanline \in Nat
         /\ p.scanline * DotsPerScanline <= PreRender * DotsPerScanline
<1>1. PICK s \in 0 .. PreRender, c \in 0 .. DotsPerScanline - 1 : p.scanline = s /\ p.cycle = c
  BY DEF Clock
<1>2. PICK w : w = s * DotsPerScanline
  OBVIOUS
<1>3. s \in Nat /\ c \in Nat /\ c < DotsPerScanline /\ s <= PreRender
  BY <1>1, FrameInDots
<1>4. w \in Nat /\ (s + 1) * DotsPerScanline = w + DotsPerScanline
  BY <1>2, <1>3, LineProducts, s < s + 1
<1>5. s < PreRender => w + DotsPerScanline <= PreRender * DotsPerScanline
  BY <1>2, <1>3, LineProducts, FrameInDots
<1>6. s < VblankStart => w + DotsPerScanline <= VblankDot
  BY <1>2, <1>3, LineProducts, FrameInDots DEF VblankDot
<1>7. s > VblankStart => VblankDot + DotsPerScanline <= w
  BY <1>2, <1>3, LineProducts, FrameInDots DEF VblankDot
<1>8. s = VblankStart => w = VblankDot
  BY <1>2 DEF VblankDot
<1>9. s = PreRender => w = PreRender * DotsPerScanline
  BY <1>2
<1>10. DotOf(p) = w + c
  BY <1>1, <1>2 DEF DotOf
<1>11. DotOf(p) \in 0 .. FrameDots - 1 /\ w <= PreRender * DotsPerScanline
  BY <1>3, <1>4, <1>5, <1>9, <1>10, FrameInDots
<1>12. s = VblankStart /\ c = 1 <=> DotOf(p) = VblankDot + 1
  BY <1>3, <1>4, <1>6, <1>7, <1>8, <1>10, FrameInDots
<1>13. s = PreRender <=> DotOf(p) >= PreRender * DotsPerScanline
  BY <1>3, <1>4, <1>5, <1>9, <1>10, FrameInDots
<1>14. DotOf(p) < VblankDot => s < VblankStart
  BY <1>3, <1>4, <1>7, <1>8, <1>10, FrameInDots
<1> QED BY <1>1, <1>2, <1>4, <1>11, <1>12, <1>13, <1>14

(* Looking at the line touches only the two fields of the edge detector.     *)
LEMMA RefreshKeeps ==
  ASSUME NEW p \in Clock
  PROVE  /\ RefreshNmiEdge(p) \in Clock /\ RefreshNmiEdge(p).scanline = p.scanline
         /\ RefreshNmiEdge(p).cycle = p.cycle /\ RefreshNmiEdge(p).frames = p.frames
         /\ RefreshNmiEdge(p).pictures = p.pictures
         /\ NmiLine(RefreshNmiEdge(p)) = NmiLine(p)
         /\ RefreshNmiEdge(p).previous = NmiLine(p)
         /\ RefreshNmiEdge(p).edge = (p.edge \/ (NmiLine(p) /\ ~p.previous))
<1>1. NmiLine(p) \in BOOLEAN /\ (p.edge \/ (NmiLine(p) /\ ~p.previous)) \in BOOLEAN
  BY DEF NmiLine, Clock
<1>2. PICK e, l : e = (p.edge \/ (NmiLine(p) /\ ~p.previous)) /\ l = NmiLine(p)
  OBVIOUS
<1>3. RefreshNmiEdge(p) = [p EXCEPT !.edge = e, !.previous = l]
  BY <1>2 DEF RefreshNmiEdge
<1>4. e \in BOOLEAN /\ l \in BOOLEAN
  BY <1>1, <1>2
<1>5. RefreshNmiEdge(p) \in Clock
  BY <1>3, <1>4 DEF Clock
<1>6. /\ RefreshNmiEdge(p).scanline = p.scanline /\ RefreshNmiEdge(p).cycle = p.cycle
      /\ RefreshNmiEdge(p).frames = p.frames /\ RefreshNmiEdge(p).pictures = p.pictures
      /\ RefreshNmiEdge(p).enable = p.enable /\ RefreshNmiEdge(p).vblank = p.vblank
      /\ RefreshNmiEdge(p).previous = l /\ RefreshNmiEdge(p).edge = e
  BY <1>3 DEF Clock
<1> QED BY <1>2, <1>5, <1>6 DEF NmiLine

(* The flags of a dot leave the beam where it is. *)
LEMMA FlagsKeepPlace ==
  ASSUME NEW p \in Clock
  PROVE  /\ Flags(p) \in Clock /\ Flags(p).scanline = p.scanline
         /\ Flags(p).cycle = p.cycle /\ Flags(p).frames = p.frames
         /\ Flags(p).pictures =
              p.pictures + IF p.scanline = VblankStart /\ p.cycle = 1 THEN 1 ELSE 0
<1>1. /\ p.pictures \in Nat /\ p.pictures + 1 \in Nat /\ p.pictures + 0 = p.pictures
      /\ PreRender # VblankStart
  BY FrameInDots DEF Clock
<1>2. CASE p.cycle = 1 /\ p.scanline = PreRender
  <2>1. PICK q : q = [p EXCEPT !.vblank = FALSE]
    OBVIOUS
  <2>2. /\ q \in Clock /\ q.scanline = p.scanline /\ q.cycle = p.cycle
        /\ q.frames = p.frames /\ q.pictures = p.pictures
    BY <2>1 DEF Clock
  <2>3. Flags(p) = RefreshNmiEdge(q)
    BY <1>2, <2>1 DEF Flags
  <2> QED BY <1>1, <1>2, <2>2, <2>3, RefreshKeeps
<1>3. CASE p.cycle = 1 /\ p.scanline = VblankStart
  <2>1. PICK q : q = [p EXCEPT !.vblank = TRUE, !.pictures = @ + 1]
    OBVIOUS
  <2>2. q \in Clock
    BY <1>1, <2>1 DEF Clock
  <2>3. /\ q.scanline = p.scanline /\ q.cycle = p.cycle
        /\ q.frames = p.frames /\ q.pictures = p.pictures + 1
    BY <2>1 DEF Clock
  <2>4. Flags(p) = RefreshNmiEdge(q)
    BY <1>1, <1>3, <2>1 DEF Flags
  <2> QED BY <1>3, <2>2, <2>3, <2>4, RefreshKeeps
<1>4. CASE p.cycle # 1 \/ p.scanline \notin {PreRender, VblankStart}
  BY <1>1, <1>4 DEF Flags
<1> QED BY <1>2, <1>3, <1>4

(* One dot: the beam moves on by one, or from one of the frame's last two    *)
(* dots to its first; a picture is published on the vertical blank's second. *)
LEMMA OneDot ==
  ASSUME NEW p \in Clock
  PROVE  /\ TickOne(p) \in Clock
         /\ TickOne(p).pictures = p.pictures + IF DotOf(p) = VblankDot + 1 THEN 1 ELSE 0
         /\ \/ DotOf(TickOne(p)) = DotOf(p) + 1 /\ TickOne(p).frames = p.frames
            \/ /\ DotOf(p) >= FrameDots - 2 /\ DotOf(TickOne(p)) = 0
               /\ TickOne(p).frames = p.frames + 1
<1>1. PICK q : q = Flags(p)
  OBVIOUS
<1>2. /\ q \in Clock /\ q.scanline = p.scanline /\ q.cycle = p.cycle /\ q.frames = p.frames
      /\ q.pictures = p.pictures + IF p.scanline = VblankStart /\ p.cycle = 1 THEN 1 ELSE 0
  BY <1>1, FlagsKeepPlace
<1>3. q.pictures = p.pictures + IF DotOf(p) = VblankDot + 1 THEN 1 ELSE 0
  BY <1>2, DotIsPlace
<1>4. DotOf(q) = DotOf(p)
  BY <1>2 DEF DotOf
<1>5. /\ Advance(q) \in Clock /\ Advance(q).pictures = q.pictures
      /\ \/ DotOf(Advance(q)) = DotOf(q) + 1 /\ Advance(q).frames = q.frames
         \/ /\ DotOf(q) >= FrameDots - 2 /\ DotOf(Advance(q)) = 0
            /\ Advance(q).frames = q.frames + 1
  <2>1. PICK r : r = Advance(q)
    OBVIOUS
  <2>2. q.cycle \in Nat /\ q.cycle < DotsPerScanline /\ q.scanline \in Nat /\ q.frames \in Nat
        /\ q.scanline <= PreRender
    BY <1>2, FrameInDots DEF Clock
  <2>3. CASE q.cycle + 1 < DotsPerScanline /\ r = [q EXCEPT !.cycle = q.cycle + 1]
    <3>1. r \in Clock /\ r.pictures = q.pictures /\ r.frames = q.frames
      BY <1>2, <2>2, <2>3, FrameInDots DEF Clock
    <3>2. r.scanline = q.scanline /\ r.cycle = q.cycle + 1
      BY <1>2, <2>3 DEF Clock
    <3>3. DotOf(r) = DotOf(q) + 1
      BY <3>2, <1>2, <2>2, DotIsPlace DEF DotOf
    <3> QED BY <2>1, <3>1, <3>3
  <2>4. CASE /\ q.cycle + 1 = DotsPerScanline /\ q.scanline < PreRender
             /\ r = [q EXCEPT !.cycle = 0, !.scanline = @ + 1]
    <3>0. q.scanline + 1 \in 0 .. PreRender /\ 0 \in 0 .. DotsPerScanline - 1
      BY <2>2, <2>4, FrameInDots
    <3>1. r \in Clock /\ r.pictures = q.pictures /\ r.frames = q.frames
      BY <1>2, <2>4, <3>0 DEF Clock
    <3>2. r.scanline = q.scanline + 1 /\ r.cycle = 0
      BY <1>2, <2>4 DEF Clock
    <3>3. DotOf(r) = DotOf(q) + 1
      <4>1. PICK w : w = q.scanline * DotsPerScanline
        OBVIOUS
      <4>2. w \in Nat /\ (q.scanline + 1) * DotsPerScanline = w + DotsPerScanline
        BY <4>1, <1>2, DotIsPlace
      <4>3. DotOf(r) = w + DotsPerScanline /\ DotOf(q) = w + q.cycle
        BY <3>2, <4>1, <4>2, FrameInDots DEF DotOf
      <4> QED BY <4>2, <4>3, <2>4, <2>2, FrameInDots
    <3> QED BY <2>1, <3>1, <3>3
  <2>5. CASE /\ q.cycle >= DotsPerScanline - 2 /\ q.scanline = PreRender
             /\ r = [q EXCEPT !.cycle = 0, !.scanline = 0, !.odd = ~@, !.frames = @ + 1]
    <3>0. /\ 0 \in 0 .. PreRender /\ 0 \in 0 .. DotsPerScanline - 1 /\ q.frames + 1 \in Nat
          /\ (~q.odd) \in BOOLEAN
      BY <2>2, FrameInDots
    <3>1. r \in Clock
      BY <1>2, <2>5, <3>0 DEF Clock
    <3>5. r.pictures = q.pictures /\ r.frames = q.frames + 1
      BY <1>2, <2>5 DEF Clock
    <3>2. r.scanline = 0 /\ r.cycle = 0
      BY <1>2, <2>5 DEF Clock
    <3>3. DotOf(r) = 0
      BY <3>2, FrameInDots DEF DotOf
    <3>4. DotOf(q) >= FrameDots - 2
      BY <2>2, <2>5, FrameInDots DEF DotOf
    <3> QED BY <2>1, <3>1, <3>3, <3>4, <3>5
  <2> QED BY <2>1, <2>2, <2>3, <2>4, <2>5, FrameInDots DEF Advance
<1> QED BY <1>1, <1>2, <1>3, <1>4, <1>5 DEF TickOne

(* One dot and the NMI line: it moves on the second dot of a line only, and  *)
(* the detector keeps up with it.                                            *)
LEMMA LineOfOneDot ==
  ASSUME NEW p \in Clock, p.previous = NmiLine(p)
  PROVE  /\ TickOne(p).previous = NmiLine(TickOne(p))
         /\ TickOne(p).edge = (p.edge \/ (NmiLine(TickOne(p)) /\ ~NmiLine(p)))
         /\ p.cycle # 1 => NmiLine(TickOne(p)) = NmiLine(p) /\ TickOne(p).cycle \in {0, p.cycle + 1}
         /\ p.cycle = 1 => TickOne(p).cycle = 2
<1>1. PICK q : q = Flags(p)
  OBVIOUS
<1>2. q \in Clock /\ q.cycle = p.cycle /\ q.scanline = p.scanline
  BY <1>1, FlagsKeepPlace
<1>3. /\ q.previous = NmiLine(q)
      /\ q.edge = (p.edge \/ (NmiLine(q) /\ ~NmiLine(p)))
      /\ p.cycle # 1 => q = p
  <2>1. p.edge \in BOOLEAN /\ NmiLine(p) \in BOOLEAN
    BY DEF NmiLine, Clock
  <2>2. CASE q = p
    BY <2>1, <2>2
  <2>3. CASE p.cycle = 1 /\ p.scanline = PreRender
    <3>1. PICK o : o = [p EXCEPT !.vblank = FALSE]
      OBVIOUS
    <3>2. o \in Clock /\ o.edge = p.edge /\ o.previous = p.previous
      BY <3>1 DEF Clock
    <3>3. q = RefreshNmiEdge(o)
      BY <1>1, <2>3, <3>1 DEF Flags
    <3> QED BY <2>1, <2>3, <3>2, <3>3, RefreshKeeps
  <2>4. CASE p.cycle = 1 /\ p.scanline = VblankStart
    <3>1. PICK o : o = [p EXCEPT !.vblank = TRUE, !.pictures = @ + 1]
      OBVIOUS
    <3>4. p.pictures + 1 \in Nat
      BY DEF Clock
    <3>5. o \in Clock
      BY <3>1, <3>4 DEF Clock
    <3>2. o.edge = p.edge /\ o.previous = p.previous
      BY <3>1 DEF Clock
    <3>3. q = RefreshNmiEdge(o)
      BY <1>1, <2>4, <3>1, FrameInDots DEF Flags
    <3> QED BY <2>1, <2>4, <3>2, <3>3, <3>5, RefreshKeeps
  <2> QED BY <1>1, <2>2, <2>3, <2>4 DEF Flags
<1>4. PICK r : r = Advance(q)
  OBVIOUS
<1>5. /\ r.previous = q.previous /\ r.edge = q.edge /\ NmiLine(r) = NmiLine(q)
      /\ r.cycle \in {0, q.cycle + 1} /\ (q.cycle = 1 => r.cycle = 2)
  BY <1>2, <1>4, FrameInDots DEF Advance, Clock, NmiLine
<1>6. r = TickOne(p)
  BY <1>1, <1>4 DEF TickOne
<1> QED BY <1>2, <1>3, <1>5, <1>6

(* The three dots of a CPU cycle. *)
Ran(p) == TickOne(TickOne(TickOne(p)))

(* The NMI line is sampled on every dot, so that a rise becomes an edge. *)
LEMMA LineOfACycle ==
  ASSUME NEW p \in Clock, p.previous = NmiLine(p)
  PROVE  /\ Ran(p).previous = NmiLine(Ran(p))
         /\ Ran(p).edge = (p.edge \/ (NmiLine(Ran(p)) /\ ~NmiLine(p)))
<1>1. PICK q, r, s : q = TickOne(p) /\ r = TickOne(q) /\ s = TickOne(r)
  OBVIOUS
<1>2. q \in Clock /\ r \in Clock /\ s \in Clock
  BY <1>1, OneDot
<1>3. p.cycle \in Nat /\ q.cycle \in Nat /\ r.cycle \in Nat
  BY <1>2, FrameInDots DEF Clock
<1>4. /\ q.previous = NmiLine(q) /\ q.edge = (p.edge \/ (NmiLine(q) /\ ~NmiLine(p)))
      /\ p.cycle # 1 => NmiLine(q) = NmiLine(p) /\ q.cycle \in {0, p.cycle + 1}
      /\ p.cycle = 1 => q.cycle = 2
  BY <1>1, LineOfOneDot
<1>5. /\ r.previous = NmiLine(r) /\ r.edge = (q.edge \/ (NmiLine(r) /\ ~NmiLine(q)))
      /\ q.cycle # 1 => NmiLine(r) = NmiLine(q) /\ r.cycle \in {0, q.cycle + 1}
      /\ q.cycle = 1 => r.cycle = 2
  BY <1>1, <1>2, <1>4, LineOfOneDot
<1>6. /\ s.previous = NmiLine(s) /\ s.edge = (r.edge \/ (NmiLine(s) /\ ~NmiLine(r)))
      /\ r.cycle # 1 => NmiLine(s) = NmiLine(r)
  BY <1>1, <1>2, <1>5, LineOfOneDot
<1>7. \/ NmiLine(q) = NmiLine(p) /\ NmiLine(r) = NmiLine(q)
      \/ NmiLine(q) = NmiLine(p) /\ NmiLine(s) = NmiLine(r)
      \/ NmiLine(r) = NmiLine(q) /\ NmiLine(s) = NmiLine(r)
  BY <1>3, <1>4, <1>5, <1>6
<1>8. {NmiLine(p), NmiLine(q), NmiLine(r), NmiLine(s), p.edge} \subseteq BOOLEAN
  BY <1>2 DEF NmiLine, Clock
<1>9. s.edge = (p.edge \/ (NmiLine(s) /\ ~NmiLine(p)))
  BY <1>4, <1>5, <1>6, <1>7, <1>8
<1>10. Ran(p) = s
  BY <1>1 DEF Ran
<1> QED BY <1>6, <1>9, <1>10

(* Within a cycle the frame ends at most once, and the picture is published  *)
(* exactly when the beam passes the dot of the vertical blank.               *)
LEMMA DotsOfACycle ==
  ASSUME NEW p \in Clock
  PROVE  /\ Ran(p) \in Clock
         /\ \/ /\ DotOf(Ran(p)) = DotOf(p) + 3 /\ Ran(p).frames = p.frames
               /\ Ran(p).pictures =
                    p.pictures + IF DotOf(p) \in VblankDot - 1 .. VblankDot + 1 THEN 1 ELSE 0
            \/ /\ DotOf(p) >= FrameDots - 4 /\ DotOf(Ran(p)) \in 0 .. 2
               /\ Ran(p).frames = p.frames + 1 /\ Ran(p).pictures = p.pictures
<1>1. PICK q, r, s : q = TickOne(p) /\ r = TickOne(q) /\ s = TickOne(r)
  OBVIOUS
<1>2. q \in Clock /\ r \in Clock /\ s \in Clock
  BY <1>1, OneDot
<1>3. /\ q.pictures = p.pictures + IF DotOf(p) = VblankDot + 1 THEN 1 ELSE 0
      /\ \/ DotOf(q) = DotOf(p) + 1 /\ q.frames = p.frames
         \/ DotOf(p) >= FrameDots - 2 /\ DotOf(q) = 0 /\ q.frames = p.frames + 1
  BY <1>1, OneDot
<1>4. /\ r.pictures = q.pictures + IF DotOf(q) = VblankDot + 1 THEN 1 ELSE 0
      /\ \/ DotOf(r) = DotOf(q) + 1 /\ r.frames = q.frames
         \/ DotOf(q) >= FrameDots - 2 /\ DotOf(r) = 0 /\ r.frames = q.frames + 1
  BY <1>1, <1>2, OneDot
<1>5. /\ s.pictures = r.pictures + IF DotOf(r) = VblankDot + 1 THEN 1 ELSE 0
      /\ \/ DotOf(s) = DotOf(r) + 1 /\ s.frames = r.frames
         \/ DotOf(r) >= FrameDots - 2 /\ DotOf(s) = 0 /\ s.frames = r.frames + 1
  BY <1>1, <1>2, OneDot
<1>6. /\ DotOf(p) \in Nat /\ DotOf(q) \in Nat /\ DotOf(r) \in Nat /\ DotOf(s) \in Nat
      /\ DotOf(p) < FrameDots
  BY <1>2, DotIsPlace, FrameInDots
<1>7. /\ p.pictures \in Nat /\ p.frames \in Nat
      /\ FrameDots >= VblankDot + 8 /\ VblankDot >= 24 /\ VblankDot \in Nat /\ FrameDots \in Nat
  BY <1>2, FrameInDots DEF Clock
<1>8. Ran(p) = s
  BY <1>1 DEF Ran
<1>9. CASE DotOf(q) = DotOf(p) + 1 /\ DotOf(r) = DotOf(q) + 1 /\ DotOf(s) = DotOf(r) + 1
  <2>1. s.frames = p.frames
    BY <1>3, <1>4, <1>5, <1>6, <1>9
  <2>2. s.pictures = p.pictures + IF DotOf(p) \in VblankDot - 1 .. VblankDot + 1 THEN 1 ELSE 0
    BY <1>3, <1>4, <1>5, <1>6, <1>7, <1>9
  <2> QED BY <1>2, <1>6, <1>8, <1>9, <2>1, <2>2
<1>10. CASE ~(DotOf(q) = DotOf(p) + 1 /\ DotOf(r) = DotOf(q) + 1 /\ DotOf(s) = DotOf(r) + 1)
  <2>1. DotOf(p) >= FrameDots - 4 /\ DotOf(s) \in 0 .. 2 /\ s.frames = p.frames + 1
    BY <1>3, <1>4, <1>5, <1>6, <1>7, <1>10
  <2>2. s.pictures = p.pictures
    BY <1>3, <1>4, <1>5, <1>6, <1>7, <2>1
  <2> QED BY <1>2, <1>8, <2>1, <2>2
<1> QED BY <1>9, <1>10

-----------------------------------------------------------------------------
(* The core begins with no interrupt and the reset's cycles to run.          *)
LEMMA CoreBegins == FrameInit => CoreIInv
<1> SUFFICES ASSUME FrameInit PROVE CoreIInv
  OBVIOUS
<1>0. ppu \in Clock
  <2>1. 0 \in 0 .. PreRender /\ 0 \in 0 .. DotsPerScanline - 1
    BY FrameInDots
  <2> QED BY <2>1 DEF FrameInit, Clock
<1>1. FrameTypeOK
  <2>1. latched = FALSE /\ canAccess = FALSE /\ owed = FALSE /\ fresh = FALSE
    BY DEF FrameInit
  <2>2. accesses = 0 /\ stall = 5 /\ spent = 0 /\ pc = "reset"
    BY DEF FrameInit, ResetCycles
  <2>3. latched \in BOOLEAN /\ canAccess \in BOOLEAN /\ owed \in BOOLEAN /\ fresh \in BOOLEAN
    BY <2>1
  <2>4. accesses \in 0 .. 8 /\ stall \in Nat /\ spent \in Nat
    BY <2>2
  <2> QED BY <1>0, <2>2, <2>3, <2>4 DEF FrameTypeOK
<1>2. NmiFollowed
  BY DEF FrameInit, NmiFollowed, NmiLine
<1>3. DotOf(ppu) = 0
  BY FrameInDots DEF FrameInit, DotOf
<1>4. FrameProgress
  BY <1>3 DEF FrameInit, FrameProgress, ResetCycles
<1> QED BY <1>1, <1>2, <1>4 DEF CoreIInv

(* A cycle keeps the types: what it does to the PPU and what it counts.      *)
LEMMA TickRuns ==
  ASSUME FrameTypeOK, Tick
  PROVE  /\ ppu' = [Ran(ppu) EXCEPT !.edge = FALSE] /\ ppu' \in Clock
         /\ DotOf(ppu') = DotOf(Ran(ppu)) /\ NmiLine(ppu') = NmiLine(Ran(ppu))
         /\ ppu'.frames = Ran(ppu).frames /\ ppu'.pictures = Ran(ppu).pictures
         /\ ppu'.previous = Ran(ppu).previous /\ ppu'.edge = FALSE
         /\ latched' = (latched \/ Ran(ppu).edge)
<1>1. PICK p : p = Ran(ppu)
  OBVIOUS
<1>2. p \in Clock
  BY <1>1, DotsOfACycle DEF FrameTypeOK
<1>3. ppu' = [p EXCEPT !.edge = FALSE] /\ latched' = (latched \/ p.edge)
  BY <1>1 DEF Tick, RunPpu, Ran
<1>4. PICK q : q = [p EXCEPT !.edge = FALSE]
  OBVIOUS
<1>5. q \in Clock
  BY <1>2, <1>4 DEF Clock
<1>6. /\ q.frames = p.frames /\ q.pictures = p.pictures /\ q.previous = p.previous
      /\ q.edge = FALSE /\ q.scanline = p.scanline /\ q.cycle = p.cycle
      /\ q.enable = p.enable /\ q.vblank = p.vblank
  BY <1>2, <1>4 DEF Clock
<1>7. DotOf(q) = DotOf(p) /\ NmiLine(q) = NmiLine(p)
  BY <1>6 DEF DotOf, NmiLine
<1> QED BY <1>1, <1>3, <1>4, <1>5, <1>6, <1>7

(* Two registers make the PPU look at its line again, once one flag of it    *)
(* has been set.                                                             *)
LEMMA AccessRefreshes ==
  ASSUME FrameTypeOK, ReadStatus \/ WriteCtrl
  PROVE  \E q \in Clock :
           /\ ppu' = RefreshNmiEdge(q) /\ q.previous = ppu.previous /\ q.edge = ppu.edge
           /\ q.scanline = ppu.scanline /\ q.cycle = ppu.cycle
           /\ q.frames = ppu.frames /\ q.pictures = ppu.pictures
<1>1. CASE ReadStatus
  <2>1. PICK q : q = [ppu EXCEPT !.vblank = FALSE]
    OBVIOUS
  <2>2. q \in Clock
    BY <2>1 DEF FrameTypeOK, Clock
  <2>3. /\ q.previous = ppu.previous /\ q.edge = ppu.edge
        /\ q.scanline = ppu.scanline /\ q.cycle = ppu.cycle
        /\ q.frames = ppu.frames /\ q.pictures = ppu.pictures
    BY <2>1 DEF FrameTypeOK, Clock
  <2>4. ppu' = RefreshNmiEdge(q)
    BY <1>1, <2>1 DEF ReadStatus
  <2> QED BY <2>2, <2>3, <2>4
<1>2. CASE WriteCtrl
  <2>1. PICK e \in BOOLEAN : ppu' = RefreshNmiEdge([ppu EXCEPT !.enable = e])
    BY <1>2 DEF WriteCtrl
  <2>2. PICK q : q = [ppu EXCEPT !.enable = e]
    OBVIOUS
  <2>3. q \in Clock
    BY <2>2 DEF FrameTypeOK, Clock
  <2>4. /\ q.previous = ppu.previous /\ q.edge = ppu.edge
        /\ q.scanline = ppu.scanline /\ q.cycle = ppu.cycle
        /\ q.frames = ppu.frames /\ q.pictures = ppu.pictures
    BY <2>2 DEF FrameTypeOK, Clock
  <2>5. ppu' = RefreshNmiEdge(q)
    BY <2>1, <2>2
  <2> QED BY <2>3, <2>4, <2>5
<1> QED BY <1>1, <1>2

(* The states stay of their types. *)
LEMMA FrameTypesKept ==
  ASSUME FrameTypeOK, [FrameNext]_frameVars
  PROVE  FrameTypeOK'
<1>1. CASE Tick
  <2>1. ppu' \in Clock
    BY <1>1, TickRuns
  <2>2. latched' \in BOOLEAN
    <3>1. latched' = (latched \/ Ran(ppu).edge)
      BY <1>1, TickRuns
    <3> QED BY <3>1
  <2>4. owed' \in BOOLEAN /\ fresh' \in BOOLEAN /\ canAccess' \in BOOLEAN
    <3>1. owed' = (owed \/ fresh \/ Rises) /\ fresh' = FALSE /\ canAccess' = (accesses > 0)
      BY <1>1 DEF Tick
    <3>2. owed' \in BOOLEAN /\ fresh' \in BOOLEAN
      BY <3>1, Zenon
    <3>3. (accesses > 0) \in BOOLEAN
      BY SMT DEF FrameTypeOK
    <3>4. canAccess' \in BOOLEAN
      BY <3>1, <3>3, Zenon
    <3> QED BY <3>2, <3>4
  <2>3. accesses' \in 0 .. 8 /\ stall' \in Nat /\ spent' \in Nat
    BY <1>1 DEF Tick, FrameTypeOK
  <2>5. pc' = pc
    BY <1>1 DEF Tick
  <2> QED BY <2>1, <2>2, <2>3, <2>4, <2>5 DEF FrameTypeOK
<1>2. CASE ReadStatus \/ WriteCtrl
  <2>1. PICK p \in Clock : ppu' = RefreshNmiEdge(p)
    BY <1>2, AccessRefreshes
  <2>2. ppu' \in Clock
    BY <2>1, RefreshKeeps
  <2>3. fresh' \in BOOLEAN
    BY <1>2 DEF ReadStatus, WriteCtrl
  <2>4. /\ accesses' = accesses /\ latched' = latched /\ pc' = pc /\ spent' = spent
        /\ owed' = owed /\ stall' = stall /\ canAccess' = FALSE
    BY <1>2 DEF ReadStatus, WriteCtrl, Access
  <2> QED BY <2>2, <2>3, <2>4 DEF FrameTypeOK
<1>3. CASE WriteMask
  <2>1. ppu' \in Clock
    <3>1. (~ppu.rendering) \in BOOLEAN
      OBVIOUS
    <3> QED BY <1>3, <3>1 DEF WriteMask, FrameTypeOK, Clock
  <2> QED BY <1>3, <2>1 DEF WriteMask, Access, FrameTypeOK
<1>4. CASE OamDma
  <2>1. /\ ppu' = ppu /\ latched' = latched /\ owed' = owed /\ fresh' = fresh
        /\ canAccess' = FALSE
    BY <1>4 DEF OamDma, Access
  <2>2. stall' \in Nat /\ accesses' = accesses /\ spent' = spent /\ pc' = pc
    BY <1>4, FrameInDots DEF OamDma, Access, FrameTypeOK
  <2> QED BY <2>1, <2>2 DEF FrameTypeOK
<1>5. CASE ServiceNmi
  <2>1. /\ ppu' = ppu /\ latched' = FALSE /\ owed' = FALSE /\ fresh' = fresh
        /\ canAccess' = FALSE
    BY <1>5 DEF ServiceNmi
  <2>2. stall' \in Nat /\ accesses' = accesses /\ spent' = spent /\ pc' = pc
    BY <1>5, FrameInDots DEF ServiceNmi, InterruptCycles
  <2> QED BY <2>1, <2>2 DEF FrameTypeOK
<1>6. CASE BeginInstruction
  <2>1. accesses' \in 0 .. 8 /\ stall' \in Nat
    BY <1>6, FrameInDots, FrameAssumption DEF BeginInstruction
  <2> QED BY <1>6, <2>1 DEF BeginInstruction, FrameTypeOK
<1>7. CASE BeginFrame
  <2>1. ppu' \in Clock
    BY <1>7 DEF BeginFrame, FrameTypeOK, Clock
  <2> QED BY <1>7, <2>1 DEF BeginFrame, cpu, FrameTypeOK
<1>8. CASE EndFrame
  BY <1>8 DEF EndFrame, FrameTypeOK
<1>9. CASE Reset
  <2>1. ppu' \in Clock
    <3>1. 0 \in 0 .. PreRender /\ 0 \in 0 .. DotsPerScanline - 1
      BY FrameInDots
    <3> QED BY <1>9, <3>1 DEF Reset, FrameTypeOK, Clock
  <2> QED BY <1>9, <2>1 DEF Reset, FrameTypeOK, ResetCycles
<1>10. CASE EndReset
  BY <1>10 DEF EndReset, cpu, FrameTypeOK
<1>11. CASE UNCHANGED frameVars
  BY <1>11 DEF frameVars, cpu, FrameTypeOK
<1> QED
  BY <1>1, <1>2, <1>3, <1>4, <1>5, <1>6, <1>7, <1>8, <1>9, <1>10, <1>11 DEF FrameNext

(* A register's access: what the edge detector makes of it is the line's     *)
(* rise, and the beam stays.                                                 *)
LEMMA AccessIsSeen ==
  ASSUME NEW p \in Clock, NEW q \in Clock, p.previous = NmiLine(p),
         q.previous = p.previous, q.edge = p.edge
  PROVE  /\ RefreshNmiEdge(q).previous = NmiLine(RefreshNmiEdge(q))
         /\ RefreshNmiEdge(q).edge =
              (p.edge \/ (NmiLine(RefreshNmiEdge(q)) /\ ~NmiLine(p)))
BY RefreshKeeps

(* However accesses, cycles and resets fall, the latch and the edge remain   *)
(* what the history says.                                                    *)
LEMMA NmiKept ==
  ASSUME FrameTypeOK, NmiFollowed, [FrameNext]_frameVars
  PROVE  NmiFollowed'
<1>1. CASE Tick
  <2>1. /\ Ran(ppu).previous = NmiLine(Ran(ppu))
        /\ Ran(ppu).edge = (ppu.edge \/ (NmiLine(Ran(ppu)) /\ ~NmiLine(ppu)))
    BY LineOfACycle DEF NmiFollowed, FrameTypeOK
  <2>2. /\ ppu'.previous = NmiLine(ppu') /\ ppu'.edge = FALSE
        /\ latched' = (latched \/ ppu.edge \/ Rises)
    BY <1>1, <2>1, TickRuns DEF Rises
  <2> QED BY <1>1, <2>2 DEF Tick, NmiFollowed
<1>2. CASE ReadStatus \/ WriteCtrl
  <2>1. PICK q \in Clock :
          ppu' = RefreshNmiEdge(q) /\ q.previous = ppu.previous /\ q.edge = ppu.edge
    BY <1>2, AccessRefreshes
  <2>2. /\ ppu'.previous = NmiLine(ppu')
        /\ ppu'.edge = (ppu.edge \/ (NmiLine(ppu') /\ ~NmiLine(ppu)))
    BY <2>1, AccessIsSeen DEF NmiFollowed, FrameTypeOK
  <2> QED BY <1>2, <2>2 DEF ReadStatus, WriteCtrl, Access, Rises, NmiFollowed
<1>3. CASE WriteMask \/ BeginFrame
  <2>1. /\ ppu'.previous = ppu.previous /\ ppu'.edge = ppu.edge
        /\ ppu'.enable = ppu.enable /\ ppu'.vblank = ppu.vblank
    BY <1>3 DEF WriteMask, BeginFrame, FrameTypeOK, Clock
  <2> QED BY <1>3, <2>1 DEF WriteMask, BeginFrame, Access, NmiFollowed, NmiLine
<1>4. CASE Reset
  <2>1. ppu'.previous = FALSE /\ ppu'.edge = FALSE /\ ppu'.enable = FALSE
    BY <1>4 DEF Reset, FrameTypeOK, Clock
  <2> QED BY <1>4, <2>1 DEF Reset, NmiFollowed, NmiLine
<1>5. CASE ServiceNmi
  BY <1>5 DEF ServiceNmi, NmiFollowed, NmiLine
<1>6. CASE OamDma \/ BeginInstruction \/ EndFrame \/ EndReset \/ UNCHANGED frameVars
  BY <1>6 DEF OamDma, Access, BeginInstruction, EndFrame, EndReset, frameVars, NmiFollowed, NmiLine
<1> QED BY <1>1, <1>2, <1>3, <1>4, <1>5, <1>6 DEF FrameNext

(* Whatever an access does, the beam stays and nothing is published.         *)
LEMMA AccessKeepsPlace ==
  ASSUME FrameTypeOK, ReadStatus \/ WriteCtrl \/ WriteMask
  PROVE  DotOf(ppu') = DotOf(ppu) /\ ppu'.frames = ppu.frames /\ ppu'.pictures = ppu.pictures
<1>1. CASE WriteMask
  BY <1>1 DEF WriteMask, DotOf, FrameTypeOK, Clock
<1>2. CASE ReadStatus \/ WriteCtrl
  <2>1. PICK q \in Clock :
          /\ ppu' = RefreshNmiEdge(q) /\ q.scanline = ppu.scanline /\ q.cycle = ppu.cycle
          /\ q.frames = ppu.frames /\ q.pictures = ppu.pictures
    BY <1>2, AccessRefreshes
  <2> QED BY <2>1, RefreshKeeps DEF DotOf
<1> QED BY <1>1, <1>2

(* A cycle of the frame moves the beam by its three dots, or ends the frame  *)
(* with what is left of the step in front of the next vertical blank.        *)
LEMMA TickProgresses ==
  ASSUME FrameTypeOK, FrameProgress, Tick
  PROVE  FrameProgress'
<1>1. PICK d \in Nat, e \in Nat :
        /\ d = DotOf(ppu) /\ e = DotOf(ppu') /\ d < FrameDots /\ e < FrameDots
        /\ \/ /\ e = d + 3 /\ ppu'.frames = ppu.frames
              /\ ppu'.pictures = ppu.pictures
                                 + IF d \in VblankDot - 1 .. VblankDot + 1 THEN 1 ELSE 0
           \/ /\ d >= FrameDots - 4 /\ e \in 0 .. 2
              /\ ppu'.frames = ppu.frames + 1 /\ ppu'.pictures = ppu.pictures
  <2>1. PICK p \in Clock : p = ppu'
    BY TickRuns
  <2>2. DotOf(ppu) \in 0 .. FrameDots - 1 /\ DotOf(p) \in 0 .. FrameDots - 1
    BY DotIsPlace DEF FrameTypeOK
  <2>3. /\ \/ /\ DotOf(Ran(ppu)) = DotOf(ppu) + 3 /\ Ran(ppu).frames = ppu.frames
              /\ Ran(ppu).pictures =
                   ppu.pictures + IF DotOf(ppu) \in VblankDot - 1 .. VblankDot + 1 THEN 1 ELSE 0
           \/ /\ DotOf(ppu) >= FrameDots - 4 /\ DotOf(Ran(ppu)) \in 0 .. 2
              /\ Ran(ppu).frames = ppu.frames + 1 /\ Ran(ppu).pictures = ppu.pictures
    BY DotsOfACycle DEF FrameTypeOK
  <2>4. /\ DotOf(ppu') = DotOf(Ran(ppu)) /\ ppu'.frames = Ran(ppu).frames
        /\ ppu'.pictures = Ran(ppu).pictures
    BY TickRuns
  <2>5. /\ DotOf(ppu) \in Nat /\ DotOf(ppu) < FrameDots
        /\ DotOf(ppu') \in Nat /\ DotOf(ppu') < FrameDots
    BY <2>1, <2>2, FrameInDots
  <2> QED BY <2>3, <2>4, <2>5
<1>2. /\ FrameDots \in Nat /\ VblankDot \in Nat /\ FrameDots >= VblankDot + 8 /\ VblankDot >= 24
      /\ 3 * LongestStep <= VblankDot /\ DmaStall \in Nat /\ DmcStall \in Nat
      /\ FrameDots <= 3 * SafetyLimit /\ LongestStep \in Nat
  BY FrameInDots
<1>3. /\ accesses \in 0 .. 8 /\ stall \in Nat /\ spent \in Nat
      /\ accesses + stall > 0
      /\ accesses > 0 => accesses' = accesses - 1 /\ stall' = stall
      /\ accesses = 0 => stall' = stall - 1 /\ accesses' = 0 /\ ~canAccess'
      /\ pc' = pc /\ (pc = "frame" => spent' = spent + 1)
  <2>1. /\ accesses \in 0 .. 8 /\ stall \in Nat /\ spent \in Nat
        /\ accesses + stall > 0
        /\ accesses > 0 => accesses' = accesses - 1 /\ stall' = stall
        /\ accesses = 0 => stall' = stall - 1 /\ accesses' = 0
        /\ pc' = pc /\ (pc = "frame" => spent' = spent + 1)
    BY DEF Tick, FrameTypeOK
  <2>2. canAccess' = (accesses > 0)
    BY DEF Tick
  <2>3. accesses = 0 => ~(accesses > 0)
    BY SMT
  <2>4. accesses = 0 => ~canAccess'
    BY <2>2, <2>3, Zenon
  <2> QED BY <2>1, <2>4
<1>4. pc # "frame" => ~canAccess' /\ accesses' = 0
  BY <1>3 DEF FrameProgress
<1>5. pc # "host"
  BY <1>3 DEF FrameProgress
<1>6. pc = "reset" => e + 3 * stall' <= 3 * ResetCycles
  BY <1>1, <1>2, <1>3, <1>4 DEF FrameProgress, ResetCycles
<1>7. ASSUME pc = "frame"
      PROVE  /\ StepBound' /\ ppu'.frames \in {0, 1}
             /\ ppu'.frames = 0 =>
                  3 * spent' <= e /\ ppu'.pictures = IF e > VblankDot + 1 THEN 1 ELSE 0
             /\ ppu'.frames = 1 =>
                  /\ ppu'.pictures = 1 /\ e + 3 * (accesses' + stall') < 3 * LongestStep
                  /\ canAccess' \/ accesses' > 0 => e + 3 * accesses' < 24
  <2>1. /\ StepBound /\ ppu.frames \in {0, 1}
        /\ ppu.frames = 0 => 3 * spent <= d /\ ppu.pictures = IF d > VblankDot + 1 THEN 1 ELSE 0
        /\ ppu.frames = 1 =>
             /\ ppu.pictures = 1 /\ d + 3 * (accesses + stall) < 3 * LongestStep
             /\ canAccess \/ accesses > 0 => d + 3 * accesses < 24
    BY <1>1, <1>7 DEF FrameProgress
  <2>2. /\ stall <= DmcStall + 2 * DmaStall + InterruptCycles
        /\ accesses > 0 => stall <= DmcStall + 2 * DmaStall
    BY <1>2, <1>3, <2>1 DEF StepBound, InterruptCycles
  <2>3. StepBound'
    BY <1>2, <1>3, <2>2 DEF StepBound, InterruptCycles
  <2>4. CASE ppu.frames = 0 /\ e = d + 3 /\ ppu'.frames = 0
    BY <1>1, <1>2, <1>3, <1>7, <2>1, <2>3, <2>4
  <2>5. CASE ppu.frames = 0 /\ d >= FrameDots - 4 /\ e \in 0 .. 2 /\ ppu'.frames = 1
    <3>1. ppu'.pictures = 1
      BY <1>1, <1>2, <2>1, <2>5
    <3>2. e + 3 * (accesses' + stall') < 3 * LongestStep
      BY <1>2, <1>3, <2>2, <2>5 DEF LongestStep, InterruptCycles
    <3>3. canAccess' \/ accesses' > 0 => e + 3 * accesses' < 24
      BY <1>3, <2>5
    <3> QED BY <2>3, <2>5, <3>1, <3>2, <3>3
  <2>6. CASE ppu.frames = 1
    <3>1. /\ e = d + 3 /\ ppu'.frames = 1
          /\ d + 3 < VblankDot
      BY <1>1, <1>2, <1>3, <2>1, <2>6
    <3>2. ppu'.pictures = 1
      BY <1>1, <1>2, <2>1, <2>6, <3>1
    <3>3. /\ e + 3 * (accesses' + stall') < 3 * LongestStep
          /\ canAccess' \/ accesses' > 0 => e + 3 * accesses' < 24
      BY <1>3, <2>1, <2>6, <3>1
    <3> QED BY <2>3, <3>1, <3>2, <3>3
  <2> QED BY <1>1, <2>1, <2>4, <2>5, <2>6
<1> QED BY <1>1, <1>3, <1>4, <1>5, <1>6, <1>7 DEF FrameProgress

(* When the loop ends it is because the frame is done: the limit on cycles   *)
(* is out of a frame's reach.                                                *)
LEMMA FrameEndsEarly ==
  ASSUME FrameTypeOK, FrameProgress, EndFrame
  PROVE  DotOf(ppu) < VblankDot /\ ppu.frames = 1
<1>1. DotOf(ppu) \in Nat /\ DotOf(ppu) < FrameDots
  BY DotIsPlace, FrameInDots DEF FrameTypeOK
<1>2. /\ pc = "frame" /\ accesses = 0 /\ stall = 0
      /\ ppu.frames # 0 \/ ~(spent < SafetyLimit)
  BY DEF EndFrame, Idle, LoopsOn
<1>3. ppu.frames # 0
  BY <1>1, <1>2, FrameInDots DEF FrameProgress, FrameTypeOK
<1> QED BY <1>1, <1>2, <1>3, FrameInDots DEF FrameProgress

(* The frame's call makes progress as its places do. *)
LEMMA ProgressKept ==
  ASSUME FrameTypeOK, FrameProgress, [FrameNext]_frameVars
  PROVE  FrameProgress'
<1>1. CASE Tick
  BY <1>1, TickProgresses
<1>2. CASE ReadStatus \/ WriteCtrl \/ WriteMask
  <2>1. DotOf(ppu') = DotOf(ppu) /\ ppu'.frames = ppu.frames /\ ppu'.pictures = ppu.pictures
    BY <1>2, AccessKeepsPlace
  <2>2. /\ canAccess /\ ~canAccess' /\ accesses' = accesses /\ stall' = stall
        /\ pc' = pc /\ spent' = spent
    BY <1>2 DEF ReadStatus, WriteCtrl, WriteMask, Access
  <2>3. pc = "frame" => StepBound'
    BY <2>2, FrameInDots DEF FrameProgress, StepBound, FrameTypeOK, InterruptCycles
  <2> QED BY <2>1, <2>2, <2>3 DEF FrameProgress
<1>3. CASE OamDma
  <2>1. /\ canAccess /\ ~canAccess' /\ accesses' = accesses /\ stall' = stall + DmaStall
        /\ stall <= DmcStall + DmaStall
        /\ pc' = pc /\ spent' = spent /\ ppu' = ppu /\ pc = "frame"
    BY <1>3 DEF OamDma, Access, FrameProgress, FrameTypeOK
  <2>2. StepBound'
    BY <2>1, FrameInDots DEF StepBound, FrameTypeOK, InterruptCycles
  <2>3. ppu.frames = 1 => DotOf(ppu') + 3 * (accesses' + stall') < 3 * LongestStep
    <3>1. DotOf(ppu) \in Nat
      BY DotIsPlace, FrameInDots DEF FrameTypeOK
    <3> QED BY <2>1, <3>1, FrameInDots DEF FrameProgress, LongestStep, FrameTypeOK
  <2> QED BY <2>1, <2>2, <2>3 DEF FrameProgress
<1>4. CASE ServiceNmi \/ BeginInstruction
  <2>1. /\ ppu.frames = 0 /\ ppu' = ppu /\ pc' = pc /\ pc = "frame" /\ spent' = spent
        /\ canAccess' = FALSE
    BY <1>4 DEF ServiceNmi, BeginInstruction, LoopsOn
  <2>2. StepBound'
    BY <1>4, <2>1, FrameInDots
    DEF ServiceNmi, BeginInstruction, LoopsOn, Idle, StepBound, InterruptCycles
  <2> QED BY <2>1, <2>2 DEF FrameProgress
<1>5. CASE BeginFrame
  <2>1. /\ ppu'.frames = 0 /\ ppu'.pictures = 0
        /\ ppu'.scanline = ppu.scanline /\ ppu'.cycle = ppu.cycle
    BY <1>5 DEF BeginFrame, FrameTypeOK, Clock
  <2>2. DotOf(ppu') = DotOf(ppu) /\ DotOf(ppu) \in Nat
    BY <2>1, DotIsPlace, FrameInDots DEF DotOf, FrameTypeOK
  <2>3. /\ ~canAccess' /\ accesses' = 0 /\ stall' = 0 /\ spent' = 0 /\ pc' = "frame"
        /\ DotOf(ppu) < VblankDot
    BY <1>5 DEF BeginFrame, FrameProgress, cpu, FrameTypeOK
  <2>4. StepBound'
    BY <2>3, FrameInDots DEF StepBound, InterruptCycles
  <2> QED BY <2>1, <2>2, <2>3, <2>4, FrameInDots DEF FrameProgress
<1>6. CASE EndFrame
  <2>1. /\ ppu' = ppu /\ accesses' = 0 /\ stall' = 0 /\ ~canAccess' /\ pc' = "host"
    BY <1>6 DEF EndFrame, Idle
  <2>2. DotOf(ppu) < VblankDot
    BY <1>6, FrameEndsEarly
  <2> QED BY <2>1, <2>2 DEF FrameProgress
<1>7. CASE Reset
  <2>1. ppu'.scanline = 0 /\ ppu'.cycle = 0
    BY <1>7 DEF Reset, FrameTypeOK, Clock
  <2>2. DotOf(ppu') = 0
    BY <2>1, FrameInDots DEF DotOf
  <2> QED BY <1>7, <2>2 DEF Reset, FrameProgress, ResetCycles
<1>8. CASE EndReset
  <2>1. DotOf(ppu) < VblankDot
    <3>1. DotOf(ppu) \in Nat
      BY DotIsPlace, FrameInDots DEF FrameTypeOK
    <3> QED BY <1>8, <3>1, FrameInDots DEF EndReset, Idle, FrameProgress, ResetCycles
  <2> QED BY <1>8, <2>1 DEF EndReset, Idle, FrameProgress, cpu
<1>9. CASE UNCHANGED frameVars
  BY <1>9 DEF frameVars, cpu, FrameProgress, StepBound, DotOf
<1> QED
  BY <1>1, <1>2, <1>3, <1>4, <1>5, <1>6, <1>7, <1>8, <1>9 DEF FrameNext

(* Every step keeps the invariant. *)
LEMMA CoreKept ==
  ASSUME CoreIInv, [FrameNext]_frameVars
  PROVE  CoreIInv'
BY FrameTypesKept, NmiKept, ProgressKept DEF CoreIInv

-----------------------------------------------------------------------------
(* Every call of step_frame makes one frame and one picture, and ends before *)
(* the next vertical blank, whatever the program accesses, at any length of  *)
(* lines, instructions and DMAs that FrameAssumption admits.                 *)
THEOREM OnePicturePerFrameHolds == FrameSpec => OnePicturePerFrame
<1>1. CoreIInv /\ [FrameNext]_frameVars
        => [EndFrame => /\ ppu.frames = 1 /\ ppu.pictures = 1
                        /\ ppu.scanline < VblankStart]_frameVars
  <2> SUFFICES ASSUME CoreIInv, EndFrame
               PROVE  ppu.frames = 1 /\ ppu.pictures = 1 /\ ppu.scanline < VblankStart
    OBVIOUS
  <2>1. DotOf(ppu) < VblankDot /\ ppu.frames = 1
    BY FrameEndsEarly DEF CoreIInv
  <2> QED BY <2>1, DotIsPlace DEF CoreIInv, FrameTypeOK, FrameProgress, EndFrame
<1> QED BY <1>1, CoreBegins, CoreKept, PTL DEF FrameSpec, OnePicturePerFrame

(* An NMI is taken between two instructions exactly if the line has risen    *)
(* since the last one, however its rises fall on accesses, DMAs and resets.  *)
THEOREM NmiOnTimeHolds == FrameSpec => NmiOnTime
<1>1. CoreIInv /\ [FrameNext]_frameVars
        => [(ServiceNmi => owed) /\ (BeginInstruction => ~owed)]_frameVars
  BY DEF CoreIInv, NmiFollowed, ServiceNmi, BeginInstruction
<1> QED BY <1>1, CoreBegins, CoreKept, PTL DEF FrameSpec, NmiOnTime
=============================================================================
