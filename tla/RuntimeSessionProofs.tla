------------------------ MODULE RuntimeSessionProofs ------------------------
(***************************************************************************)
(* Proofs about RuntimeSession, for every set of buttons, every battery    *)
(* contents, every frame limit and every width of the frame counter.       *)
(***************************************************************************)
EXTENDS RuntimeSession, TLAPS

(* Who owns the thread: the handle is given up only by the call that joins   *)
(* it, and a host that is idle without the handle has a finished thread.     *)
Ownership ==
  /\ host # "idle" => ~join
  /\ ~join /\ host \in {"idle", "dropped"} => Finished
  /\ shutdown => Finished \/ host \in {"stopping", "dropping"}

(* The slot is filled once, by the thread's last step. *)
SlotFilledAtExit ==
  /\ emu # "exited" => slot = None
  /\ emu = "exited" => slot = IF HasBattery THEN ram ELSE None

(* Frames emulated since a flag was raised, by where the thread is: before   *)
(* the frame that was in flight has been stepped, none has.                  *)
LateFrames ==
  /\ (paused \/ shutdown) => lateFrames <= 1
  /\ (paused \/ shutdown) /\ emu \in {"poll1", "poll2", "step"} => lateFrames = 0
  /\ shutdown /\ ~paused /\ emu = "pauseCheck" => lateFrames = 0

(* The pacer's schedule is only out of date while the thread knows it is.    *)
StaleWhilePaused ==
  baseline = "stale" =>
    wasPaused /\ emu \in {"check", "pauseCheck", "napping", "snapshot", "exited"}

IInv == TypeOK /\ Ownership /\ SlotFilledAtExit /\ LateFrames /\ StaleWhilePaused

-----------------------------------------------------------------------------
(* What a poll leaves in the controllers is a set of buttons again. *)
LEMMA ButtonsAfterType ==
  ASSUME NEW old \in SUBSET Buttons, NEW prev \in SUBSET Buttons,
         NEW held \in SUBSET Buttons
  PROVE  ButtonsAfter(old, prev, held) \in SUBSET Buttons
BY DEF ButtonsAfter

(* The type invariant, on its own inductive. *)
THEOREM TypeCorrect == Spec => []TypeOK
<1>1. Init => TypeOK
  <2> SUFFICES ASSUME Init PROVE TypeOK
    OBVIOUS
  <2>1. NoButtons \in [Players -> SUBSET Buttons]
    BY DEF NoButtons
  <2>2. limit \in Nat \cup {NoLimit}
    BY LimitAssumption DEF Init
  <2>3. submitted \in 0 .. MaxCount /\ lateFrames \in 0 .. 2
    BY CountAssumption DEF Init
  <2>4. /\ inputs \in [Players -> SUBSET Buttons]
        /\ last \in [Players -> SUBSET Buttons]
        /\ controllers \in [Players -> SUBSET Buttons]
    BY <2>1 DEF Init
  <2>5. /\ slot \in Contents \cup {None} /\ ram \in Contents
        /\ shutdown \in BOOLEAN /\ paused \in BOOLEAN /\ join \in BOOLEAN
        /\ wasPaused \in BOOLEAN /\ baseline \in {"fresh", "stale"}
        /\ host = "idle" /\ emu = "check"
    BY DEF Init
  <2> QED BY <2>2, <2>3, <2>4, <2>5 DEF TypeOK, EmuStates
<1>2. TypeOK /\ [Next]_vars => TypeOK'
  <2> SUFFICES ASSUME TypeOK, [Next]_vars PROVE TypeOK'
    OBVIOUS
  <2> USE DEF TypeOK, EmuStates, shared, game, local
  <2>1. ASSUME NEW b \in BOOLEAN, SetPaused(b) PROVE TypeOK'
    BY <2>1 DEF SetPaused
  <2>2. ASSUME NEW p \in Players, NEW b \in Buttons, NEW pressed \in BOOLEAN,
               SetButton(p, b, pressed)
        PROVE  TypeOK'
    <3>1. inputs' \in [Players -> SUBSET Buttons]
      <4>1. inputs[p] \cup {b} \in SUBSET Buttons /\ inputs[p] \ {b} \in SUBSET Buttons
        OBVIOUS
      <4>2. CASE pressed
        BY <2>2, <4>1, <4>2 DEF SetButton
      <4>3. CASE ~pressed
        BY <2>2, <4>1, <4>3 DEF SetButton
      <4> QED BY <4>2, <4>3
    <3> QED BY <2>2, <3>1 DEF SetButton
  <2>3. ASSUME NEW call \in {"stopping", "dropping"}, RequestShutdown(call)
        PROVE  TypeOK'
    <3>1. host' \in {"stopping", "dropping", "dropped", "idle"}
      BY <2>3 DEF RequestShutdown
    <3>2. lateFrames' \in 0 .. 2
      BY <2>3 DEF RequestShutdown
    <3>3. /\ shutdown' \in BOOLEAN /\ join' \in BOOLEAN
          /\ UNCHANGED <<limit, paused, inputs, slot, emu, local, game>>
      BY <2>3 DEF RequestShutdown
    <3> QED BY <3>1, <3>2, <3>3
  <2>4. CASE Wait
    BY <2>4 DEF Wait
  <2>5. CASE JoinReturns
    BY <2>5 DEF JoinReturns
  <2>6. CASE CheckShutdown
    BY <2>6 DEF CheckShutdown
  <2>7. CASE CheckPaused
    BY <2>7 DEF CheckPaused
  <2>8. CASE NapOver
    BY <2>8 DEF NapOver
  <2>9. CASE CheckResumed
    BY <2>9 DEF CheckResumed
  <2>10. ASSUME NEW p \in Players, ApplyInputs(p) PROVE TypeOK'
    <3>1. ButtonsAfter(controllers[p], last[p], inputs[p]) \in SUBSET Buttons
      BY ButtonsAfterType
    <3>2. controllers' \in [Players -> SUBSET Buttons] /\ last' \in [Players -> SUBSET Buttons]
      BY <2>10, <3>1 DEF ApplyInputs
    <3> QED BY <2>10, <3>2 DEF ApplyInputs
  <2>11. CASE StepFrame
    BY <2>11 DEF StepFrame
  <2>12. CASE PushAudio
    BY <2>12 DEF PushAudio
  <2>13. CASE SubmitFrame
    BY <2>13, CountAssumption DEF SubmitFrame
  <2>14. CASE Pace
    BY <2>14 DEF Pace
  <2>15. CASE Snapshot
    BY <2>15 DEF Snapshot
  <2>16. CASE Panic
    BY <2>16 DEF Panic
  <2>17. CASE UNCHANGED vars
    BY <2>17 DEF vars
  <2> QED
    BY <2>1, <2>2, <2>3, <2>4, <2>5, <2>6, <2>7, <2>8, <2>9, <2>10, <2>11, <2>12,
       <2>13, <2>14, <2>15, <2>16, <2>17
    DEF Next, HostCall, EmuStep, Stop, Drop
<1> QED BY <1>1, <1>2, PTL DEF Spec

-----------------------------------------------------------------------------
(* Each part of IInv is kept by every step.                                   *)

(* Only the joining call gives the handle up, and it waits for the thread.   *)
LEMMA OwnershipKept ==
  ASSUME TypeOK, Ownership, [Next]_vars
  PROVE  Ownership'
<1> USE DEF TypeOK, EmuStates, Ownership, shared, game, local, Finished
<1>1. ASSUME NEW b \in BOOLEAN, SetPaused(b) PROVE Ownership'
  BY <1>1 DEF SetPaused
<1>2. ASSUME NEW p \in Players, NEW b \in Buttons, NEW pressed \in BOOLEAN,
             SetButton(p, b, pressed)
      PROVE  Ownership'
  BY <1>2 DEF SetButton
<1>3. ASSUME NEW call \in {"stopping", "dropping"}, RequestShutdown(call)
      PROVE  Ownership'
  BY <1>3 DEF RequestShutdown
<1>4. CASE Wait
  BY <1>4 DEF Wait
<1>5. CASE JoinReturns
  BY <1>5 DEF JoinReturns
<1>6. CASE CheckShutdown
  BY <1>6 DEF CheckShutdown
<1>7. CASE CheckPaused
  BY <1>7 DEF CheckPaused
<1>8. CASE NapOver
  BY <1>8 DEF NapOver
<1>9. CASE CheckResumed
  BY <1>9 DEF CheckResumed
<1>10. ASSUME NEW p \in Players, ApplyInputs(p) PROVE Ownership'
  BY <1>10 DEF ApplyInputs
<1>11. CASE StepFrame
  BY <1>11 DEF StepFrame
<1>12. CASE PushAudio
  BY <1>12 DEF PushAudio
<1>13. CASE SubmitFrame
  BY <1>13 DEF SubmitFrame
<1>14. CASE Pace
  BY <1>14 DEF Pace
<1>15. CASE Snapshot
  BY <1>15 DEF Snapshot
<1>16. CASE Panic
  BY <1>16 DEF Panic
<1>17. CASE UNCHANGED vars
  BY <1>17 DEF vars
<1> QED
  BY <1>1, <1>2, <1>3, <1>4, <1>5, <1>6, <1>7, <1>8, <1>9, <1>10, <1>11, <1>12,
     <1>13, <1>14, <1>15, <1>16, <1>17
  DEF Next, HostCall, EmuStep, Stop, Drop

(* The thread writes the slot once, after its last frame.                    *)
LEMMA SlotFilledAtExitKept ==
  ASSUME TypeOK, SlotFilledAtExit, [Next]_vars
  PROVE  SlotFilledAtExit'
<1> USE DEF TypeOK, EmuStates, SlotFilledAtExit, shared, game, local, Finished
<1>1. ASSUME NEW b \in BOOLEAN, SetPaused(b) PROVE SlotFilledAtExit'
  BY <1>1 DEF SetPaused
<1>2. ASSUME NEW p \in Players, NEW b \in Buttons, NEW pressed \in BOOLEAN,
             SetButton(p, b, pressed)
      PROVE  SlotFilledAtExit'
  BY <1>2 DEF SetButton
<1>3. ASSUME NEW call \in {"stopping", "dropping"}, RequestShutdown(call)
      PROVE  SlotFilledAtExit'
  BY <1>3 DEF RequestShutdown
<1>4. CASE Wait
  BY <1>4 DEF Wait
<1>5. CASE JoinReturns
  BY <1>5 DEF JoinReturns
<1>6. CASE CheckShutdown
  BY <1>6 DEF CheckShutdown
<1>7. CASE CheckPaused
  BY <1>7 DEF CheckPaused
<1>8. CASE NapOver
  BY <1>8 DEF NapOver
<1>9. CASE CheckResumed
  BY <1>9 DEF CheckResumed
<1>10. ASSUME NEW p \in Players, ApplyInputs(p) PROVE SlotFilledAtExit'
  BY <1>10 DEF ApplyInputs
<1>11. CASE StepFrame
  BY <1>11 DEF StepFrame
<1>12. CASE PushAudio
  BY <1>12 DEF PushAudio
<1>13. CASE SubmitFrame
  BY <1>13 DEF SubmitFrame
<1>14. CASE Pace
  BY <1>14 DEF Pace
<1>15. CASE Snapshot
  BY <1>15 DEF Snapshot
<1>16. CASE Panic
  BY <1>16 DEF Panic
<1>17. CASE UNCHANGED vars
  BY <1>17 DEF vars
<1> QED
  BY <1>1, <1>2, <1>3, <1>4, <1>5, <1>6, <1>7, <1>8, <1>9, <1>10, <1>11, <1>12,
     <1>13, <1>14, <1>15, <1>16, <1>17
  DEF Next, HostCall, EmuStep, Stop, Drop

(* Raising a flag lets at most the frame in flight complete.                 *)
LEMMA LateFramesKept ==
  ASSUME TypeOK, Ownership, LateFrames, [Next]_vars
  PROVE  LateFrames'
<1> USE DEF TypeOK, EmuStates, LateFrames, shared, game, local, Finished, Ownership
<1>1. ASSUME NEW b \in BOOLEAN, SetPaused(b) PROVE LateFrames'
  BY <1>1 DEF SetPaused
<1>2. ASSUME NEW p \in Players, NEW b \in Buttons, NEW pressed \in BOOLEAN,
             SetButton(p, b, pressed)
      PROVE  LateFrames'
  BY <1>2 DEF SetButton
<1>3. ASSUME NEW call \in {"stopping", "dropping"}, RequestShutdown(call)
      PROVE  LateFrames'
  BY <1>3 DEF RequestShutdown
<1>4. CASE Wait
  BY <1>4 DEF Wait
<1>5. CASE JoinReturns
  BY <1>5 DEF JoinReturns
<1>6. CASE CheckShutdown
  BY <1>6 DEF CheckShutdown
<1>7. CASE CheckPaused
  BY <1>7 DEF CheckPaused
<1>8. CASE NapOver
  BY <1>8 DEF NapOver
<1>9. CASE CheckResumed
  BY <1>9 DEF CheckResumed
<1>10. ASSUME NEW p \in Players, ApplyInputs(p) PROVE LateFrames'
  BY <1>10 DEF ApplyInputs
<1>11. CASE StepFrame
  BY <1>11 DEF StepFrame
<1>12. CASE PushAudio
  BY <1>12 DEF PushAudio
<1>13. CASE SubmitFrame
  BY <1>13 DEF SubmitFrame
<1>14. CASE Pace
  BY <1>14 DEF Pace
<1>15. CASE Snapshot
  BY <1>15 DEF Snapshot
<1>16. CASE Panic
  BY <1>16 DEF Panic
<1>17. CASE UNCHANGED vars
  BY <1>17 DEF vars
<1> QED
  BY <1>1, <1>2, <1>3, <1>4, <1>5, <1>6, <1>7, <1>8, <1>9, <1>10, <1>11, <1>12,
     <1>13, <1>14, <1>15, <1>16, <1>17
  DEF Next, HostCall, EmuStep, Stop, Drop

(* The thread re-anchors the pacer before it runs a frame after a pause.     *)
LEMMA StaleWhilePausedKept ==
  ASSUME TypeOK, StaleWhilePaused, [Next]_vars
  PROVE  StaleWhilePaused'
<1> USE DEF TypeOK, EmuStates, StaleWhilePaused, shared, game, local, Finished
<1>1. ASSUME NEW b \in BOOLEAN, SetPaused(b) PROVE StaleWhilePaused'
  BY <1>1 DEF SetPaused
<1>2. ASSUME NEW p \in Players, NEW b \in Buttons, NEW pressed \in BOOLEAN,
             SetButton(p, b, pressed)
      PROVE  StaleWhilePaused'
  BY <1>2 DEF SetButton
<1>3. ASSUME NEW call \in {"stopping", "dropping"}, RequestShutdown(call)
      PROVE  StaleWhilePaused'
  BY <1>3 DEF RequestShutdown
<1>4. CASE Wait
  BY <1>4 DEF Wait
<1>5. CASE JoinReturns
  BY <1>5 DEF JoinReturns
<1>6. CASE CheckShutdown
  BY <1>6 DEF CheckShutdown
<1>7. CASE CheckPaused
  BY <1>7 DEF CheckPaused
<1>8. CASE NapOver
  BY <1>8 DEF NapOver
<1>9. CASE CheckResumed
  BY <1>9 DEF CheckResumed
<1>10. ASSUME NEW p \in Players, ApplyInputs(p) PROVE StaleWhilePaused'
  BY <1>10 DEF ApplyInputs
<1>11. CASE StepFrame
  BY <1>11 DEF StepFrame
<1>12. CASE PushAudio
  BY <1>12 DEF PushAudio
<1>13. CASE SubmitFrame
  BY <1>13 DEF SubmitFrame
<1>14. CASE Pace
  BY <1>14 DEF Pace
<1>15. CASE Snapshot
  BY <1>15 DEF Snapshot
<1>16. CASE Panic
  BY <1>16 DEF Panic
<1>17. CASE UNCHANGED vars
  BY <1>17 DEF vars
<1> QED
  BY <1>1, <1>2, <1>3, <1>4, <1>5, <1>6, <1>7, <1>8, <1>9, <1>10, <1>11, <1>12,
     <1>13, <1>14, <1>15, <1>16, <1>17
  DEF Next, HostCall, EmuStep, Stop, Drop

-----------------------------------------------------------------------------
(* IInv holds in every reachable state: it is what ties the flags, the       *)
(* thread's place in its loop, the slot and the host's call together.        *)
THEOREM InvariantHolds == Spec => []IInv
<1>1. Init => Ownership /\ SlotFilledAtExit /\ LateFrames /\ StaleWhilePaused
  BY DEF Init, Ownership, SlotFilledAtExit, LateFrames, StaleWhilePaused
<1>2. TypeOK /\ IInv /\ [Next]_vars
        => (Ownership /\ SlotFilledAtExit /\ LateFrames /\ StaleWhilePaused)'
  BY OwnershipKept, SlotFilledAtExitKept, LateFramesKept, StaleWhilePausedKept DEF IInv
<1>3. Spec => []TypeOK
  BY TypeCorrect
<1>4. TypeOK /\ Ownership /\ SlotFilledAtExit /\ LateFrames /\ StaleWhilePaused <=> IInv
  BY DEF IInv
<1> QED BY <1>1, <1>2, <1>3, <1>4, PTL DEF Spec

(* A stop, wait or drop that has returned left no emulation thread running,  *)
(* and unless the thread panicked the slot holds the RAM of its last frame.  *)
THEOREM ReturnIsFinal == Spec => []ReturnMeansFinal
<1>1. IInv => ReturnMeansFinal
  BY DEF IInv, Ownership, SlotFilledAtExit, ReturnMeansFinal, Returned
<1> QED BY <1>1, InvariantHolds, PTL

(* Pausing or stopping lets at most the frame that was in flight complete.   *)
THEOREM LateFrameBound == Spec => []AtMostOneLateFrame
<1>1. IInv => AtMostOneLateFrame
  BY DEF IInv, LateFrames, AtMostOneLateFrame
<1> QED BY <1>1, InvariantHolds, PTL

(* No frame runs against deadlines from before a pause. *)
THEOREM ResumeIsPaced == Spec => []NoRushAfterPause
<1>1. IInv => NoRushAfterPause
  BY DEF IInv, TypeOK, StaleWhilePaused, NoRushAfterPause
<1> QED BY <1>1, InvariantHolds, PTL

-----------------------------------------------------------------------------
(* Every step of the two threads is a step of the contract, or none: the     *)
(* frame is Play, the snapshot End, the unwinding Fail and the joining call's *)
(* return Return; everything else the contract's host cannot see.            *)
LEMMA StepKeepsContract ==
  ASSUME IInv, IInv', [Next]_vars
  PROVE  [Contract!Next]_(Contract!contractVars)
<1> USE DEF Contract!contractVars, Finished, Returned, shared, game, local
<1>1. ASSUME NEW b \in BOOLEAN, SetPaused(b)
      PROVE  UNCHANGED Contract!contractVars
  BY <1>1 DEF SetPaused
<1>2. ASSUME NEW p \in Players, NEW b \in Buttons, NEW pressed \in BOOLEAN,
             SetButton(p, b, pressed)
      PROVE  UNCHANGED Contract!contractVars
  BY <1>2 DEF SetButton
<1>3. ASSUME NEW call \in {"stopping", "dropping"}, RequestShutdown(call)
      PROVE  UNCHANGED Contract!contractVars
  BY <1>3 DEF RequestShutdown
<1>4. CASE Wait
  BY <1>4 DEF Wait
<1>5. CASE JoinReturns
  <2>1. ~Returned /\ Returned'
    BY <1>5 DEF JoinReturns, IInv, Ownership
  <2> QED BY <1>5, <2>1 DEF JoinReturns, Contract!Next, Contract!Return
<1>6. CASE CheckShutdown
  BY <1>6 DEF CheckShutdown
<1>7. CASE CheckPaused
  BY <1>7 DEF CheckPaused
<1>8. CASE NapOver
  BY <1>8 DEF NapOver
<1>9. CASE CheckResumed
  BY <1>9 DEF CheckResumed
<1>10. ASSUME NEW p \in Players, ApplyInputs(p)
       PROVE  UNCHANGED Contract!contractVars
  BY <1>10 DEF ApplyInputs
<1>11. CASE StepFrame
  <2>1. Contract!Play
    BY <1>11 DEF StepFrame, Contract!Play, IInv, TypeOK
  <2> QED BY <2>1 DEF Contract!Next
<1>12. CASE PushAudio
  BY <1>12 DEF PushAudio
<1>13. CASE SubmitFrame
  BY <1>13 DEF SubmitFrame
<1>14. CASE Pace
  BY <1>14 DEF Pace
<1>15. CASE Snapshot
  <2>1. Contract!End
    BY <1>15 DEF Snapshot, Contract!End
  <2> QED BY <2>1 DEF Contract!Next
<1>16. CASE Panic
  <2>1. Contract!Fail
    BY <1>16 DEF Panic, Contract!Fail
  <2> QED BY <2>1 DEF Contract!Next
<1>17. CASE UNCHANGED vars
  BY <1>17 DEF vars
<1> QED
  BY <1>1, <1>2, <1>3, <1>4, <1>5, <1>6, <1>7, <1>8, <1>9, <1>10, <1>11, <1>12,
     <1>13, <1>14, <1>15, <1>16, <1>17
  DEF Next, HostCall, EmuStep, Stop, Drop

(* The threads together keep the session's contract with its host.           *)
THEOREM ImplementsContract == Spec => KeepsContract
<1>1. Init => Contract!Init
  BY DEF Init, Contract!Init, Finished, Returned
<1>2. IInv /\ IInv' /\ [Next]_vars => [Contract!Next]_(Contract!contractVars)
  BY StepKeepsContract
<1> QED BY <1>1, <1>2, InvariantHolds, PTL DEF Spec, KeepsContract, Contract!ContractSpec
=============================================================================
