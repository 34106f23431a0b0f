--------------------------- MODULE RuntimeSession ---------------------------
(***************************************************************************)
(* nessie-runtime's Session (crates/nessie-runtime/src/session.rs): a host *)
(* thread that owns the Session handle, and the emulation thread it        *)
(* spawned.  They share two atomic flags (shutdown, paused), one atomic    *)
(* button bitmap per player and the battery slot.  Every access to a       *)
(* shared atomic is a step of its own; what the emulation thread does to   *)
(* its own state between two such accesses is part of the step.            *)
(*                                                                         *)
(* The bitmaps are sets of buttons.  The cartridge's battery RAM is an     *)
(* element of Contents, which every emulated frame may replace.  The u64   *)
(* frame counter saturates at MaxCount instead of 2^64 - 1.                *)
(***************************************************************************)
EXTENDS Integers

CONSTANTS
  Buttons,      \* the buttons of one controller
  Contents,     \* what the battery RAM can hold
  HasBattery,   \* whether the cartridge has battery RAM and a slot was given
  NoLimit,      \* stop_after_frames = None
  Limits,       \* values SessionOptions.stop_after_frames may have
  MaxCount,     \* the largest value of the frame counter (u64::MAX)
  None          \* an empty battery slot

ASSUME CountAssumption == MaxCount \in Nat \ {0}
ASSUME LimitAssumption == NoLimit \notin Nat /\ Limits \subseteq Nat \cup {NoLimit}
ASSUME BatteryAssumption ==
  HasBattery \in BOOLEAN /\ Contents # {} /\ None \notin Contents

Players == {1, 2}

VARIABLES
  limit,        \* options.stop_after_frames, fixed when the thread starts
  shutdown,     \* AtomicBool: the host asked the thread to exit
  paused,       \* AtomicBool: the host froze emulation
  inputs,       \* AtomicU8 per player: buttons the host reports as held
  slot,         \* BatteryOut: the final battery snapshot, or None
  join,         \* the JoinHandle is still in the Session
  host,         \* what the host thread is doing with the Session
  emu,          \* where the emulation thread is in run_emulation
  last,         \* last_inputs, local to the emulation thread
  controllers,  \* the two controllers' button state inside the Nes
  ram,          \* the cartridge's battery RAM inside the Nes
  submitted,    \* frames handed to the frame sink, saturating
  wasPaused,    \* was_paused, local to the emulation thread
  baseline,     \* "fresh": the pacer's deadlines follow real time;
                \* "stale": a pause passed since the pacer was last in step
  lateFrames    \* history: frames emulated since shutdown or paused was set

shared   == <<limit, shutdown, paused, inputs>>
game     == <<controllers, ram>>
local    == <<last, submitted, wasPaused, baseline>>
vars == <<limit, shutdown, paused, inputs, slot, join, host, emu, last, controllers,
          ram, submitted, wasPaused, baseline, lateFrames>>

EmuStates == {"check", "pauseCheck", "napping", "poll1", "poll2", "step",
              "push", "submit", "pace", "snapshot", "exited", "panicked"}

(* The thread has exited; join() returns. *)
Finished == emu \in {"exited", "panicked"}

NoButtons == [p \in Players |-> {}]

Init ==
  /\ limit \in Limits
  /\ shutdown = FALSE /\ paused = FALSE /\ inputs = NoButtons
  /\ slot = None
  /\ join = TRUE /\ host = "idle"
  /\ emu = "check"
  /\ last = NoButtons /\ controllers = NoButtons
  /\ ram \in Contents
  /\ submitted = 0 /\ wasPaused = FALSE /\ baseline = "fresh"
  /\ lateFrames = 0

-----------------------------------------------------------------------------
(* The host thread.  stop, wait and drop take the Session exclusively, so no *)
(* other call runs while one of them blocks in join().                        *)

SetPaused(b) ==
  /\ host = "idle"
  /\ paused' = b
  /\ lateFrames' = IF b /\ ~paused /\ ~shutdown THEN 0 ELSE lateFrames
  /\ UNCHANGED <<limit, shutdown, inputs, slot, join, host, emu, local, game>>

SetButton(p, b, pressed) ==
  /\ host = "idle"
  /\ inputs' = [inputs EXCEPT ![p] = IF pressed THEN @ \cup {b} ELSE @ \ {b}]
  /\ UNCHANGED <<limit, shutdown, paused, slot, join, host, emu, local, game, lateFrames>>

(* A slip: a second stop, or a drop, that does not wait for the first one's
   thread is harmless, but one that only raises the flag returns too early.  *)
StopWithoutJoin(call) ==
  /\ host = "idle"
  /\ shutdown' = TRUE
  /\ lateFrames' = IF shutdown \/ paused THEN lateFrames ELSE 0
  /\ host' = IF call = "dropping" THEN "dropped" ELSE "idle"
  /\ join' = FALSE
  /\ UNCHANGED <<limit, paused, inputs, slot, emu, local, game>>

(* stop and drop: raise the flag, then join the thread if nobody has yet.    *)
RequestShutdown(call) ==
  /\ host = "idle"
  /\ shutdown' = TRUE
  /\ lateFrames' = IF shutdown \/ paused THEN lateFrames ELSE 0
  /\ host' = IF join THEN call
             ELSE IF call = "dropping" THEN "dropped" ELSE "idle"
  /\ join' = FALSE
  /\ UNCHANGED <<limit, paused, inputs, slot, emu, local, game>>

Stop == RequestShutdown("stopping")
Drop == RequestShutdown("dropping")

(* wait: join without asking the thread to exit. *)
Wait ==
  /\ host = "idle" /\ join
  /\ join' = FALSE /\ host' = "waiting"
  /\ UNCHANGED <<shared, slot, emu, local, game, lateFrames>>

(* join() returns once the thread is gone; a panic in it is only logged by   *)
(* stop, dropped by drop and reported by wait, and changes nothing here.     *)
JoinReturns ==
  /\ host \in {"stopping", "waiting", "dropping"} /\ Finished
  /\ host' = IF host = "dropping" THEN "dropped" ELSE "idle"
  /\ UNCHANGED <<shared, slot, join, emu, local, game, lateFrames>>

HostCall ==
  \/ \E b \in BOOLEAN : SetPaused(b)
  \/ \E p \in Players, b \in Buttons, pressed \in BOOLEAN : SetButton(p, b, pressed)
  \/ Stop \/ Drop \/ Wait

-----------------------------------------------------------------------------
(* The emulation thread: run_emulation. *)

LimitReached == limit # NoLimit /\ submitted >= limit

(* while !shutdown, and the stop_after_frames check on thread-local state.   *)
CheckShutdown ==
  /\ emu = "check"
  /\ emu' = IF shutdown \/ LimitReached THEN "snapshot" ELSE "pauseCheck"
  /\ UNCHANGED <<shared, slot, join, host, local, game, lateFrames>>

(* A slip: the pause flag is read, but was_paused is not kept. *)
CheckPausedForgets ==
  /\ emu = "pauseCheck" /\ paused
  /\ emu' = "napping" /\ baseline' = "stale" /\ UNCHANGED wasPaused
  /\ UNCHANGED <<shared, slot, join, host, last, submitted, game, lateFrames>>

(* Paused: note it and sleep for PAUSE_POLL_INTERVAL. *)
CheckPaused ==
  /\ emu = "pauseCheck" /\ paused
  /\ emu' = "napping" /\ wasPaused' = TRUE /\ baseline' = "stale"
  /\ UNCHANGED <<shared, slot, join, host, last, submitted, game, lateFrames>>

(* A slip: the nap loops on the pause flag alone and never looks at shutdown. *)
NapUntilResumed ==
  /\ emu = "napping"
  /\ emu' = "pauseCheck"
  /\ UNCHANGED <<shared, slot, join, host, local, game, lateFrames>>

NapOver ==
  /\ emu = "napping"
  /\ emu' = "check"
  /\ UNCHANGED <<shared, slot, join, host, local, game, lateFrames>>

(* Not paused: after a pause, pacer.resync() re-anchors the deadlines.       *)
CheckResumed ==
  /\ emu = "pauseCheck" /\ ~paused
  /\ emu' = "poll1" /\ wasPaused' = FALSE
  /\ baseline' = IF wasPaused THEN "fresh" ELSE baseline
  /\ UNCHANGED <<shared, slot, join, host, last, submitted, game, lateFrames>>

(* apply_inputs loads one player's bitmap and issues Nes::set_button for the *)
(* bits that changed since the last poll, and only for those.                *)
(* A slip: changed bits are toggled off instead of set. *)
ButtonsAfterInverted(old, prev, now) == old \ ((now \ prev) \cup (prev \ now))

ButtonsAfter(old, prev, now) == (old \cup (now \ prev)) \ (prev \ now)

ApplyInputs(p) ==
  /\ emu = IF p = 1 THEN "poll1" ELSE "poll2"
  /\ emu' = IF p = 1 THEN "poll2" ELSE "step"
  /\ controllers' = [controllers EXCEPT ![p] = ButtonsAfter(@, last[p], inputs[p])]
  /\ last' = [last EXCEPT ![p] = inputs[p]]
  /\ UNCHANGED <<shared, slot, join, host, submitted, wasPaused, baseline, ram, lateFrames>>

(* nes.step_frame(): the game runs for a frame and may write its RAM.        *)
StepFrame ==
  /\ emu = "step"
  /\ emu' = "push"
  /\ ram' \in IF HasBattery THEN Contents ELSE {ram}
  /\ lateFrames' = IF lateFrames < 2 THEN lateFrames + 1 ELSE lateFrames
  /\ UNCHANGED <<shared, slot, join, host, local, controllers>>

(* The core, or a sink, panics: the thread unwinds past the battery slot.    *)
Panic ==
  /\ emu \in {"step", "push", "submit"}
  /\ emu' = "panicked"
  /\ UNCHANGED <<shared, slot, join, host, local, game, lateFrames>>

(* audio.push_samples: a sink call, no state of the session changes.         *)
PushAudio ==
  /\ emu = "push"
  /\ emu' = "submit"
  /\ UNCHANGED <<shared, slot, join, host, local, game, lateFrames>>

(* frame.submit(fb, submitted), then the saturating count. *)
(* A slip: the frame counter is not saturating. *)
SubmitFrameUnbounded ==
  /\ emu = "submit"
  /\ emu' = "pace"
  /\ submitted' = submitted + 1
  /\ UNCHANGED <<shared, slot, join, host, last, wasPaused, baseline, game, lateFrames>>

SubmitFrame ==
  /\ emu = "submit"
  /\ emu' = "pace"
  /\ submitted' = IF submitted < MaxCount THEN submitted + 1 ELSE submitted
  /\ UNCHANGED <<shared, slot, join, host, last, wasPaused, baseline, game, lateFrames>>

(* pacer.advance, catch_up and the sleep until the next deadline. *)
(* A slip: the thread goes straight on to the next frame. *)
PaceAndContinue ==
  /\ emu = "pace"
  /\ emu' = "poll1"
  /\ UNCHANGED <<shared, slot, join, host, local, game, lateFrames>>

Pace ==
  /\ emu = "pace"
  /\ emu' = "check"
  /\ UNCHANGED <<shared, slot, join, host, local, game, lateFrames>>

(* After the loop: *out.lock() = nes.battery_snapshot(), and the thread ends. *)
(* A slip: the snapshot is taken, but not of a game with battery RAM. *)
SnapshotForgotten ==
  /\ emu = "snapshot"
  /\ emu' = "exited"
  /\ slot' = None
  /\ UNCHANGED <<shared, join, host, local, game, lateFrames>>

Snapshot ==
  /\ emu = "snapshot"
  /\ emu' = "exited"
  /\ slot' = IF HasBattery THEN ram ELSE None
  /\ UNCHANGED <<shared, join, host, local, game, lateFrames>>

EmuStep ==
  \/ CheckShutdown \/ CheckPaused \/ NapOver \/ CheckResumed
  \/ \E p \in Players : ApplyInputs(p)
  \/ StepFrame \/ PushAudio \/ SubmitFrame \/ Pace \/ Snapshot

Next == HostCall \/ JoinReturns \/ EmuStep \/ Panic

(* The OS runs a thread that can run, and join() returns when its thread has *)
(* exited.  The host owes no call, and a panic never has to happen.          *)
Spec == Init /\ [][Next]_vars /\ WF_vars(EmuStep) /\ WF_vars(JoinReturns)

-----------------------------------------------------------------------------
TypeOK ==
  /\ limit \in Nat \cup {NoLimit}
  /\ shutdown \in BOOLEAN /\ paused \in BOOLEAN /\ join \in BOOLEAN
  /\ inputs \in [Players -> SUBSET Buttons]
  /\ last \in [Players -> SUBSET Buttons]
  /\ controllers \in [Players -> SUBSET Buttons]
  /\ slot \in Contents \cup {None}
  /\ ram \in Contents
  /\ host \in {"idle", "stopping", "waiting", "dropping", "dropped"}
  /\ emu \in EmuStates
  /\ submitted \in 0..MaxCount
  /\ wasPaused \in BOOLEAN
  /\ baseline \in {"fresh", "stale"}
  /\ lateFrames \in 0..2

-----------------------------------------------------------------------------
(* The joining call has returned: stop, wait or drop is over. *)
Returned == ~join /\ host \in {"idle", "dropped"}

(* A stop, wait or drop that has returned left no emulation thread behind,   *)
(* and unless the thread panicked the slot holds the RAM of the last frame   *)
(* (session.rs: stop joins, and the thread writes the slot after its loop).  *)
ReturnMeansFinal ==
  Returned => /\ Finished
              /\ (emu = "exited" /\ HasBattery) => slot = ram

(* Pausing or stopping lets at most the frame that was in flight complete,   *)
(* whatever the order of the host's stores and the thread's loads (the       *)
(* tests' "any frame that was mid-flight when we paused").                   *)
AtMostOneLateFrame == (paused \/ shutdown) => lateFrames <= 1

(* No frame is emulated against deadlines from before a pause, so resuming   *)
(* never rushes through the frames that were due meanwhile.                  *)
NoRushAfterPause ==
  emu \in {"poll1", "poll2", "step", "push", "submit", "pace"} => baseline = "fresh"

(* A stop or a drop always returns, also on a paused session: the paused     *)
(* thread keeps polling the shutdown flag.                                   *)
StopReturns == host \in {"stopping", "dropping"} ~> host \in {"idle", "dropped"}

(* A button held long enough reaches the game: while the thread runs         *)
(* unpaused, a bit the host leaves set is eventually set in the controller.  *)
HeldButtonArrives ==
  \A p \in Players, b \in Buttons :
    b \in inputs[p] ~> (b \in controllers[p] \/ b \notin inputs[p]
                           \/ paused \/ Finished)

Contract == INSTANCE SessionContract WITH alive <- ~Finished, returned <- Returned

(* The threads together keep the session's contract with its host.           *)
KeepsContract == Contract!ContractSpec
=============================================================================
