----------------------------- MODULE FramePacer -----------------------------
(***************************************************************************)
(* The frame pacer (crates/nessie-runtime/src/pacer/mod.rs) as the loop of *)
(* run_emulation drives it: render a frame, advance, catch up with real    *)
(* time, sleep until the next deadline.  Rendering, sleeping and anything  *)
(* else may take longer than it should, and the host may pause the game.   *)
(*                                                                         *)
(* Time is counted in ticks, Period of them to a frame; the code's float   *)
(* seconds are exact here.  The frame counter does not overflow.           *)
(***************************************************************************)
EXTENDS Integers

CONSTANTS
  Period,     \* ticks per frame
  Threshold,  \* catch_up_threshold, already at least 1
  MaxSkip,    \* catch_up_max_skip
  MaxRender,  \* the most ticks a frame takes to render
  MaxStall,   \* the most ticks stalls take in one turn of the loop
  MaxPause,   \* the most ticks a pause takes
  MaxNow      \* bound on time, so that TLC's instance is finite

ASSUME PacerAssumption ==
  /\ Period \in Nat \ {0, 1} /\ Threshold \in Nat \ {0} /\ MaxSkip \in Nat
  /\ MaxRender \in 0 .. Period - 1 /\ MaxStall \in Nat /\ MaxPause \in Nat /\ MaxNow \in Nat

VARIABLES
  now,     \* the clock
  start,   \* FramePacer.start: the time frame 0 was due at
  index,   \* FramePacer.frame_index
  turn,    \* where the emulation loop is: "render", "catchUp" or "wait"
  stalled, \* history: ticks lost to stalls since the last catch-up
  lost,    \* history: ticks lost to stalls since the loop last slept or was resumed
  rush,    \* history: frames rendered without sleeping since the last stall
  leaps    \* history: catch-ups since then that MaxSkip kept from reaching real time

pacerVars == <<now, start, index, turn, stalled, lost, rush, leaps>>

(* FramePacer::new *)
PacerInit ==
  /\ now = 0 /\ start = 0 /\ index = 0 /\ turn = "render"
  /\ stalled = 0 /\ lost = 0 /\ rush = 0 /\ leaps = 0

DeadlineFor(n) == start + n * Period

(* The frames that should have been rendered by now, by the schedule.        *)
Expected == (now - start) \div Period

-----------------------------------------------------------------------------
(* step_frame, the sinks, and advance(). *)
Render ==
  /\ turn = "render" /\ turn' = "catchUp"
  /\ \E d \in 0 .. MaxRender : now + d <= MaxNow /\ now' = now + d
  /\ index' = index + 1
  /\ UNCHANGED <<start, stalled, lost, rush, leaps>>

(* A slip: only one frame is skipped, however late the loop is. *)
SkipOne == IF MaxSkip = 0 THEN 0 ELSE 1

(* min(behind, max_skip) *)
Skip == IF Expected - index > MaxSkip THEN MaxSkip ELSE Expected - index

CatchUp ==
  /\ turn = "catchUp" /\ turn' = "wait"
  /\ IF Expected <= index + Threshold THEN index' = index /\ leaps' = leaps
     ELSE /\ index' = index + Skip
          /\ leaps' = leaps + IF Expected - index > MaxSkip THEN 1 ELSE 0
  /\ stalled' = 0
  /\ UNCHANGED <<now, start, lost, rush>>

(* wait_for_next_frame and the sleep, which may end a little late.           *)
Sleep ==
  /\ turn = "wait" /\ DeadlineFor(index + 1) > now
  /\ turn' = "render"
  /\ \E late \in 0 .. 1 :
       /\ DeadlineFor(index + 1) + late <= MaxNow
       /\ now' = DeadlineFor(index + 1) + late
  /\ lost' = 0 /\ rush' = 0 /\ leaps' = 0
  /\ UNCHANGED <<start, index, stalled>>

(* The deadline has passed: no sleep at all. *)
NoSleep ==
  /\ turn = "wait" /\ DeadlineFor(index + 1) <= now
  /\ turn' = "render"
  /\ rush' = rush + 1
  /\ UNCHANGED <<now, start, index, stalled, lost, leaps>>

(* The thread is not scheduled for a while, at any point of the loop.        *)
Stall ==
  /\ \E d \in 1 .. MaxStall - stalled :
       /\ now + d <= MaxNow
       /\ now' = now + d /\ stalled' = stalled + d /\ lost' = lost + d
  /\ rush' = 0 /\ leaps' = 0
  /\ UNCHANGED <<start, index, turn>>

(* now.checked_sub(elapsed).unwrap_or(now): the clock cannot go below zero.  *)
ResyncStart(t) == IF index * Period <= t THEN t - index * Period ELSE t

(* A pause of any length, and resync() when it is over: the schedule is      *)
(* anchored so that the frame rendered last was due just now.                *)
Resume ==
  /\ turn = "render"
  /\ \E d \in 0 .. MaxPause :
       /\ now + d <= MaxNow
       /\ now' = now + d /\ start' = ResyncStart(now + d)
  /\ lost' = 0 /\ rush' = 0 /\ leaps' = 0
  /\ UNCHANGED <<index, turn, stalled>>

PacerNext == Render \/ CatchUp \/ Sleep \/ NoSleep \/ Stall \/ Resume

PacerSpec == PacerInit /\ [][PacerNext]_pacerVars

-----------------------------------------------------------------------------
PacerTypeOK ==
  /\ now \in 0 .. MaxNow /\ start \in 0 .. now /\ index \in Nat
  /\ turn \in {"render", "catchUp", "wait"}
  /\ stalled \in 0 .. MaxStall /\ lost \in Nat /\ rush \in Nat /\ leaps \in Nat

(* The game never runs ahead of real time: when a frame is begun, the one    *)
(* before it was already due.  Skipping never overshoots, and resync() never *)
(* takes its fallback, which would freeze the game after a pause for as long *)
(* as it has been played.                                                    *)
NeverAhead ==
  /\ turn = "render" => DeadlineFor(index) <= now
  /\ turn # "render" => DeadlineFor(index) <= now + Period

(* Stalls that one catch-up may skip are made up for at the next one: it       *)
(* leaves the game at most Threshold frames behind its schedule.  Longer ones  *)
(* leave it further behind, but never by more than they have cost, and each    *)
(* catch-up that falls short takes MaxSkip frames off that.  Pauses, however   *)
(* long, do not count.                                                         *)
LagBounded ==
  /\ turn = "wait" /\ stalled = 0 /\ lost + MaxRender <= (MaxSkip + 1) * Period =>
       Expected <= index + Threshold
  /\ (Expected - index + leaps * MaxSkip) * Period <= (Threshold + 1) * Period - 1 + lost

(* What the threshold lets the loop make up for, and one more frame that may   *)
(* be past the catch-up already when the stall ends.                           *)
NotAFlood(frames) ==
  frames * (Period - MaxRender) <= Threshold * Period - 1 + 2 * (Period - MaxRender)

(* After a stall frames are rendered back to back only as far as the threshold *)
(* allows, and one more for each catch-up that falls short of real time.  By   *)
(* LagBounded there is none of those after a stall that fits into one skip,    *)
(* and after a longer one as many as MaxSkip goes into it (catch_up).          *)
FloodIsTheStalls == NotAFlood(rush - leaps)

(* The schedule and the clock stay within bounds of each other, through any    *)
(* slow frames, stalls of any length and pauses (catch_up, resync).            *)
PacerInvariant == PacerTypeOK /\ NeverAhead /\ LagBounded /\ FloodIsTheStalls

(* What pacer/mod.rs:17-21 says of catch_up: it prevents the emulation thread  *)
(* from "spitting out a flood of frames after a stall", a closed lid among     *)
(* them.  max_skip bounds a single skip, and after a longer stall every skip   *)
(* is followed by a frame that is rendered at once.                            *)
StallsNeverFlood == NotAFlood(rush)
=============================================================================
