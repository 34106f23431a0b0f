---------------------------- MODULE HostSession -----------------------------
(***************************************************************************)
(* The host's emulator commands (app/src-tauri/src/commands/emulator.rs)   *)
(* and the EmulatorSession they start, stop and save                       *)
(* (app/src-tauri/src/session.rs).  Commands run one after the other on    *)
(* the main thread; the games they start run on threads of their own and   *)
(* keep the runtime's SessionContract; the save files survive the process, *)
(* which may end between any two steps.                                    *)
(*                                                                         *)
(* A game's battery RAM is a number that grows as the player progresses;   *)
(* 0 is the RAM of a game that was never saved, and a missing save file.   *)
(* Every ROM here has a battery: one without takes the same path with an   *)
(* empty slot, which is also that of a game whose thread panicked.         *)
(***************************************************************************)
EXTENDS Integers, FiniteSets

CONSTANTS
  Roms,         \* the ROMs that can be started
  MaxSessions,  \* bound on the sessions started by one process
  MaxRam,       \* bound on a game's progress
  None,         \* no session, no snapshot, no ROM
  Partial       \* a file whose bytes are not all written

ASSUME BoundAssumption == MaxSessions \in Nat \ {0} /\ MaxRam \in Nat \ {0}
ASSUME NoneAssumption == None \notin Nat /\ Partial \notin Nat /\ None \notin Roms

Ids == 1 .. MaxSessions
Rams == 0 .. MaxRam

VARIABLES
  file,      \* per ROM: the contents of <sha1>.srm
  tmp,       \* per ROM: the contents of <sha1>.srm.tmp, or None
  slot,      \* AppState.session: the active session's id, or None
  nextId,    \* AppState.next_session_id
  rom,       \* per session: its ROM
  ram,       \* per session: the battery RAM of its running game
  thread,    \* per session: "none", "running", "ended" or "panicked"
  asked,     \* per session: the runtime's shutdown flag
  frozen,    \* per session: the runtime's pause flag
  snap,      \* per session: battery_out
  cmd,       \* the command the main thread runs
  acked      \* history, per ROM: the most progress a stop reported as saved

disk     == <<file, tmp>>
sessions == <<rom, ram, thread, asked, frozen, snap>>
vars == <<disk, slot, nextId, sessions, cmd, acked>>

(* A command: what was called, the step it is at, the session it works on,   *)
(* and the ROM it is to start.                                               *)
Idle == [name |-> "idle", at |-> "idle", on |-> None, load |-> None]

NoSessions ==
  /\ slot' = None /\ nextId' = 1 /\ cmd' = Idle
  /\ rom' = [i \in Ids |-> None] /\ ram' = [i \in Ids |-> 0]
  /\ thread' = [i \in Ids |-> "none"] /\ snap' = [i \in Ids |-> None]
  /\ asked' = [i \in Ids |-> FALSE] /\ frozen' = [i \in Ids |-> FALSE]

Init ==
  /\ file = [r \in Roms |-> 0] /\ tmp = [r \in Roms |-> None]
  /\ slot = None /\ nextId = 1 /\ cmd = Idle
  /\ rom = [i \in Ids |-> None] /\ ram = [i \in Ids |-> 0]
  /\ thread = [i \in Ids |-> "none"] /\ snap = [i \in Ids |-> None]
  /\ asked = [i \in Ids |-> FALSE] /\ frozen = [i \in Ids |-> FALSE]
  /\ acked = [r \in Roms |-> 0]

-----------------------------------------------------------------------------
(* The games' threads, as SessionContract promises. *)

Play(i) ==
  /\ thread[i] = "running" /\ ~frozen[i] /\ ram[i] < MaxRam
  /\ ram' = [ram EXCEPT ![i] = @ + 1]
  /\ UNCHANGED <<disk, slot, nextId, rom, thread, asked, frozen, snap, cmd, acked>>

EndThread(i) ==
  /\ thread[i] = "running" /\ asked[i]
  /\ thread' = [thread EXCEPT ![i] = "ended"]
  /\ snap' = [snap EXCEPT ![i] = ram[i]]
  /\ UNCHANGED <<disk, slot, nextId, rom, ram, asked, frozen, cmd, acked>>

Panic(i) ==
  /\ thread[i] = "running"
  /\ thread' = [thread EXCEPT ![i] = "panicked"]
  /\ UNCHANGED <<disk, slot, nextId, rom, ram, asked, frozen, snap, cmd, acked>>

-----------------------------------------------------------------------------
(* Commands.  CallX is the request; the steps below carry it out. *)

(* start_session: the running session, if any, is stopped first. *)
CallStart(r) ==
  /\ cmd = Idle
  /\ cmd' = [name |-> "start", at |-> IF slot = None THEN "resolve" ELSE "stop",
             on |-> slot, load |-> r]
  /\ UNCHANGED <<disk, slot, nextId, sessions, acked>>

(* stop_session(id): only the session it names; None names the active one.   *)
(* It takes the session out of the slot before stopping it.                  *)
CallStop(id) ==
  /\ cmd = Idle
  /\ slot # None /\ id \in {None, slot}
  /\ cmd' = [Idle EXCEPT !.name = "stop", !.at = "stop", !.on = slot]
  /\ slot' = None
  /\ UNCHANGED <<disk, nextId, sessions, acked>>

(* set_paused: the active session, if any (flushing audio is AudioRing's).   *)
SetPaused(b) ==
  /\ cmd = Idle /\ slot # None
  /\ frozen' = [frozen EXCEPT ![slot] = b]
  /\ UNCHANGED <<disk, slot, nextId, rom, ram, thread, asked, snap, cmd, acked>>

(* The EmulatorSession is dropped: nothing of it is left. *)
Forget(i) ==
  /\ rom' = [rom EXCEPT ![i] = None] /\ ram' = [ram EXCEPT ![i] = 0]
  /\ thread' = [thread EXCEPT ![i] = "none"] /\ snap' = [snap EXCEPT ![i] = None]
  /\ asked' = [asked EXCEPT ![i] = FALSE] /\ frozen' = [frozen EXCEPT ![i] = FALSE]

Goto(at) == cmd' = [cmd EXCEPT !.at = at]

(* A slip: the thread is joined without having been asked to exit. *)
JoinUnasked ==
  /\ cmd.at = "stop"
  /\ Goto("join")
  /\ UNCHANGED <<disk, slot, nextId, sessions, acked>>

(* EmulatorSession::stop asks the thread to exit. *)
AskThread ==
  /\ cmd.at = "stop"
  /\ asked' = [asked EXCEPT ![cmd.on] = TRUE]
  /\ Goto("join")
  /\ UNCHANGED <<disk, slot, nextId, rom, ram, thread, frozen, snap, acked>>

(* The thread is gone: with a snapshot the save is written, without one the  *)
(* stop is over.                                                             *)
JoinThread ==
  /\ cmd.at = "join" /\ thread[cmd.on] \in {"ended", "panicked"}
  /\ Goto(IF snap[cmd.on] = None THEN "stopped" ELSE "create")
  /\ UNCHANGED <<disk, slot, nextId, sessions, acked>>

(* write_atomic: create the .tmp sibling, fill and sync it, rename it.  A    *)
(* step that fails leaves what the earlier ones did.                         *)
CreateTmp ==
  /\ cmd.at = "create"
  /\ tmp' = [tmp EXCEPT ![rom[cmd.on]] = Partial]
  /\ Goto("fill")
  /\ UNCHANGED <<file, slot, nextId, sessions, acked>>

(* A slip: the save itself is opened and filled. *)
FillInPlace ==
  /\ cmd.at = "fill"
  /\ file' = [file EXCEPT ![rom[cmd.on]] = Partial]
  /\ tmp' = [tmp EXCEPT ![rom[cmd.on]] = snap[cmd.on]]
  /\ Goto("rename")
  /\ UNCHANGED <<slot, nextId, sessions, acked>>

FillTmp ==
  /\ cmd.at = "fill"
  /\ tmp' = [tmp EXCEPT ![rom[cmd.on]] = snap[cmd.on]]
  /\ Goto("rename")
  /\ UNCHANGED <<file, slot, nextId, sessions, acked>>

RenameTmp ==
  /\ cmd.at = "rename"
  /\ file' = [file EXCEPT ![rom[cmd.on]] = tmp[rom[cmd.on]]]
  /\ tmp' = [tmp EXCEPT ![rom[cmd.on]] = None]
  /\ Goto("stopped")
  /\ UNCHANGED <<slot, nextId, sessions, acked>>

WriteFails ==
  /\ cmd.at \in {"create", "fill", "rename"}
  /\ Goto("unsaved")
  /\ UNCHANGED <<disk, slot, nextId, sessions, acked>>

(* stop_session returns, Ok unless writing the save failed. *)
StopReturns ==
  /\ cmd.name = "stop" /\ cmd.at \in {"stopped", "unsaved"}
  /\ acked' = IF cmd.at = "stopped" /\ thread[cmd.on] = "ended"
              THEN [acked EXCEPT ![rom[cmd.on]] = ram[cmd.on]] ELSE acked
  /\ Forget(cmd.on)
  /\ cmd' = Idle
  /\ UNCHANGED <<disk, slot, nextId>>

(* start_session ignores whether the previous session could be saved, and    *)
(* empties the slot before anything of the new session can fail.             *)
DropPrevious ==
  /\ cmd.name = "start" /\ cmd.at \in {"stopped", "unsaved"}
  /\ slot' = None
  /\ Forget(cmd.on)
  /\ cmd' = [cmd EXCEPT !.at = "resolve", !.on = None]
  /\ UNCHANGED <<disk, nextId, acked>>

(* The ROM cannot be read or parsed, or its save cannot be read: Err, and    *)
(* no session is active.                                                     *)
StartFails ==
  /\ cmd.at = "resolve"
  /\ cmd' = Idle
  /\ UNCHANGED <<disk, slot, nextId, sessions, acked>>

(* A slip: the save is not loaded into the new game. *)
SpawnFresh ==
  /\ cmd.at = "resolve" /\ nextId <= MaxSessions
  /\ rom' = [rom EXCEPT ![nextId] = cmd.load]
  /\ ram' = [ram EXCEPT ![nextId] = 0]
  /\ thread' = [thread EXCEPT ![nextId] = "running"]
  /\ nextId' = nextId + 1
  /\ cmd' = [cmd EXCEPT !.at = "install", !.on = nextId]
  /\ UNCHANGED <<disk, slot, asked, frozen, snap, acked>>

(* load_pre_existing_save, then EmulatorSession::start: the save is loaded   *)
(* before the thread is spawned; the session gets the next id.               *)
Spawn ==
  /\ cmd.at = "resolve" /\ nextId <= MaxSessions
  /\ rom' = [rom EXCEPT ![nextId] = cmd.load]
  /\ ram' = [ram EXCEPT ![nextId] = file[cmd.load]]
  /\ thread' = [thread EXCEPT ![nextId] = "running"]
  /\ nextId' = nextId + 1
  /\ cmd' = [cmd EXCEPT !.at = "install", !.on = nextId]
  /\ UNCHANGED <<disk, slot, asked, frozen, snap, acked>>

Install ==
  /\ cmd.at = "install"
  /\ slot' = cmd.on
  /\ cmd' = Idle
  /\ UNCHANGED <<disk, nextId, sessions, acked>>

MainStep ==
  \/ AskThread \/ JoinThread \/ CreateTmp \/ FillTmp \/ RenameTmp \/ WriteFails
  \/ StopReturns \/ DropPrevious \/ StartFails \/ Spawn \/ Install

(* The process ends, by a crash or because its window was closed, and is     *)
(* started again: AppState::new, and no session.  Nothing of the old process *)
(* runs on the way out; in particular no session is dropped.                 *)
Restart ==
  /\ NoSessions
  /\ UNCHANGED <<disk, acked>>

Next ==
  \/ \E i \in Ids : Play(i) \/ EndThread(i) \/ Panic(i)
  \/ \E r \in Roms : CallStart(r)
  \/ \E id \in Ids \cup {None} : CallStop(id)
  \/ \E b \in BOOLEAN : SetPaused(b)
  \/ MainStep
  \/ Restart

(* The main thread goes on with a command it runs, and a thread that was     *)
(* asked to exit does (RuntimeSession's StopReturns).                        *)
Spec ==
  /\ Init /\ [][Next]_vars
  /\ WF_vars(MainStep) /\ \A i \in Ids : WF_vars(EndThread(i))

-----------------------------------------------------------------------------
TypeOK ==
  /\ file \in [Roms -> Rams \cup {Partial}]
  /\ tmp \in [Roms -> Rams \cup {None, Partial}]
  /\ slot \in Ids \cup {None} /\ nextId \in 1 .. MaxSessions + 1
  /\ rom \in [Ids -> Roms \cup {None}] /\ ram \in [Ids -> Rams]
  /\ thread \in [Ids -> {"none", "running", "ended", "panicked"}]
  /\ asked \in [Ids -> BOOLEAN] /\ frozen \in [Ids -> BOOLEAN]
  /\ snap \in [Ids -> Rams \cup {None}]
  /\ cmd.name \in {"idle", "start", "stop"}
  /\ cmd.on \in Ids \cup {None} /\ cmd.load \in Roms \cup {None}
  /\ acked \in [Roms -> Rams]

(* At most one game runs, and it is always one that a command can still      *)
(* reach: the active one, or the one the main thread is starting or stopping.*)
OneGame ==
  \A i \in Ids : thread[i] = "running" => (slot = i \/ cmd.on = i) /\ cmd.at # "resolve"

(* What stop_session reported as saved stays saved, through failed writes,   *)
(* crashes in the middle of one, and later sessions of the same ROM.         *)
AckedIsDurable == \A r \in Roms : file[r] # Partial /\ file[r] >= acked[r]

(* One game, and saves that survive it (start_session, stop, write_atomic).  *)
SaveInvariant == TypeOK /\ OneGame /\ AckedIsDurable

(* A save file only ever moves forward: no session, however it started or    *)
(* ended, replaces a save by an older one.                                   *)
SaveNeverGoesBack ==
  [][\A r \in Roms : file'[r] # Partial /\ file[r] # Partial => file'[r] >= file[r]]_file

(* Every command returns, also while it waits for a game's thread. *)
CommandReturns == cmd # Idle ~> cmd = Idle

(* What the README promises of battery saves (README.md:22): progress     *)
(* survives restarts, whichever way the application was left.                *)
ProgressSurvivesRestart ==
  [][\A i \in Ids : (Restart /\ slot = i /\ thread[i] = "running")
       => file'[rom[i]] = ram[i]]_vars
=============================================================================
