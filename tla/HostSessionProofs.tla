------------------------- MODULE HostSessionProofs --------------------------
(***************************************************************************)
(* Proofs about HostSession, for every set of ROMs, every number of        *)
(* sessions and every progress of their games.                             *)
(***************************************************************************)
EXTENDS HostSession, TLAPS

Stopping == {"stop", "join", "create", "fill", "rename", "stopped", "unsaved"}
Saving   == {"create", "fill", "rename"}

Commands ==
  [name : {"idle", "start", "stop"}, at : Stopping \cup {"idle", "resolve", "install"},
   on : Ids \cup {None}, load : Roms \cup {None}]

(* What a command works on, by the step it is at: a stop has emptied the     *)
(* slot first, a start empties it when the previous session is gone, and a   *)
(* new session is in no slot before it is installed.                         *)
CommandShape ==
  /\ cmd \in Commands
  /\ cmd.at = "idle" <=> cmd = Idle
  /\ cmd.at \in Stopping \cup {"install"} <=> cmd.on \in Ids
  /\ cmd.at \in Stopping => cmd.name \in {"start", "stop"}
  /\ cmd.at \in Stopping => slot = IF cmd.name = "start" THEN cmd.on ELSE None
  /\ cmd.at \in {"resolve", "install"} => cmd.name = "start" /\ slot = None
  /\ cmd.name = "start" => cmd.load \in Roms

(* The one session there is: the command's, or the active one.               *)
Current == IF cmd.on # None THEN cmd.on ELSE slot

OneSession ==
  /\ \A i \in Ids : thread[i] # "none" <=> i = Current
  /\ \A i \in Ids : thread[i] # "none" => rom[i] \in Roms
  /\ \A i \in Ids : thread[i] = "none" => snap[i] = None

(* The snapshot is the game's last RAM, taken once it has ended.             *)
SnapIsFinal ==
  \A i \in Ids : /\ snap[i] # None => thread[i] = "ended" /\ snap[i] = ram[i]
                 /\ thread[i] = "ended" => snap[i] = ram[i]

(* The save being written is that snapshot, and a stop that got this far     *)
(* without an error has it in the file.                                      *)
SaveProgress ==
  /\ cmd.at \in Saving => snap[cmd.on] # None
  /\ cmd.at = "rename" => tmp[rom[cmd.on]] = snap[cmd.on]
  /\ cmd.at \in {"stopped", "unsaved"} => thread[cmd.on] \in {"ended", "panicked"}
  /\ cmd.at = "stopped" /\ thread[cmd.on] = "ended" => file[rom[cmd.on]] = ram[cmd.on]

(* A game goes on from its save, so it is never behind the file it will      *)
(* replace.                                                                  *)
NeverBehind == \A i \in Ids : thread[i] # "none" => ram[i] >= file[rom[i]]

IInv ==
  /\ TypeOK /\ CommandShape /\ OneSession /\ SnapIsFinal /\ SaveProgress
  /\ NeverBehind /\ AckedIsDurable
-----------------------------------------------------------------------------
(* None is a value of its own. *)
LEMMA NoneIsNone ==
  /\ None \notin Ids /\ None \notin Rams /\ None \notin Roms
  /\ Partial \notin Rams /\ 0 \in Rams /\ Ids \subseteq Nat /\ Rams \subseteq Nat
BY NoneAssumption, BoundAssumption DEF Ids, Rams

(* A command that is stopping a session is stopping the only one.            *)
LEMMA StoppedSession ==
  ASSUME TypeOK, CommandShape, OneSession, cmd.at \in Stopping \cup {"install"}
  PROVE  /\ cmd.on \in Ids /\ Current = cmd.on
         /\ thread[cmd.on] # "none" /\ rom[cmd.on] \in Roms
         /\ \A i \in Ids : i # cmd.on => thread[i] = "none"
BY NoneIsNone DEF CommandShape, OneSession, Current

(* Types. *)
LEMMA TypeKept ==
  ASSUME IInv, [Next]_vars
  PROVE  TypeOK'
<1> USE NoneIsNone DEF IInv, TypeOK, CommandShape, SaveProgress, Idle, Goto, Forget, Stopping,
        Saving,
        disk, sessions
<1>1. ASSUME NEW i \in Ids, Play(i) PROVE TypeOK'
  <2>1. ram[i] + 1 \in Rams
    BY <1>1, BoundAssumption DEF Play, Rams
  <2> QED BY <1>1, <2>1 DEF Play
<1>2. ASSUME NEW i \in Ids, EndThread(i) PROVE TypeOK'
  BY <1>2 DEF EndThread
<1>3. ASSUME NEW i \in Ids, Panic(i) PROVE TypeOK'
  BY <1>3 DEF Panic
<1>4. ASSUME NEW r \in Roms, CallStart(r) PROVE TypeOK'
  BY <1>4 DEF CallStart
<1>5. ASSUME NEW id \in Ids \cup {None}, CallStop(id) PROVE TypeOK'
  BY <1>5 DEF CallStop
<1>6. ASSUME NEW b \in BOOLEAN, SetPaused(b) PROVE TypeOK'
  BY <1>6 DEF SetPaused
<1>7. CASE AskThread
  BY <1>7 DEF AskThread
<1>8. CASE JoinThread
  BY <1>8 DEF JoinThread
<1>9. CASE CreateTmp
  <2>1. Partial \in Rams \cup {None, Partial}
    BY <1>9 DEF CreateTmp
  <2>2. tmp' \in [Roms -> Rams \cup {None, Partial}]
    BY <1>9, <2>1 DEF CreateTmp
  <2>3. cmd'.name = cmd.name /\ cmd'.on = cmd.on /\ cmd'.load = cmd.load
    BY <1>9 DEF CreateTmp, Commands
  <2>4. UNCHANGED <<file, slot, nextId, rom, ram, thread, asked, frozen, snap, acked>>
    BY <1>9 DEF CreateTmp
  <2> QED BY <2>2, <2>3, <2>4
<1>10. CASE FillTmp
  <2>1. snap[cmd.on] \in Rams \cup {None, Partial}
    BY <1>10 DEF FillTmp
  <2>2. tmp' \in [Roms -> Rams \cup {None, Partial}]
    BY <1>10, <2>1 DEF FillTmp
  <2>3. cmd'.name = cmd.name /\ cmd'.on = cmd.on /\ cmd'.load = cmd.load
    BY <1>10 DEF FillTmp, Commands
  <2>4. UNCHANGED <<file, slot, nextId, rom, ram, thread, asked, frozen, snap, acked>>
    BY <1>10 DEF FillTmp
  <2> QED BY <2>2, <2>3, <2>4
<1>11. CASE RenameTmp
  <2>1. tmp[rom[cmd.on]] \in Rams
    BY <1>11 DEF RenameTmp, OneSession, SnapIsFinal
  <2>2. /\ file' \in [Roms -> Rams \cup {Partial}]
        /\ tmp' \in [Roms -> Rams \cup {None, Partial}]
    BY <1>11, <2>1 DEF RenameTmp
  <2>3. cmd'.name = cmd.name /\ cmd'.on = cmd.on /\ cmd'.load = cmd.load
    BY <1>11 DEF RenameTmp, Commands
  <2>4. UNCHANGED <<slot, nextId, rom, ram, thread, asked, frozen, snap, acked>>
    BY <1>11 DEF RenameTmp
  <2> QED BY <2>2, <2>3, <2>4
<1>12. CASE WriteFails
  BY <1>12 DEF WriteFails
<1>13. CASE StopReturns
  BY <1>13 DEF StopReturns
<1>14. CASE DropPrevious
  BY <1>14 DEF DropPrevious
<1>15. CASE StartFails
  BY <1>15 DEF StartFails
<1>16. CASE Spawn
  <2>1. cmd.load \in Roms /\ file[cmd.load] \in Rams /\ nextId \in Ids
    BY <1>16 DEF Spawn, AckedIsDurable, Ids
  <2>2. /\ rom' \in [Ids -> Roms \cup {None}] /\ ram' \in [Ids -> Rams]
        /\ thread' \in [Ids -> {"none", "running", "ended", "panicked"}]
    BY <1>16, <2>1 DEF Spawn
  <2>3. nextId' \in 1 .. MaxSessions + 1
    BY <1>16, BoundAssumption DEF Spawn
  <2>4. /\ cmd'.name = cmd.name /\ cmd'.on = nextId /\ cmd'.load = cmd.load
        /\ UNCHANGED <<file, tmp, slot, asked, frozen, snap, acked>>
    BY <1>16 DEF Spawn, Commands
  <2> QED BY <2>1, <2>2, <2>3, <2>4
<1>17. CASE Install
  BY <1>17 DEF Install
<1>18. CASE Restart
  <2>1. nextId' \in 1 .. MaxSessions + 1
    BY <1>18, BoundAssumption DEF Restart, NoSessions
  <2> QED BY <1>18, <2>1 DEF Restart, NoSessions
<1>19. CASE UNCHANGED vars
  BY <1>19 DEF vars
<1> QED
  BY <1>1, <1>2, <1>3, <1>4, <1>5, <1>6, <1>7, <1>8, <1>9, <1>10, <1>11, <1>12, <1>13, <1>14,
     <1>15, <1>16, <1>17, <1>18, <1>19
  DEF Next, MainStep

(* What each command works on. *)
LEMMA ShapeKept ==
  ASSUME IInv, [Next]_vars
  PROVE  CommandShape'
<1> USE NoneIsNone DEF IInv, TypeOK, CommandShape, Commands, Idle, Goto, Stopping, disk, sessions
<1>1. ASSUME NEW i \in Ids, Play(i) PROVE CommandShape'
  BY <1>1 DEF Play
<1>2. ASSUME NEW i \in Ids, EndThread(i) PROVE CommandShape'
  BY <1>2 DEF EndThread
<1>3. ASSUME NEW i \in Ids, Panic(i) PROVE CommandShape'
  BY <1>3 DEF Panic
<1>4. ASSUME NEW r \in Roms, CallStart(r) PROVE CommandShape'
  BY <1>4 DEF CallStart
<1>5. ASSUME NEW id \in Ids \cup {None}, CallStop(id) PROVE CommandShape'
  BY <1>5 DEF CallStop
<1>6. ASSUME NEW b \in BOOLEAN, SetPaused(b) PROVE CommandShape'
  BY <1>6 DEF SetPaused
<1>7. CASE AskThread
  BY <1>7 DEF AskThread
<1>8. CASE JoinThread
  BY <1>8 DEF JoinThread
<1>9. CASE CreateTmp
  BY <1>9 DEF CreateTmp
<1>10. CASE FillTmp
  BY <1>10 DEF FillTmp
<1>11. CASE RenameTmp
  BY <1>11 DEF RenameTmp
<1>12. CASE WriteFails
  BY <1>12 DEF WriteFails
<1>13. CASE StopReturns
  BY <1>13 DEF StopReturns
<1>14. CASE DropPrevious
  BY <1>14 DEF DropPrevious
<1>15. CASE StartFails
  BY <1>15 DEF StartFails
<1>16. CASE Spawn
  <2>1. nextId \in Ids /\ cmd.name = "start" /\ cmd.load \in Roms /\ slot' = None
    BY <1>16 DEF Spawn, Ids
  <2>2. /\ cmd'.at = "install" /\ cmd'.on = nextId /\ cmd'.name = cmd.name
        /\ cmd'.load = cmd.load /\ cmd' \in Commands
    BY <1>16, <2>1 DEF Spawn
  <2> QED BY <2>1, <2>2
<1>17. CASE Install
  BY <1>17 DEF Install
<1>18. CASE Restart
  BY <1>18 DEF Restart, NoSessions
<1>19. CASE UNCHANGED vars
  BY <1>19 DEF vars
<1> QED
  BY <1>1, <1>2, <1>3, <1>4, <1>5, <1>6, <1>7, <1>8, <1>9, <1>10, <1>11, <1>12, <1>13, <1>14,
     <1>15, <1>16, <1>17, <1>18, <1>19
  DEF Next, MainStep

(* There is one session at most: a start spawns one only when the last one is *)
(* forgotten, and what a command holds is what the slot held.                *)
LEMMA SessionKept ==
  ASSUME IInv, [Next]_vars
  PROVE  OneSession'
<1> USE NoneIsNone
    DEF IInv, TypeOK, CommandShape, OneSession, Current, Idle, Goto, Forget, Stopping, disk,
            sessions
<1>1. ASSUME NEW i \in Ids, Play(i) PROVE OneSession'
  BY <1>1 DEF Play
<1>2. ASSUME NEW i \in Ids, EndThread(i) PROVE OneSession'
  BY <1>2 DEF EndThread
<1>3. ASSUME NEW i \in Ids, Panic(i) PROVE OneSession'
  BY <1>3 DEF Panic
<1>4. ASSUME NEW r \in Roms, CallStart(r) PROVE OneSession'
  BY <1>4 DEF CallStart
<1>5. ASSUME NEW id \in Ids \cup {None}, CallStop(id) PROVE OneSession'
  BY <1>5 DEF CallStop
<1>6. ASSUME NEW b \in BOOLEAN, SetPaused(b) PROVE OneSession'
  BY <1>6 DEF SetPaused
<1>7. CASE AskThread
  BY <1>7 DEF AskThread
<1>8. CASE JoinThread
  BY <1>8 DEF JoinThread
<1>9. CASE CreateTmp
  BY <1>9 DEF CreateTmp
<1>10. CASE FillTmp
  BY <1>10 DEF FillTmp
<1>11. CASE RenameTmp
  BY <1>11 DEF RenameTmp
<1>12. CASE WriteFails
  BY <1>12 DEF WriteFails
<1>13. CASE StopReturns
  BY <1>13 DEF StopReturns
<1>14. CASE DropPrevious
  BY <1>14 DEF DropPrevious
<1>15. CASE StartFails
  BY <1>15 DEF StartFails
<1>16. CASE Spawn
  BY <1>16 DEF Spawn
<1>17. CASE Install
  BY <1>17 DEF Install
<1>18. CASE Restart
  BY <1>18 DEF Restart, NoSessions
<1>19. CASE UNCHANGED vars
  BY <1>19 DEF vars
<1> QED
  BY <1>1, <1>2, <1>3, <1>4, <1>5, <1>6, <1>7, <1>8, <1>9, <1>10, <1>11, <1>12, <1>13, <1>14,
     <1>15, <1>16, <1>17, <1>18, <1>19
  DEF Next, MainStep

(* A snapshot is the last RAM of a game that has ended. *)
LEMMA SnapKept ==
  ASSUME IInv, [Next]_vars
  PROVE  SnapIsFinal'
<1> USE NoneIsNone
    DEF IInv, TypeOK, CommandShape, OneSession, SnapIsFinal, Forget, Goto, disk, sessions
<1>1. ASSUME NEW i \in Ids, Play(i) PROVE SnapIsFinal'
  BY <1>1 DEF Play
<1>2. ASSUME NEW i \in Ids, EndThread(i) PROVE SnapIsFinal'
  BY <1>2 DEF EndThread
<1>3. ASSUME NEW i \in Ids, Panic(i) PROVE SnapIsFinal'
  BY <1>3 DEF Panic
<1>4. ASSUME NEW r \in Roms, CallStart(r) PROVE SnapIsFinal'
  BY <1>4 DEF CallStart
<1>5. ASSUME NEW id \in Ids \cup {None}, CallStop(id) PROVE SnapIsFinal'
  BY <1>5 DEF CallStop
<1>6. ASSUME NEW b \in BOOLEAN, SetPaused(b) PROVE SnapIsFinal'
  BY <1>6 DEF SetPaused
<1>7. CASE AskThread
  BY <1>7 DEF AskThread
<1>8. CASE JoinThread
  BY <1>8 DEF JoinThread
<1>9. CASE CreateTmp
  BY <1>9 DEF CreateTmp
<1>10. CASE FillTmp
  BY <1>10 DEF FillTmp
<1>11. CASE RenameTmp
  BY <1>11 DEF RenameTmp
<1>12. CASE WriteFails
  BY <1>12 DEF WriteFails
<1>13. CASE StopReturns
  BY <1>13 DEF StopReturns
<1>14. CASE DropPrevious
  BY <1>14 DEF DropPrevious
<1>15. CASE StartFails
  BY <1>15 DEF StartFails
<1>16. CASE Spawn
  <2>1. nextId \in Ids /\ \A i \in Ids : snap[i] = None
    BY <1>16 DEF Spawn, Ids, Current, Stopping
  <2> QED BY <1>16, <2>1 DEF Spawn
<1>17. CASE Install
  BY <1>17 DEF Install
<1>18. CASE Restart
  BY <1>18 DEF Restart, NoSessions
<1>19. CASE UNCHANGED vars
  BY <1>19 DEF vars
<1> QED
  BY <1>1, <1>2, <1>3, <1>4, <1>5, <1>6, <1>7, <1>8, <1>9, <1>10, <1>11, <1>12, <1>13, <1>14,
     <1>15, <1>16, <1>17, <1>18, <1>19
  DEF Next, MainStep

(* How far the save of the session being stopped has come.                   *)
LEMMA ProgressKept ==
  ASSUME IInv, [Next]_vars
  PROVE  SaveProgress'
<1> USE NoneIsNone, StoppedSession
    DEF IInv, TypeOK, CommandShape, Commands, SnapIsFinal, SaveProgress, Idle, Forget, Goto,
            Stopping, Saving,
        disk, sessions
<1>1. ASSUME NEW i \in Ids, Play(i) PROVE SaveProgress'
  BY <1>1 DEF Play
<1>2. ASSUME NEW i \in Ids, EndThread(i) PROVE SaveProgress'
  BY <1>2 DEF EndThread
<1>3. ASSUME NEW i \in Ids, Panic(i) PROVE SaveProgress'
  BY <1>3 DEF Panic
<1>4. ASSUME NEW r \in Roms, CallStart(r) PROVE SaveProgress'
  BY <1>4 DEF CallStart
<1>5. ASSUME NEW id \in Ids \cup {None}, CallStop(id) PROVE SaveProgress'
  BY <1>5 DEF CallStop
<1>6. ASSUME NEW b \in BOOLEAN, SetPaused(b) PROVE SaveProgress'
  BY <1>6 DEF SetPaused
<1>7. CASE AskThread
  BY <1>7 DEF AskThread
<1>8. CASE JoinThread
  BY <1>8 DEF JoinThread
<1>9. CASE CreateTmp
  BY <1>9 DEF CreateTmp
<1>10. CASE FillTmp
  BY <1>10 DEF FillTmp
<1>11. CASE RenameTmp
  BY <1>11 DEF RenameTmp
<1>12. CASE WriteFails
  BY <1>12 DEF WriteFails
<1>13. CASE StopReturns
  BY <1>13 DEF StopReturns
<1>14. CASE DropPrevious
  BY <1>14 DEF DropPrevious
<1>15. CASE StartFails
  BY <1>15 DEF StartFails
<1>16. CASE Spawn
  BY <1>16 DEF Spawn
<1>17. CASE Install
  BY <1>17 DEF Install
<1>18. CASE Restart
  BY <1>18 DEF Restart, NoSessions
<1>19. CASE UNCHANGED vars
  BY <1>19 DEF vars
<1> QED
  BY <1>1, <1>2, <1>3, <1>4, <1>5, <1>6, <1>7, <1>8, <1>9, <1>10, <1>11, <1>12, <1>13, <1>14,
     <1>15, <1>16, <1>17, <1>18, <1>19
  DEF Next, MainStep

(* A game is never behind its file: it starts from it, and the only file      *)
(* written meanwhile is its own.                                             *)
LEMMA AheadKept ==
  ASSUME IInv, [Next]_vars
  PROVE  NeverBehind'
<1> USE NoneIsNone, StoppedSession
    DEF IInv, TypeOK, CommandShape, OneSession, SnapIsFinal, SaveProgress, NeverBehind, Rams,
            Forget, Goto,
        Stopping, Saving, disk, sessions
<1>1. ASSUME NEW i \in Ids, Play(i) PROVE NeverBehind'
  <2>1. \A j \in Ids : thread[j] # "none" => file[rom[j]] \in Nat
    BY DEF AckedIsDurable
  <2> QED BY <1>1, <2>1 DEF Play
<1>2. ASSUME NEW i \in Ids, EndThread(i) PROVE NeverBehind'
  BY <1>2 DEF EndThread
<1>3. ASSUME NEW i \in Ids, Panic(i) PROVE NeverBehind'
  BY <1>3 DEF Panic
<1>4. ASSUME NEW r \in Roms, CallStart(r) PROVE NeverBehind'
  BY <1>4 DEF CallStart
<1>5. ASSUME NEW id \in Ids \cup {None}, CallStop(id) PROVE NeverBehind'
  BY <1>5 DEF CallStop
<1>6. ASSUME NEW b \in BOOLEAN, SetPaused(b) PROVE NeverBehind'
  BY <1>6 DEF SetPaused
<1>7. CASE AskThread
  BY <1>7 DEF AskThread
<1>8. CASE JoinThread
  BY <1>8 DEF JoinThread
<1>9. CASE CreateTmp
  BY <1>9 DEF CreateTmp
<1>10. CASE FillTmp
  BY <1>10 DEF FillTmp
<1>11. CASE RenameTmp
  BY <1>11 DEF RenameTmp
<1>12. CASE WriteFails
  BY <1>12 DEF WriteFails
<1>13. CASE StopReturns
  BY <1>13 DEF StopReturns
<1>14. CASE DropPrevious
  BY <1>14 DEF DropPrevious
<1>15. CASE StartFails
  BY <1>15 DEF StartFails
<1>16. CASE Spawn
  <2>1. nextId \in Ids /\ \A i \in Ids : thread[i] = "none"
    BY <1>16 DEF Spawn, Ids, Current
  <2>2. cmd.load \in Roms /\ file[cmd.load] \in Nat
    BY <1>16 DEF Spawn, AckedIsDurable
  <2> QED BY <1>16, <2>1, <2>2 DEF Spawn
<1>17. CASE Install
  BY <1>17 DEF Install
<1>18. CASE Restart
  BY <1>18 DEF Restart, NoSessions
<1>19. CASE UNCHANGED vars
  BY <1>19 DEF vars
<1> QED
  BY <1>1, <1>2, <1>3, <1>4, <1>5, <1>6, <1>7, <1>8, <1>9, <1>10, <1>11, <1>12, <1>13, <1>14,
     <1>15, <1>16, <1>17, <1>18, <1>19
  DEF Next, MainStep

(* What was reported as saved stays saved. *)
LEMMA AckedKept ==
  ASSUME IInv, [Next]_vars
  PROVE  AckedIsDurable'
<1> USE NoneIsNone, StoppedSession
    DEF IInv, TypeOK, SnapIsFinal, SaveProgress, NeverBehind, AckedIsDurable, Rams, Goto,
        Stopping, Saving, disk, sessions
<1>1. ASSUME NEW i \in Ids, Play(i) PROVE AckedIsDurable'
  BY <1>1 DEF Play
<1>2. ASSUME NEW i \in Ids, EndThread(i) PROVE AckedIsDurable'
  BY <1>2 DEF EndThread
<1>3. ASSUME NEW i \in Ids, Panic(i) PROVE AckedIsDurable'
  BY <1>3 DEF Panic
<1>4. ASSUME NEW r \in Roms, CallStart(r) PROVE AckedIsDurable'
  BY <1>4 DEF CallStart
<1>5. ASSUME NEW id \in Ids \cup {None}, CallStop(id) PROVE AckedIsDurable'
  BY <1>5 DEF CallStop
<1>6. ASSUME NEW b \in BOOLEAN, SetPaused(b) PROVE AckedIsDurable'
  BY <1>6 DEF SetPaused
<1>7. CASE AskThread
  BY <1>7 DEF AskThread
<1>8. CASE JoinThread
  BY <1>8 DEF JoinThread
<1>9. CASE CreateTmp
  BY <1>9 DEF CreateTmp
<1>10. CASE FillTmp
  BY <1>10 DEF FillTmp
<1>11. CASE RenameTmp
  BY <1>11 DEF RenameTmp
<1>12. CASE WriteFails
  BY <1>12 DEF WriteFails
<1>13. CASE StopReturns
  BY <1>13 DEF StopReturns
<1>14. CASE DropPrevious
  BY <1>14 DEF DropPrevious
<1>15. CASE StartFails
  BY <1>15 DEF StartFails
<1>16. CASE Spawn
  BY <1>16 DEF Spawn
<1>17. CASE Install
  BY <1>17 DEF Install
<1>18. CASE Restart
  BY <1>18 DEF Restart, NoSessions
<1>19. CASE UNCHANGED vars
  BY <1>19 DEF vars
<1> QED
  BY <1>1, <1>2, <1>3, <1>4, <1>5, <1>6, <1>7, <1>8, <1>9, <1>10, <1>11, <1>12, <1>13, <1>14,
     <1>15, <1>16, <1>17, <1>18, <1>19
  DEF Next, MainStep

-----------------------------------------------------------------------------
(* The inductive invariant. *)
THEOREM InvariantHolds == Spec => []IInv
<1>1. Init => IInv
  <2> SUFFICES ASSUME Init PROVE IInv
    OBVIOUS
  <2> USE NoneIsNone DEF Init, Idle
  <2>1. nextId \in 1 .. MaxSessions + 1
    BY BoundAssumption
  <2>2. TypeOK
    BY <2>1 DEF TypeOK
  <2>3. CommandShape
    BY DEF CommandShape, Commands, Stopping
  <2>4. OneSession /\ SnapIsFinal /\ SaveProgress /\ NeverBehind
    BY DEF OneSession, Current, SnapIsFinal, SaveProgress, NeverBehind, Saving
  <2>5. AckedIsDurable
    BY DEF AckedIsDurable
  <2> QED BY <2>2, <2>3, <2>4, <2>5 DEF IInv
<1>2. IInv /\ [Next]_vars => IInv'
  BY TypeKept, ShapeKept, SessionKept, SnapKept, ProgressKept, AheadKept, AckedKept DEF IInv
<1> QED BY <1>1, <1>2, PTL DEF Spec

(* One game at most runs and a command can always reach it, and what a stop  *)
(* reported as saved stays saved, through failed writes, crashes and later   *)
(* sessions (start_session, stop_session, write_atomic).                     *)
THEOREM SavesAreSafe == Spec => []SaveInvariant
<1>1. IInv => OneGame
  BY NoneIsNone DEF IInv, CommandShape, OneSession, Current, Stopping, OneGame
<1>2. IInv => SaveInvariant
  BY <1>1 DEF IInv, SaveInvariant
<1> QED BY <1>2, InvariantHolds, PTL

(* A save file only ever moves forward: the only step that changes one puts  *)
(* the last RAM of a session in place that started from it.                  *)
THEOREM SavesMoveForward == Spec => SaveNeverGoesBack
<1>1. ASSUME IInv, [Next]_vars, NEW r \in Roms, file'[r] # Partial, file[r] # Partial
      PROVE  file'[r] >= file[r]
  <2>1. CASE RenameTmp
    <3>1. /\ cmd.on \in Ids /\ thread[cmd.on] # "none" /\ rom[cmd.on] \in Roms
          /\ tmp[rom[cmd.on]] = ram[cmd.on] /\ ram[cmd.on] >= file[rom[cmd.on]]
      <4>1. cmd.at = "rename"
        BY <2>1 DEF RenameTmp
      <4>2. cmd.on \in Ids /\ thread[cmd.on] # "none" /\ rom[cmd.on] \in Roms
        BY <1>1, <4>1, StoppedSession DEF IInv, Stopping
      <4>3. snap[cmd.on] # None /\ tmp[rom[cmd.on]] = snap[cmd.on]
        BY <1>1, <4>1 DEF IInv, SaveProgress, Saving
      <4> QED BY <1>1, <4>2, <4>3 DEF IInv, SnapIsFinal, NeverBehind
    <3>2. file' = [file EXCEPT ![rom[cmd.on]] = tmp[rom[cmd.on]]]
      BY <2>1 DEF RenameTmp
    <3>3. file[r] \in Nat /\ file \in [Roms -> Rams \cup {Partial}]
      BY <1>1, NoneIsNone DEF IInv, TypeOK
    <3> QED BY <3>1, <3>2, <3>3
  <2>2. CASE UNCHANGED file
    <3>1. file[r] \in Nat
      BY <1>1, NoneIsNone DEF IInv, TypeOK
    <3> QED BY <2>2, <3>1
  <2> QED
    BY <1>1, <2>1, <2>2
    DEF Next, MainStep, Play, EndThread, Panic, CallStart, CallStop, SetPaused, AskThread,
        JoinThread, CreateTmp, FillTmp, WriteFails, StopReturns, DropPrevious, StartFails,
        Spawn, Install, Restart, vars, disk
<1>2. IInv /\ [Next]_vars =>
        [\A r \in Roms : file'[r] # Partial /\ file[r] # Partial => file'[r] >= file[r]]_file
  BY <1>1
<1> QED BY <1>2, InvariantHolds, PTL DEF Spec, SaveNeverGoesBack

=============================================================================
