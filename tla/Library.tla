------------------------------ MODULE Library -------------------------------
(***************************************************************************)
(* The ROM library (app/src-tauri/src/library.rs), the commands that       *)
(* change it (commands/library.rs, commands/rom.rs) and its file.          *)
(* Commands run one after the other on the main thread, except             *)
(* import_rom_from_dialog, which is async and runs beside them.  A command *)
(* on ROMs changes the library under its mutex, lets go of it, and takes   *)
(* it again to save; one on collections keeps it until the file is saved.  *)
(* Saving may fail at each file operation, and the process may end at any  *)
(* step.                                                                   *)
(*                                                                         *)
(* Sets of records stand for the lists, whose order only matters to the    *)
(* display.  UUIDs are numbers that are never used twice.  ver counts the  *)
(* changes made to the library: it is not in the code, and tells an older  *)
(* state of the library from a newer one.                                  *)
(***************************************************************************)
EXTENDS Integers, FiniteSets

CONSTANTS
  Hashes,   \* SHA-1s of the ROM files that can be imported
  Paths,    \* places those files can be at
  Titles,   \* display titles; an import takes one from the file's name
  Names,    \* collection names
  MaxVer,   \* bound on the changes made to the library
  None,     \* no file, no lock holder
  Partial   \* a file whose bytes are not all written

(* RomEntry, Collection and Library; a collection lists the ids of its ROMs. *)
RomEntries  == [id : 1 .. MaxVer, hash : Hashes, path : Paths, title : Titles]
Collections == [id : 1 .. MaxVer, name : Names, members : SUBSET (1 .. MaxVer)]
Libraries   == [ver : 0 .. MaxVer, roms : SUBSET RomEntries, colls : SUBSET Collections]

ASSUME NamesAssumption ==
  /\ Partial # None /\ MaxVer \in Nat
  /\ None \notin {"main", "dialog"} /\ None \notin 1 .. MaxVer
  /\ None \notin Libraries /\ Partial \notin Libraries

Threads == {"main", "dialog"}

VARIABLES
  lib,      \* the library in memory
  file,     \* library.json: a library or None
  tmp,      \* library.json.tmp: a library, Partial or None
  lock,     \* the thread that holds the library's mutex across steps
  at,       \* per thread: the step its command is at
  mine,     \* per thread: the library's ver after its command's change, or 0
  acked     \* history: the newest change a command reported as done

vars == <<lib, file, tmp, lock, at, mine, acked>>

Empty == [ver |-> 0, roms |-> {}, colls |-> {}]

(* Ids used so far are at most ver: every change makes at most one.          *)
FreshId == lib.ver + 1

Init ==
  /\ lib = Empty /\ file = None /\ tmp = None /\ lock = None
  /\ at = [t \in Threads |-> "idle"] /\ mine = [t \in Threads |-> 0]
  /\ acked = 0

-----------------------------------------------------------------------------
(* Library's methods: the library after a call that returns Ok. *)

Changed(roms, colls) == [ver |-> lib.ver + 1, roms |-> roms, colls |-> colls]

HasHash(h) == \E r \in lib.roms : r.hash = h

(* import_rom: a known SHA-1 only moves the entry to the new path.           *)
ImportRom(h, p, t) ==
  IF HasHash(h)
  THEN Changed({[r EXCEPT !.path = IF r.hash = h THEN p ELSE @] : r \in lib.roms}, lib.colls)
  ELSE Changed(lib.roms \cup {[id |-> FreshId, hash |-> h, path |-> p, title |-> t]},
               lib.colls)

(* A slip: collections keep the removed ROM's id. *)
RemoveRomOnly(id) == Changed({r \in lib.roms : r.id # id}, lib.colls)

RemoveRom(id) ==
  Changed({r \in lib.roms : r.id # id},
          {[c EXCEPT !.members = @ \ {id}] : c \in lib.colls})

RenameRom(id, t) ==
  Changed({[r EXCEPT !.title = IF r.id = id THEN t ELSE @] : r \in lib.roms}, lib.colls)

CreateCollection(n) ==
  Changed(lib.roms, lib.colls \cup {[id |-> FreshId, name |-> n, members |-> {}]})

OnCollection(id, change(_)) ==
  Changed(lib.roms, {IF c.id = id THEN change(c) ELSE c : c \in lib.colls})

RenameCollection(id, n) == LET To(c) == [c EXCEPT !.name = n] IN OnCollection(id, To)

DeleteCollection(id) == Changed(lib.roms, {c \in lib.colls : c.id # id})

AddRom(id, rom) ==
  LET With(c) == [c EXCEPT !.members = @ \cup {rom}] IN OnCollection(id, With)

DropRom(id, rom) ==
  LET Without(c) == [c EXCEPT !.members = @ \ {rom}] IN OnCollection(id, Without)

NameFree(n, id) == \A c \in lib.colls : c.id # id => c.name # n

(* The changes a command on ROMs can make, and those of one on collections.  *)
(* A call outside these sets returns Err and changes nothing.                *)
RomChanges ==
  {ImportRom(h, p, t) : h \in Hashes, p \in Paths, t \in Titles}
    \cup {RemoveRom(r.id) : r \in lib.roms}
    \cup {RenameRom(r.id, t) : r \in lib.roms, t \in Titles}

CollectionChanges ==
  {CreateCollection(n) : n \in {m \in Names : NameFree(m, None)}}
    \cup (UNION {{RenameCollection(c.id, n) : n \in {m \in Names : NameFree(m, c.id)}}
                   : c \in lib.colls})
    \cup {DeleteCollection(c.id) : c \in lib.colls}
    \cup {AddRom(c.id, r.id) : c \in lib.colls, r \in lib.roms}
    \cup {DropRom(c.id, r.id) : c \in lib.colls, r \in lib.roms}

Imports == {ImportRom(h, p, t) : h \in Hashes, p \in Paths, t \in Titles}

-----------------------------------------------------------------------------
(* The commands. *)

Goto(t, step) == at' = [at EXCEPT ![t] = step]

(* The command returns. *)
Return(t) == Goto(t, "idle") /\ mine' = [mine EXCEPT ![t] = 0]

(* A call that is refused leaves everything as it was, so only calls that    *)
(* change the library are steps.                                             *)
Change(t, changes, next) ==
  /\ at[t] = "idle" /\ lock = None /\ lib.ver < MaxVer
  /\ lib' \in changes
  /\ mine' = [mine EXCEPT ![t] = lib.ver + 1]
  /\ Goto(t, next)
  /\ UNCHANGED <<file, tmp, acked>>

(* rom.rs: the mutex is released between the change and the save. *)
ChangeRoms ==
  /\ Change("main", RomChanges, "persist")
  /\ UNCHANGED lock

(* commands/library.rs: the guard lives until the command returns. *)
ChangeCollections ==
  /\ Change("main", CollectionChanges, "create")
  /\ lock' = "main"

ImportFromDialog ==
  /\ Change("dialog", Imports, "persist")
  /\ UNCHANGED lock

(* A slip: the library is saved without its mutex. *)
PersistUnlocked(t) ==
  /\ at[t] = "persist"
  /\ Goto(t, "create")
  /\ UNCHANGED <<lib, file, tmp, lock, mine, acked>>

(* persist_library takes the mutex again. *)
Persist(t) ==
  /\ at[t] = "persist" /\ lock = None
  /\ lock' = t
  /\ Goto(t, "create")
  /\ UNCHANGED <<lib, file, tmp, mine, acked>>

(* Library::save: create the .tmp sibling, fill and sync it, rename it.      *)
CreateTmp(t) ==
  /\ at[t] = "create"
  /\ tmp' = Partial
  /\ Goto(t, "fill")
  /\ UNCHANGED <<lib, file, lock, mine, acked>>

FillTmp(t) ==
  /\ at[t] = "fill"
  /\ tmp' = lib
  /\ Goto(t, "rename")
  /\ UNCHANGED <<lib, file, lock, mine, acked>>

(* A slip: the command reports success whether or not the file was saved. *)
SaveFailsSilently(t) ==
  /\ at[t] \in {"create", "fill", "rename"}
  /\ lock' = None
  /\ acked' = mine[t]
  /\ Return(t)
  /\ UNCHANGED <<lib, file, tmp>>

(* A file operation fails: the command returns Err; the change stays in      *)
(* memory and reaches the file with the next save that succeeds.             *)
SaveFails(t) ==
  /\ at[t] \in {"create", "fill", "rename"}
  /\ lock' = None
  /\ Return(t)
  /\ UNCHANGED <<lib, file, tmp, acked>>

(* The rename commits the save, and the command returns Ok. *)
RenameTmp(t) ==
  /\ at[t] = "rename"
  /\ file' = tmp /\ tmp' = None
  /\ lock' = None
  /\ acked' = IF mine[t] > acked THEN mine[t] ELSE acked
  /\ Return(t)
  /\ UNCHANGED lib

Finish(t) == Persist(t) \/ CreateTmp(t) \/ FillTmp(t) \/ RenameTmp(t) \/ SaveFails(t)

(* prune_dangling, on load. *)
Pruned(l) ==
  [l EXCEPT !.colls =
    {[c EXCEPT !.members = @ \cap {r.id : r \in l.roms}] : c \in l.colls}]

(* The process ends and is started again: load_or_default.  A file that does *)
(* not parse is an error, and the process does not get to start.             *)
Restart ==
  /\ file # Partial
  /\ lib' = IF file = None THEN Empty ELSE Pruned(file)
  /\ lock' = None
  /\ at' = [t \in Threads |-> "idle"] /\ mine' = [t \in Threads |-> 0]
  /\ UNCHANGED <<file, tmp, acked>>

Next ==
  \/ ChangeRoms \/ ChangeCollections \/ ImportFromDialog
  \/ \E t \in Threads : Finish(t)
  \/ Restart

Spec == Init /\ [][Next]_vars

-----------------------------------------------------------------------------
TypeOK ==
  /\ lib \in Libraries /\ file \in Libraries \cup {None}
  /\ tmp \in Libraries \cup {None, Partial}
  /\ lock \in Threads \cup {None}
  /\ at \in [Threads -> {"idle", "persist", "create", "fill", "rename"}]
  /\ mine \in [Threads -> 0 .. MaxVer] /\ acked \in 0 .. MaxVer

Consistent(l) ==
  /\ \A r, s \in l.roms : (r.id = s.id \/ r.hash = s.hash) => r = s
  /\ \A c, d \in l.colls : (c.id = d.id \/ c.name = d.name) => c = d
  /\ \A c \in l.colls : c.members \subseteq {r.id : r \in l.roms}

(* The invariants of library.rs's header hold in memory and in the file at   *)
(* every step: ids, ROM contents and collection names are unique, and no     *)
(* collection refers to a ROM that is gone, so loading has nothing to prune. *)
LibraryConsistent ==
  /\ Consistent(lib)
  /\ file # None => file # Partial /\ Consistent(file)

(* A change a command returned Ok for is in the file, whatever the other     *)
(* thread, a failed save or a restart does afterwards.                       *)
OkIsDurable == acked > 0 => file # None /\ file.ver >= acked

(* Two saves never overtake each other: the file never returns to an older   *)
(* state of the library.                                                     *)
FileNeverGoesBack ==
  [][file \notin {None, Partial} /\ file' # Partial
       => file' # None /\ file'.ver >= file.ver]_file

(* The mutex is only ever held by a thread in the middle of a save, and no   *)
(* two threads are in one at a time: whoever waits for it gets it, and the   *)
(* shared .tmp sibling has one writer.                                       *)
OneSaver ==
  \A t \in Threads : at[t] \in {"create", "fill", "rename"} <=> lock = t

(* What holds of the library at every step, whichever thread is in it.       *)
LibraryInvariant == TypeOK /\ LibraryConsistent /\ OneSaver
=============================================================================
