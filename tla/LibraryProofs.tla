--------------------------- MODULE LibraryProofs ----------------------------
(***************************************************************************)
(* Proofs about Library, for every set of ROM files, paths, titles and     *)
(* collection names, and any number of changes.                            *)
(***************************************************************************)
EXTENDS Library, TLAPS

(* Every id in use was made by one of the changes so far, so the next one's  *)
(* is new.                                                                   *)
IdsAreOld(l) == /\ \A r \in l.roms : r.id <= l.ver
                /\ \A c \in l.colls : c.id <= l.ver

Sound(l) == Consistent(l) /\ IdsAreOld(l)

(* The file is a state the library went through, and not one from before a   *)
(* restart's load: it is never newer than the library in memory.             *)
FileIsOlder == file # None => Sound(file) /\ file.ver <= lib.ver

(* What a save is about to commit is the library as it is, with the change   *)
(* of the command that saves.                                                *)
SaveIsCurrent ==
  \A t \in Threads : mine[t] <= lib.ver /\ (at[t] = "rename" => tmp = lib)

IInv ==
  /\ TypeOK /\ Sound(lib) /\ FileIsOlder /\ OneSaver /\ SaveIsCurrent /\ OkIsDurable

-----------------------------------------------------------------------------
(* Each method of the library: from a sound library, one that is sound and   *)
(* counts a change more.                                                     *)
Successor(l) == l \in Libraries /\ Sound(l) /\ l.ver = lib.ver + 1

(* An id is made of the next change, and no entry has it yet. *)
LEMMA FreshIdIsNew ==
  ASSUME lib \in Libraries, Sound(lib), lib.ver < MaxVer
  PROVE  /\ FreshId \in 1 .. MaxVer /\ lib.ver + 1 \in 0 .. MaxVer
         /\ \A r \in lib.roms : r.id # FreshId /\ r.id <= lib.ver + 1
         /\ \A c \in lib.colls : c.id # FreshId /\ c.id <= lib.ver + 1
<1>1. lib.ver \in 0 .. MaxVer /\ MaxVer \in Nat
  BY NamesAssumption DEF Libraries
<1>2. /\ \A r \in lib.roms : r.id \in Nat /\ r.id <= lib.ver
      /\ \A c \in lib.colls : c.id \in Nat /\ c.id <= lib.ver
  BY DEF Libraries, RomEntries, Collections, Sound, IdsAreOld
<1> QED BY <1>1, <1>2 DEF FreshId

(* A change is sound where the entries it leaves are. *)
LEMMA ChangedSound ==
  ASSUME lib \in Libraries, Sound(lib), lib.ver < MaxVer,
         NEW roms \in SUBSET RomEntries, NEW colls \in SUBSET Collections,
         \A r, s \in roms : (r.id = s.id \/ r.hash = s.hash) => r = s,
         \A c, d \in colls : (c.id = d.id \/ c.name = d.name) => c = d,
         \A c \in colls : c.members \subseteq {r.id : r \in roms},
         \A r \in roms : r.id <= lib.ver + 1,
         \A c \in colls : c.id <= lib.ver + 1
  PROVE  Successor(Changed(roms, colls))
BY FreshIdIsNew DEF Changed, Successor, Libraries, Sound, Consistent, IdsAreOld

(* Importing replaces the path of a known image, or adds an entry *)
(* (import_rom).                                                  *)
LEMMA ImportRomSound ==
  ASSUME lib \in Libraries, Sound(lib), lib.ver < MaxVer,
         NEW h \in Hashes, NEW p \in Paths, NEW t \in Titles
  PROVE  Successor(ImportRom(h, p, t))
<1> USE DEF Libraries, Sound, Consistent
<1>1. CASE HasHash(h)
  <2> DEFINE Moved(r) == [r EXCEPT !.path = IF r.hash = h THEN p ELSE @]
             roms == {Moved(r) : r \in lib.roms}
  <2>1. \A r \in lib.roms : /\ Moved(r) \in RomEntries
                            /\ Moved(r).id = r.id /\ Moved(r).hash = r.hash
    BY DEF RomEntries
  <2>2. ImportRom(h, p, t) = Changed(roms, lib.colls)
    BY <1>1 DEF ImportRom
  <2> HIDE DEF Moved
  <2>3. roms \in SUBSET RomEntries /\ \A r \in roms : r.id <= lib.ver + 1
    BY <2>1, FreshIdIsNew
  <2>4. \A r, s \in roms : (r.id = s.id \/ r.hash = s.hash) => r = s
    BY <2>1
  <2>5. {r.id : r \in roms} = {r.id : r \in lib.roms}
    BY <2>1
  <2> HIDE DEF roms
  <2> QED BY <2>2, <2>3, <2>4, <2>5, FreshIdIsNew, ChangedSound
<1>2. CASE ~HasHash(h)
  <2> DEFINE new == [id |-> FreshId, hash |-> h, path |-> p, title |-> t]
             roms == lib.roms \cup {new}
  <2>1. ImportRom(h, p, t) = Changed(roms, lib.colls)
    BY <1>2 DEF ImportRom
  <2>2. new \in RomEntries /\ new.id = FreshId /\ new.hash = h
    BY FreshIdIsNew DEF RomEntries
  <2> HIDE DEF new
  <2>3. roms \in SUBSET RomEntries /\ \A r \in roms : r.id <= lib.ver + 1
    BY <2>2, FreshIdIsNew DEF FreshId
  <2>4. \A r, s \in roms : (r.id = s.id \/ r.hash = s.hash) => r = s
    BY <1>2, <2>2, FreshIdIsNew DEF HasHash
  <2>5. {r.id : r \in lib.roms} \subseteq {r.id : r \in roms}
    OBVIOUS
  <2> HIDE DEF roms
  <2> QED BY <2>1, <2>3, <2>4, <2>5, FreshIdIsNew, ChangedSound
<1> QED BY <1>1, <1>2

(* Removing a game takes it out of every collection (remove_rom). *)
LEMMA RemoveRomSound ==
  ASSUME lib \in Libraries, Sound(lib), lib.ver < MaxVer, NEW id \in 1 .. MaxVer
  PROVE  Successor(RemoveRom(id))
<1> USE DEF Libraries, Sound, Consistent
<1> DEFINE Purged(c) == [c EXCEPT !.members = @ \ {id}]
           roms == {r \in lib.roms : r.id # id}
           colls == {Purged(c) : c \in lib.colls}
<1>1. RemoveRom(id) = Changed(roms, colls)
  BY DEF RemoveRom
<1>2. \A c \in lib.colls : /\ Purged(c) \in Collections /\ Purged(c).id = c.id
                           /\ Purged(c).name = c.name /\ Purged(c).members = c.members \ {id}
  BY DEF Collections
<1> HIDE DEF Purged
<1>3. /\ roms \in SUBSET RomEntries /\ \A r \in roms : r.id <= lib.ver + 1
      /\ \A r, s \in roms : (r.id = s.id \/ r.hash = s.hash) => r = s
  BY FreshIdIsNew
<1>4. /\ colls \in SUBSET Collections /\ \A c \in colls : c.id <= lib.ver + 1
      /\ \A c, d \in colls : (c.id = d.id \/ c.name = d.name) => c = d
  BY <1>2, FreshIdIsNew
<1>5. \A c \in colls : c.members \subseteq {r.id : r \in roms}
  BY <1>2
<1> HIDE DEF roms, colls
<1> QED BY <1>1, <1>3, <1>4, <1>5, ChangedSound

(* Renaming a game leaves its id and its image (rename_rom). *)
LEMMA RenameRomSound ==
  ASSUME lib \in Libraries, Sound(lib), lib.ver < MaxVer, NEW id \in 1 .. MaxVer,
         NEW t \in Titles
  PROVE  Successor(RenameRom(id, t))
<1> USE DEF Libraries, Sound, Consistent
<1> DEFINE Titled(r) == [r EXCEPT !.title = IF r.id = id THEN t ELSE @]
           roms == {Titled(r) : r \in lib.roms}
<1>1. RenameRom(id, t) = Changed(roms, lib.colls)
  BY DEF RenameRom
<1>2. \A r \in lib.roms : /\ Titled(r) \in RomEntries
                          /\ Titled(r).id = r.id /\ Titled(r).hash = r.hash
  BY DEF RomEntries
<1> HIDE DEF Titled
<1>3. /\ roms \in SUBSET RomEntries /\ \A r \in roms : r.id <= lib.ver + 1
      /\ \A r, s \in roms : (r.id = s.id \/ r.hash = s.hash) => r = s
  BY <1>2, FreshIdIsNew
<1>4. {r.id : r \in roms} = {r.id : r \in lib.roms}
  BY <1>2
<1> HIDE DEF roms
<1> QED BY <1>1, <1>3, <1>4, FreshIdIsNew, ChangedSound

(* A new collection has a name no other has (create_collection). *)
LEMMA CreateCollectionSound ==
  ASSUME lib \in Libraries, Sound(lib), lib.ver < MaxVer, NEW n \in Names,
         NameFree(n, None)
  PROVE  Successor(CreateCollection(n))
<1> USE DEF Libraries, Sound, Consistent
<1> DEFINE new == [id |-> FreshId, name |-> n, members |-> {}]
           colls == lib.colls \cup {new}
<1>1. CreateCollection(n) = Changed(lib.roms, colls)
  BY DEF CreateCollection
<1>2. new \in Collections /\ new.id = FreshId /\ new.name = n /\ new.members = {}
  BY FreshIdIsNew DEF Collections
<1> HIDE DEF new
<1>3. \A c \in lib.colls : c.name # n
  BY NamesAssumption DEF NameFree, Collections
<1>4. /\ colls \in SUBSET Collections /\ \A c \in colls : c.id <= lib.ver + 1
      /\ \A c, d \in colls : (c.id = d.id \/ c.name = d.name) => c = d
      /\ \A c \in colls : c.members \subseteq {r.id : r \in lib.roms}
  BY <1>2, <1>3, FreshIdIsNew DEF FreshId
<1> HIDE DEF colls
<1> QED BY <1>1, <1>4, FreshIdIsNew, ChangedSound

(* Deleting a collection leaves its games (delete_collection). *)
LEMMA DeleteCollectionSound ==
  ASSUME lib \in Libraries, Sound(lib), lib.ver < MaxVer, NEW id \in 1 .. MaxVer
  PROVE  Successor(DeleteCollection(id))
BY FreshIdIsNew, ChangedSound DEF DeleteCollection, Libraries, Sound, Consistent

(* A collection takes a name only if no other has it (rename_collection). *)
LEMMA RenameCollectionSound ==
  ASSUME lib \in Libraries, Sound(lib), lib.ver < MaxVer, NEW id \in 1 .. MaxVer,
         NEW n \in Names, NameFree(n, id)
  PROVE  Successor(RenameCollection(id, n))
<1> USE DEF Libraries, Sound, Consistent
<1> DEFINE Named(c) == IF c.id = id THEN [c EXCEPT !.name = n] ELSE c
           colls == {Named(c) : c \in lib.colls}
<1>1. RenameCollection(id, n) = Changed(lib.roms, colls)
  BY DEF RenameCollection, OnCollection
<1>2. \A c \in lib.colls : /\ Named(c) \in Collections /\ Named(c).id = c.id
                           /\ Named(c).name = IF c.id = id THEN n ELSE c.name
                           /\ Named(c).members = c.members
  BY DEF Collections
<1> HIDE DEF Named
<1>3. \A c \in lib.colls : c.id # id => c.name # n
  BY DEF NameFree
<1>4. /\ colls \in SUBSET Collections /\ \A c \in colls : c.id <= lib.ver + 1
      /\ \A c, d \in colls : (c.id = d.id \/ c.name = d.name) => c = d
      /\ \A c \in colls : c.members \subseteq {r.id : r \in lib.roms}
  BY <1>2, <1>3, FreshIdIsNew
<1> HIDE DEF colls
<1> QED BY <1>1, <1>4, FreshIdIsNew, ChangedSound

(* Only a game of the library enters a collection (add_rom_to_collection). *)
LEMMA AddRomSound ==
  ASSUME lib \in Libraries, Sound(lib), lib.ver < MaxVer, NEW id \in 1 .. MaxVer,
         NEW rom \in {r.id : r \in lib.roms}
  PROVE  Successor(AddRom(id, rom))
<1> USE DEF Libraries, Sound, Consistent
<1> DEFINE With(c) == IF c.id = id THEN [c EXCEPT !.members = @ \cup {rom}] ELSE c
           colls == {With(c) : c \in lib.colls}
<1>1. AddRom(id, rom) = Changed(lib.roms, colls)
  BY DEF AddRom, OnCollection
<1>2. rom \in 1 .. MaxVer
  BY DEF RomEntries
<1>3. \A c \in lib.colls : /\ With(c) \in Collections /\ With(c).id = c.id
                           /\ With(c).name = c.name
                           /\ With(c).members \subseteq c.members \cup {rom}
  BY <1>2 DEF Collections
<1> HIDE DEF With
<1>4. /\ colls \in SUBSET Collections /\ \A c \in colls : c.id <= lib.ver + 1
      /\ \A c, d \in colls : (c.id = d.id \/ c.name = d.name) => c = d
      /\ \A c \in colls : c.members \subseteq {r.id : r \in lib.roms}
  BY <1>3, FreshIdIsNew
<1> HIDE DEF colls
<1> QED BY <1>1, <1>4, FreshIdIsNew, ChangedSound

(* Taking a game out of a collection leaves both *)
(* (remove_rom_from_collection).                 *)
LEMMA DropRomSound ==
  ASSUME lib \in Libraries, Sound(lib), lib.ver < MaxVer, NEW id \in 1 .. MaxVer,
         NEW rom \in 1 .. MaxVer
  PROVE  Successor(DropRom(id, rom))
<1> USE DEF Libraries, Sound, Consistent
<1> DEFINE Without(c) == IF c.id = id THEN [c EXCEPT !.members = @ \ {rom}] ELSE c
           colls == {Without(c) : c \in lib.colls}
<1>1. DropRom(id, rom) = Changed(lib.roms, colls)
  BY DEF DropRom, OnCollection
<1>2. \A c \in lib.colls : /\ Without(c) \in Collections /\ Without(c).id = c.id
                           /\ Without(c).name = c.name /\ Without(c).members \subseteq c.members
  BY DEF Collections
<1> HIDE DEF Without
<1>3. /\ colls \in SUBSET Collections /\ \A c \in colls : c.id <= lib.ver + 1
      /\ \A c, d \in colls : (c.id = d.id \/ c.name = d.name) => c = d
      /\ \A c \in colls : c.members \subseteq {r.id : r \in lib.roms}
  BY <1>2, FreshIdIsNew
<1> HIDE DEF colls
<1> QED BY <1>1, <1>3, FreshIdIsNew, ChangedSound

(* Whatever a command changes, the library it leaves is sound.               *)
LEMMA ChangesSound ==
  ASSUME lib \in Libraries, Sound(lib), lib.ver < MaxVer,
         NEW new \in RomChanges \cup CollectionChanges \cup Imports
  PROVE  Successor(new)
<1>1. /\ \A r \in lib.roms : r.id \in 1 .. MaxVer
      /\ \A c \in lib.colls : c.id \in 1 .. MaxVer
  BY DEF Libraries, RomEntries, Collections
<1>2. CASE new \in RomChanges \cup Imports
  <2>1. ASSUME NEW h \in Hashes, NEW p \in Paths, NEW t \in Titles, new = ImportRom(h, p, t)
        PROVE  Successor(new)
    BY <2>1, ImportRomSound
  <2>2. ASSUME NEW r \in lib.roms, new = RemoveRom(r.id) PROVE Successor(new)
    BY <1>1, <2>2, RemoveRomSound
  <2>3. ASSUME NEW r \in lib.roms, NEW t \in Titles, new = RenameRom(r.id, t)
        PROVE  Successor(new)
    BY <1>1, <2>3, RenameRomSound
  <2> QED BY <1>2, <2>1, <2>2, <2>3 DEF RomChanges, Imports
<1>3. CASE new \in CollectionChanges
  <2>1. ASSUME NEW n \in Names, NameFree(n, None), new = CreateCollection(n)
        PROVE  Successor(new)
    BY <2>1, CreateCollectionSound
  <2>2. ASSUME NEW c \in lib.colls, NEW n \in Names, NameFree(n, c.id),
               new = RenameCollection(c.id, n)
        PROVE  Successor(new)
    BY <1>1, <2>2, RenameCollectionSound
  <2>3. ASSUME NEW c \in lib.colls, new = DeleteCollection(c.id) PROVE Successor(new)
    BY <1>1, <2>3, DeleteCollectionSound
  <2>4. ASSUME NEW c \in lib.colls, NEW r \in lib.roms, new = AddRom(c.id, r.id)
        PROVE  Successor(new)
    BY <1>1, <2>4, AddRomSound
  <2>5. ASSUME NEW c \in lib.colls, NEW r \in lib.roms, new = DropRom(c.id, r.id)
        PROVE  Successor(new)
    BY <1>1, <2>5, DropRomSound
  <2>6. \/ \E n \in Names : NameFree(n, None) /\ new = CreateCollection(n)
        \/ \E c \in lib.colls, n \in Names :
             NameFree(n, c.id) /\ new = RenameCollection(c.id, n)
        \/ \E c \in lib.colls : new = DeleteCollection(c.id)
        \/ \E c \in lib.colls, r \in lib.roms : new = AddRom(c.id, r.id)
        \/ \E c \in lib.colls, r \in lib.roms : new = DropRom(c.id, r.id)
    BY <1>3 DEF CollectionChanges
  <2> QED BY <2>1, <2>2, <2>3, <2>4, <2>5, <2>6
<1> QED BY <1>2, <1>3

(* A sound library is loaded as it was saved: there is nothing to prune.     *)
LEMMA NothingToPrune ==
  ASSUME NEW l \in Libraries, Consistent(l)
  PROVE  Pruned(l) = l
<1> DEFINE Cut(c) == [c EXCEPT !.members = @ \cap {r.id : r \in l.roms}]
<1>1. \A c \in l.colls : Cut(c) = c
  BY DEF Libraries, Collections, Consistent
<1>2. {Cut(c) : c \in l.colls} = l.colls
  BY <1>1
<1>3. Pruned(l) = [l EXCEPT !.colls = {Cut(c) : c \in l.colls}]
  BY DEF Pruned
<1> QED BY <1>2, <1>3 DEF Libraries

-----------------------------------------------------------------------------
(* A change: its command holds no lock from before, and no other thread is   *)
(* saving.                                                                   *)
LEMMA ChangeKeeps ==
  ASSUME IInv, NEW t \in Threads, NEW next \in {"persist", "create"},
         NEW changes \in SUBSET (RomChanges \cup CollectionChanges \cup Imports),
         Change(t, changes, next), lock' = IF next = "create" THEN t ELSE lock
  PROVE  IInv'
<1> USE DEF IInv, TypeOK
<1>1. Successor(lib')
  BY ChangesSound DEF Change
<1>2. lib.ver \in Nat /\ lib' \in Libraries /\ lib'.ver = lib.ver + 1 /\ Sound(lib)'
  BY <1>1 DEF Successor, Libraries
<1>3. \A u \in Threads : at[u] \notin {"create", "fill", "rename"}
  BY NamesAssumption DEF Change, OneSaver, Threads
<1>4. /\ at' \in [Threads -> {"idle", "persist", "create", "fill", "rename"}]
      /\ at' = [at EXCEPT ![t] = next] /\ lock = None
      /\ mine' = [mine EXCEPT ![t] = lib.ver + 1] /\ UNCHANGED <<file, tmp, acked>>
  BY DEF Change, Goto
<1>5. TypeOK'
  BY <1>2, <1>4, FreshIdIsNew DEF Change
<1>6. FileIsOlder'
  BY <1>2, <1>4 DEF FileIsOlder, Libraries
<1>7. OneSaver'
  BY <1>3, <1>4, NamesAssumption DEF OneSaver, Threads
<1>8. SaveIsCurrent'
  BY <1>2, <1>3, <1>4 DEF SaveIsCurrent
<1>9. OkIsDurable'
  BY <1>4 DEF OkIsDurable
<1> QED BY <1>2, <1>5, <1>6, <1>7, <1>8, <1>9

(* The steps of a save: it is the mutex's holder that takes them, so nobody  *)
(* else has the .tmp file and the library stands still.                      *)
LEMMA FinishKeeps ==
  ASSUME IInv, NEW t \in Threads, Finish(t)
  PROVE  IInv'
<1> USE NamesAssumption DEF IInv, TypeOK, Goto, Return
<1>1. lib.ver \in 0 .. MaxVer /\ (file # None => file.ver \in 0 .. MaxVer)
  BY DEF Libraries
<1>2. CASE Persist(t)
  <2>1. /\ TypeOK' /\ UNCHANGED <<lib, file, tmp, mine, acked>>
        /\ at' = [at EXCEPT ![t] = "create"] /\ lock = None /\ lock' = t
    BY <1>2 DEF Persist
  <2>2. OneSaver'
    BY <2>1, NamesAssumption DEF OneSaver, Threads
  <2> QED BY <2>1, <2>2 DEF FileIsOlder, SaveIsCurrent, OkIsDurable
<1>3. CASE CreateTmp(t) \/ FillTmp(t)
  <2>1. /\ lock = t /\ UNCHANGED <<lib, file, lock, mine, acked>>
        /\ \A u \in Threads : u # t => at[u] # "rename"
    BY <1>3 DEF CreateTmp, FillTmp, OneSaver
  <2>2. TypeOK' /\ OneSaver' /\ SaveIsCurrent'
    BY <1>3, <2>1 DEF CreateTmp, FillTmp, OneSaver, SaveIsCurrent
  <2> QED BY <2>1, <2>2 DEF FileIsOlder, OkIsDurable
<1>4. CASE RenameTmp(t)
  <2>1. /\ lock = t /\ tmp = lib /\ file' = lib /\ UNCHANGED lib
        /\ \A u \in Threads : u # t => at[u] # "rename"
    BY <1>4 DEF RenameTmp, OneSaver, SaveIsCurrent
  <2>2. /\ acked' = IF mine[t] > acked THEN mine[t] ELSE acked
        /\ at' = [at EXCEPT ![t] = "idle"] /\ mine' = [mine EXCEPT ![t] = 0]
        /\ tmp' = None /\ lock' = None
    BY <1>4 DEF RenameTmp
  <2>3. TypeOK'
    BY <2>1, <2>2
  <2>4. OneSaver' /\ FileIsOlder' /\ SaveIsCurrent'
    BY <1>1, <2>1, <2>2 DEF OneSaver, FileIsOlder, SaveIsCurrent, Threads
  <2>5. acked' <= lib.ver
    BY <1>1, <2>2 DEF SaveIsCurrent, OkIsDurable, FileIsOlder
  <2> QED BY <2>1, <2>3, <2>4, <2>5 DEF OkIsDurable
<1>5. CASE SaveFails(t)
  <2>1. /\ lock = t /\ lock' = None /\ UNCHANGED <<lib, file, tmp, acked>>
        /\ at' = [at EXCEPT ![t] = "idle"] /\ mine' = [mine EXCEPT ![t] = 0]
    BY <1>5 DEF SaveFails, OneSaver
  <2>2. TypeOK' /\ OneSaver' /\ SaveIsCurrent'
    BY <1>1, <2>1 DEF OneSaver, SaveIsCurrent, Threads
  <2> QED BY <2>1, <2>2 DEF FileIsOlder, OkIsDurable
<1> QED BY <1>2, <1>3, <1>4, <1>5 DEF Finish

(* A restart goes back to the file, with every command gone.                 *)
LEMMA RestartKeeps ==
  ASSUME IInv, Restart
  PROVE  IInv'
<1> USE NamesAssumption DEF IInv, TypeOK, Restart
<1>1. /\ lib' = IF file = None THEN Empty ELSE file
      /\ UNCHANGED <<file, tmp, acked>> /\ lock' = None
      /\ at' = [t \in Threads |-> "idle"] /\ mine' = [t \in Threads |-> 0]
  BY NothingToPrune DEF FileIsOlder, Sound
<1>2. Empty \in Libraries /\ Sound(Empty) /\ Empty.ver = 0
  BY DEF Empty, Libraries, Sound, Consistent, IdsAreOld
<1>3. file # None => file.ver \in 0 .. MaxVer
  BY DEF Libraries
<1>4. TypeOK' /\ Sound(lib)' /\ FileIsOlder'
  BY <1>1, <1>2, <1>3 DEF FileIsOlder
<1>5. OneSaver' /\ SaveIsCurrent'
  BY <1>1, <1>4 DEF OneSaver, SaveIsCurrent, Libraries, Threads
<1> QED BY <1>1, <1>4, <1>5 DEF OkIsDurable

(* Every step of the two threads keeps the inductive invariant. *)
LEMMA StepKeeps ==
  ASSUME IInv, [Next]_vars
  PROVE  IInv'
<1>1. CASE ChangeRoms
  BY <1>1, ChangeKeeps DEF ChangeRoms, Threads
<1>2. CASE ChangeCollections
  BY <1>2, ChangeKeeps DEF ChangeCollections, Threads
<1>3. CASE ImportFromDialog
  BY <1>3, ChangeKeeps DEF ImportFromDialog, Threads
<1>4. ASSUME NEW t \in Threads, Finish(t) PROVE IInv'
  BY <1>4, FinishKeeps
<1>5. CASE Restart
  BY <1>5, RestartKeeps
<1>6. CASE UNCHANGED vars
  BY <1>6 DEF vars, IInv, TypeOK, Sound, Consistent, IdsAreOld, FileIsOlder, OneSaver,
              SaveIsCurrent, OkIsDurable
<1> QED BY <1>1, <1>2, <1>3, <1>4, <1>5, <1>6 DEF Next

-----------------------------------------------------------------------------
(* The inductive invariant. *)
THEOREM InvariantHolds == Spec => []IInv
<1>1. Init => IInv
  <2> SUFFICES ASSUME Init PROVE IInv
    OBVIOUS
  <2> USE NamesAssumption DEF Init, Empty
  <2>1. TypeOK
    BY DEF TypeOK, Libraries
  <2>2. Sound(lib)
    BY DEF Sound, Consistent, IdsAreOld
  <2>3. FileIsOlder /\ OneSaver /\ SaveIsCurrent /\ OkIsDurable
    BY DEF FileIsOlder, OneSaver, SaveIsCurrent, OkIsDurable, Threads
  <2> QED BY <2>1, <2>2, <2>3 DEF IInv
<1>2. IInv /\ [Next]_vars => IInv'
  BY StepKeeps
<1> QED BY <1>1, <1>2, PTL DEF Spec

(* The library is consistent in memory and in the file at every step, and    *)
(* the mutex is held exactly by the one thread that is saving.               *)
THEOREM LibraryIsConsistent == Spec => []LibraryInvariant
<1>1. IInv => LibraryInvariant
  BY NamesAssumption DEF IInv, TypeOK, Sound, FileIsOlder, LibraryInvariant, LibraryConsistent
<1> QED BY <1>1, InvariantHolds, PTL

(* A change that a command returned Ok for is in the file for good, whatever *)
(* the other thread, a failed save or a restart does afterwards.             *)
THEOREM OkStaysDurable == Spec => []OkIsDurable
<1>1. IInv => OkIsDurable
  BY DEF IInv
<1> QED BY <1>1, InvariantHolds, PTL

(* Two saves never overtake each other: the one step that replaces the file  *)
(* puts the library as it is there, and the library is never older.          *)
THEOREM FileMovesForward == Spec => FileNeverGoesBack
<1>1. ASSUME IInv, [Next]_vars, file \notin {None, Partial}, file' # Partial
      PROVE  file' # None /\ file'.ver >= file.ver
  <2>1. ASSUME NEW t \in Threads, RenameTmp(t) PROVE file' # None /\ file'.ver >= file.ver
    <3>1. file' = lib
      BY <1>1, <2>1 DEF RenameTmp, IInv, SaveIsCurrent
    <3> QED
      BY <1>1, <3>1, NamesAssumption DEF IInv, TypeOK, FileIsOlder, Libraries
  <2>2. CASE UNCHANGED file
    BY <1>1, <2>2 DEF IInv, TypeOK, Libraries
  <2> QED
    BY <1>1, <2>1, <2>2
    DEF Next, ChangeRoms, ChangeCollections, ImportFromDialog, Change, Finish, Persist,
        CreateTmp, FillTmp, SaveFails, Restart, vars
<1>2. IInv /\ [Next]_vars =>
        [file \notin {None, Partial} /\ file' # Partial
           => file' # None /\ file'.ver >= file.ver]_file
  BY <1>1
<1> QED BY <1>2, InvariantHolds, PTL DEF Spec, FileNeverGoesBack
=============================================================================
