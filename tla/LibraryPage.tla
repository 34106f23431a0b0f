----------------------------- MODULE LibraryPage -----------------------------
(***************************************************************************)
(* The library and collection views (app/src/routes/LibraryView.tsx,       *)
(* CollectionView.tsx, components/ImportButton.tsx) and the cached library *)
(* they draw (store/libraryStore.ts), against the host's library.          *)
(*                                                                         *)
(* Commands are served by the host's main thread in the order they were    *)
(* sent and answered in that order; only the import dialog has a thread of *)
(* its own, whose answer comes when it comes.  What the page does with an  *)
(* answer was decided when the user clicked: adding a ROM to a collection  *)
(* or taking it out writes the collection as it was drawn at the click.    *)
(* Library has a command's inner steps and the file.                       *)
(***************************************************************************)
EXTENDS Integers, Sequences, FiniteSets

CONSTANTS
    RomIds,        \* ROMs that can be imported
    CollectionIds, \* ids the host can mint
    Labels,        \* titles of ROMs and names of collections
    MaxCommands,   \* bound: commands and views
    Unloaded       \* no library, no collection, nothing imported

(* Maps from some of the keys. *)
Partial(keys, values) == UNION {[known -> values] : known \in SUBSET keys}
Collections == [name : Labels, roms : SUBSET RomIds]
Libraries == [titles : Partial(RomIds, Labels), lists : Partial(CollectionIds, Collections)]

ASSUME PageAssumption ==
    /\ MaxCommands \in Nat
    /\ RomIds # {} /\ CollectionIds # {} /\ Labels # {}
    /\ RomIds \cap CollectionIds = {}
    /\ Unloaded \notin CollectionIds \cup Libraries

VARIABLES
    catalog,    \* the host's library: titles of its ROMs, and its collections
    minted,     \* the ids of collections there have been
    cached,     \* the page's copy, or Unloaded
    view,       \* the view on the page
    visit,      \* how many views there have been
    commands,   \* requests on their way to the host, oldest first
    answers,    \* their answers on the way back
    dialog,     \* the import: closed, open, or the entry it imported
    issued,     \* bound: commands sent so far
    astray      \* history: the copy was left behind by an answer that was out of date

libraryPageVars ==
    <<catalog, minted, cached, view, visit, commands, answers, dialog, issued, astray>>
hostLibrary == <<catalog, minted>>
drawn == <<view, visit>>

Put(map, key, value) ==
    [k \in DOMAIN map \cup {key} |-> IF k = key THEN value ELSE map[k]]
Drop(map, key) == [k \in DOMAIN map \ {key} |-> map[k]]

Closed == [at |-> "closed"]
EmptyLibrary == [titles |-> << >>, lists |-> << >>]

Load == [cmd |-> "load", visit |-> visit']

(* A library from an earlier run: one ROM in one collection. *)
LibraryPageInit ==
    /\ LET rom == CHOOSE r \in RomIds : TRUE
           list == CHOOSE l \in CollectionIds : TRUE
           label == CHOOSE l \in Labels : TRUE
       IN
        /\ catalog = [titles |-> [r \in {rom} |-> label],
                      lists |-> [l \in {list} |-> [name |-> label, roms |-> {rom}]]]
        /\ minted = {list}
    /\ cached = Unloaded /\ view = "library" /\ visit = 1
    /\ commands = <<[cmd |-> "load", visit |-> 1]>> /\ answers = << >>
    /\ dialog = Closed /\ issued = 1 /\ astray = FALSE

-----------------------------------------------------------------------------
(* The user. *)

Issue(command) ==
    /\ issued < MaxCommands /\ issued' = issued + 1
    /\ commands' = Append(commands, command)
    /\ UNCHANGED <<hostLibrary, cached, answers, dialog, astray>>

Lists == IF cached = Unloaded THEN << >> ELSE cached.lists
Titles == IF cached = Unloaded THEN << >> ELSE cached.titles

(* A view is entered, which loads the library; the load of the one before is *)
(* cancelled.                                                                *)
Enter(next) ==
    /\ view # next /\ visit' = visit + 1 /\ view' = next
    /\ Issue(Load)

LeaveForGame ==
    /\ view # "game" /\ view' = "game"
    /\ UNCHANGED <<hostLibrary, cached, visit, commands, answers, dialog, issued, astray>>

ConfirmRemove(rom) ==
    /\ view = "library" /\ rom \in DOMAIN Titles
    /\ Issue([cmd |-> "removeRom", rom |-> rom])
    /\ UNCHANGED drawn

RenameTitle(rom, title) ==
    /\ view = "library" /\ rom \in DOMAIN Titles /\ title # Titles[rom]
    /\ Issue([cmd |-> "renameRom", rom |-> rom, title |-> title])
    /\ UNCHANGED drawn

Create(name) ==
    /\ view = "collections"
    /\ Issue([cmd |-> "create", name |-> name])
    /\ UNCHANGED drawn

RenameList(list, name) ==
    /\ view = "collections" /\ list \in DOMAIN Lists
    /\ Issue([cmd |-> "rename", list |-> list, name |-> name])
    /\ UNCHANGED drawn

DeleteList(list) ==
    /\ view = "collections" /\ list \in DOMAIN Lists
    /\ Issue([cmd |-> "delete", list |-> list])
    /\ UNCHANGED drawn

(* handleAddRom and handleRemoveRom close over the collection as it is drawn. *)
AddMember(list, rom) ==
    /\ view = "collections" /\ list \in DOMAIN Lists
    /\ rom \in DOMAIN Titles \ Lists[list].roms
    /\ Issue([cmd |-> "add", list |-> list, rom |-> rom, was |-> Lists[list]])
    /\ UNCHANGED drawn

DropMember(list, rom) ==
    /\ view = "collections" /\ list \in DOMAIN Lists
    /\ rom \in DOMAIN Titles \cap Lists[list].roms
    /\ Issue([cmd |-> "drop", list |-> list, rom |-> rom, was |-> Lists[list]])
    /\ UNCHANGED drawn

OpenDialog ==
    /\ view = "library" /\ dialog = Closed
    /\ issued < MaxCommands /\ issued' = issued + 1
    /\ dialog' = [at |-> "open"]
    /\ UNCHANGED <<hostLibrary, cached, drawn, commands, answers, astray>>

-----------------------------------------------------------------------------
(* The host. *)

NameTaken(name, list) == \E l \in DOMAIN catalog.lists \ {list} : catalog.lists[l].name = name

Refuses(c) ==
    CASE c.cmd \in {"removeRom", "renameRom"} -> c.rom \notin DOMAIN catalog.titles
      [] c.cmd = "create" -> NameTaken(c.name, Unloaded) \/ CollectionIds \subseteq minted
      [] c.cmd = "rename" -> c.list \notin DOMAIN catalog.lists \/ NameTaken(c.name, c.list)
      [] c.cmd \in {"delete", "drop"} -> c.list \notin DOMAIN catalog.lists
      [] c.cmd = "add" -> c.list \notin DOMAIN catalog.lists \/ c.rom \notin DOMAIN catalog.titles

FreshList == CHOOSE l \in CollectionIds : l \notin minted

WithoutRom(library, rom) ==
    [titles |-> Drop(library.titles, rom),
     lists |-> [l \in DOMAIN library.lists |-> [library.lists[l] EXCEPT !.roms = @ \ {rom}]]]

Changes(c) ==
    CASE c.cmd = "removeRom" -> WithoutRom(catalog, c.rom)
      [] c.cmd = "renameRom" -> [catalog EXCEPT !.titles[c.rom] = c.title]
      [] c.cmd = "create" ->
            [catalog EXCEPT !.lists = Put(@, FreshList, [name |-> c.name, roms |-> {}])]
      [] c.cmd = "rename" -> [catalog EXCEPT !.lists[c.list].name = c.name]
      [] c.cmd = "delete" -> [catalog EXCEPT !.lists = Drop(@, c.list)]
      [] c.cmd = "add" -> [catalog EXCEPT !.lists[c.list].roms = @ \cup {c.rom}]
      [] c.cmd = "drop" -> [catalog EXCEPT !.lists[c.list].roms = @ \ {c.rom}]

(* What the page will be told: the entry, for the commands that return one. *)
Reply(c, after) ==
    CASE c.cmd = "create" ->
            [cmd |-> "entry", list |-> FreshList, value |-> after.lists[FreshList]]
      [] c.cmd = "rename" -> [cmd |-> "entry", list |-> c.list, value |-> after.lists[c.list]]
      [] OTHER -> c

Answer(a) == answers' = Append(answers, a)

ServeLoad ==
    /\ commands # << >> /\ Head(commands).cmd = "load"
    /\ commands' = Tail(commands)
    /\ Answer([cmd |-> "load", visit |-> Head(commands).visit, library |-> catalog])
    /\ UNCHANGED <<hostLibrary, cached, drawn, dialog, issued, astray>>

(* A change is refused, or made and saved.  When the save fails the command  *)
(* fails, but the change stays in the host's memory.                         *)
ServeChange ==
    /\ commands # << >> /\ Head(commands).cmd # "load"
    /\ commands' = Tail(commands)
    /\ LET c == Head(commands) IN
        IF Refuses(c) THEN Answer([cmd |-> "error", lost |-> FALSE]) /\ UNCHANGED hostLibrary
        ELSE /\ catalog' = Changes(c)
             /\ minted' = minted \cup DOMAIN catalog'.lists
             /\ \/ Answer(Reply(c, catalog'))
                \/ Answer([cmd |-> "error", lost |-> TRUE])
    /\ UNCHANGED <<cached, drawn, dialog, issued, astray>>

(* import_rom: a ROM that is known keeps its title. *)
DialogImports ==
    /\ dialog.at = "open"
    /\ \E rom \in RomIds, label \in Labels :
        LET title == IF rom \in DOMAIN catalog.titles THEN catalog.titles[rom] ELSE label
        IN  /\ catalog' = [catalog EXCEPT !.titles = Put(@, rom, title)]
            /\ dialog' = [at |-> "done", rom |-> rom, title |-> title]
    /\ UNCHANGED <<minted, cached, drawn, commands, answers, issued, astray>>

(* The dialog's thread answers: with the entry it made, which meanwhile may  *)
(* be another's; with nothing, when it was cancelled; or with an error.      *)
DialogAnswers ==
    /\ dialog # Closed /\ dialog' = Closed
    /\ \/ dialog.at = "open" /\ UNCHANGED answers
       \/ /\ dialog.at = "done"
          /\ Answer([cmd |-> "imported", rom |-> dialog.rom, title |-> dialog.title,
                     late |-> dialog.rom \notin DOMAIN catalog.titles
                              \/ catalog.titles[dialog.rom] # dialog.title])
       \/ /\ dialog.at = "done"
          /\ Answer([cmd |-> "error", lost |-> TRUE])
    /\ UNCHANGED <<hostLibrary, cached, drawn, commands, issued, astray>>

-----------------------------------------------------------------------------
(* The page takes an answer: the store's reducers. *)

Current == IF cached = Unloaded THEN EmptyLibrary ELSE cached

UpsertRom(rom, title) == [Current EXCEPT !.titles = Put(@, rom, title)]
UpsertCollection(list, value) == [Current EXCEPT !.lists = Put(@, list, value)]

(* A slip: the collections keep the ROM. *)
RemoveRomFromTitles(rom) ==
    IF cached = Unloaded THEN cached ELSE [cached EXCEPT !.titles = Drop(@, rom)]

RemoveCachedRom(rom) == IF cached = Unloaded THEN cached ELSE WithoutRom(cached, rom)

RemoveCollection(list) ==
    IF cached = Unloaded THEN cached ELSE [cached EXCEPT !.lists = Drop(@, list)]

IsCurrentLoad(a) == a.cmd = "load" /\ view # "game" /\ a.visit = visit

Shown(a) ==
    CASE a.cmd = "load" -> IF IsCurrentLoad(a) THEN a.library ELSE cached
      [] a.cmd = "removeRom" -> RemoveCachedRom(a.rom)
      [] a.cmd \in {"renameRom", "imported"} -> UpsertRom(a.rom, a.title)
      [] a.cmd = "entry" -> UpsertCollection(a.list, a.value)
      [] a.cmd = "delete" -> RemoveCollection(a.list)
      [] a.cmd = "add" -> UpsertCollection(a.list, [a.was EXCEPT !.roms = @ \cup {a.rom}])
      [] a.cmd = "drop" -> UpsertCollection(a.list, [a.was EXCEPT !.roms = @ \ {a.rom}])
      [] a.cmd = "error" -> cached

(* The collection a member's answer writes is not the one the page has now. *)
OutOfDate(a) == a.list \notin DOMAIN Lists \/ Lists[a.list] # a.was

Strays(a) ==
    CASE a.cmd \in {"add", "drop"} -> OutOfDate(a)
      [] a.cmd = "imported" -> a.late
      [] a.cmd = "error" -> a.lost
      [] OTHER -> FALSE

TakeAnswer ==
    /\ answers # << >>
    /\ LET a == Head(answers) IN
        /\ cached' = Shown(a)
        /\ astray' = (~IsCurrentLoad(a) /\ (astray \/ Strays(a)))
    /\ answers' = Tail(answers)
    /\ UNCHANGED <<hostLibrary, drawn, commands, dialog, issued>>

LibraryPageNext ==
    \/ \E next \in {"library", "collections"} : Enter(next)
    \/ LeaveForGame
    \/ \E rom \in RomIds : ConfirmRemove(rom) \/ \E title \in Labels : RenameTitle(rom, title)
    \/ \E name \in Labels : Create(name)
    \/ \E list \in CollectionIds :
        \/ DeleteList(list)
        \/ \E name \in Labels : RenameList(list, name)
        \/ \E rom \in RomIds : AddMember(list, rom) \/ DropMember(list, rom)
    \/ OpenDialog \/ DialogImports \/ DialogAnswers
    \/ ServeLoad \/ ServeChange \/ TakeAnswer

LibraryPageSpec == LibraryPageInit /\ [][LibraryPageNext]_libraryPageVars

-----------------------------------------------------------------------------
(* Once nothing is in flight, a view shows the host's library, whatever was   *)
(* clicked meanwhile in whichever view, and a load always heals the copy.  It *)
(* is left behind in exactly three cases: a save that failed after the change *)
(* was made, an import answered after its ROM was changed again, and a ROM    *)
(* added to or taken out of a collection whose earlier change had not been    *)
(* answered when it was clicked (CollectionView.tsx writes the collection it  *)
(* closed over).                                                              *)
PageShowsLibrary ==
    view # "game" /\ commands = << >> /\ answers = << >> /\ dialog = Closed /\ ~astray
        => cached = catalog
=============================================================================
