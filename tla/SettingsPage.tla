---------------------------- MODULE SettingsPage ----------------------------
(***************************************************************************)
(* The user's settings: the page's copy (app/src/store/settingsStore.ts),  *)
(* the settings view that edits it and saves after a pause of 250 ms       *)
(* (routes/SettingsView.tsx), the game view's volume and mute controls     *)
(* (routes/GameView.tsx), and the host's copy, its file, and the session   *)
(* that plays (src-tauri/src/settings.rs, commands/settings.rs,            *)
(* commands/emulator.rs).                                                  *)
(*                                                                         *)
(* Commands are served in the order they were sent and answered in that    *)
(* order.  Saving the file is one step here: its parts are Library's.      *)
(***************************************************************************)
EXTENDS Integers, Sequences, FiniteSets

CONSTANTS
    Slots,        \* the players
    Actions,      \* the buttons of a controller
    Codes,        \* the keys
    DefaultMaps,  \* the default bindings: per player, a key for each button
    MaxVolume,    \* the loudest
    OddVolumes,   \* what else a file that was edited by hand may hold
    MaxRequests,  \* bound: commands sent
    MaxEdits,     \* bound: keys captured and sliders moved
    Nothing       \* no settings, no timer, no session

ASSUME SettingsAssumption ==
    /\ MaxVolume \in Nat /\ MaxRequests \in Nat /\ MaxEdits \in Nat /\ OddVolumes \subseteq Nat
    /\ DefaultMaps \in [Slots -> [Actions -> Codes]]
    /\ \A p \in Slots : \A a, b \in Actions : DefaultMaps[p][a] = DefaultMaps[p][b] => a = b
    /\ Nothing \notin Nat /\ Nothing \notin [Actions -> Codes]
    /\ Nothing \notin [keys : [Slots -> [Actions -> Codes]], volume : Nat, muted : BOOLEAN]

VARIABLES
    prefs,     \* the host's settings
    saved,     \* what the file holds
    playing,   \* the session's volume and mute, or Nothing
    store,     \* the page's settings, or Nothing
    screen,    \* the view: settings, game or library
    mount,     \* how many settings views there have been
    timers,    \* per player: the bindings that will be saved, or Nothing
    volTimer,  \* the volume that will be sent, or Nothing
    calls,     \* requests on their way
    returns,   \* their answers
    called,    \* bound: requests so far
    edits,     \* bound: edits so far
    unsaved,   \* history: an edit was dropped by leaving the view, or its save failed
    overtaken  \* history: the copy's sound was overwritten, or set in a game

settingsVars == <<prefs, saved, playing, store, screen, mount, timers, volTimer,
                  calls, returns, called, edits, unsaved, overtaken>>
settingsHost == <<prefs, saved, playing>>
pending == <<timers, volTimer>>
wire == <<calls, returns, called>>
memo == <<unsaved, overtaken>>

Volumes == 0 .. MaxVolume
Defaults == [keys |-> DefaultMaps, volume |-> MaxVolume, muted |-> FALSE]
Smaller(a, b) == IF a < b THEN a ELSE b

HasDuplicates(map) == \E a, b \in Actions : a # b /\ map[a] = map[b]

(* load_or_default: the volume is clamped; the bindings are taken as they are. *)
LoadOrDefault(file) ==
    IF file = Nothing THEN Defaults ELSE [file EXCEPT !.volume = Smaller(@, MaxVolume)]

SettingsInit ==
    /\ saved \in {Nothing} \cup {[Defaults EXCEPT !.volume = v] : v \in OddVolumes}
    /\ prefs = LoadOrDefault(saved)
    /\ playing = Nothing /\ store = Nothing /\ screen = "library" /\ mount = 0
    /\ timers = [p \in Slots |-> Nothing] /\ volTimer = Nothing
    /\ calls = << >> /\ returns = << >> /\ called = 0 /\ edits = 0
    /\ unsaved = FALSE /\ overtaken = FALSE

(* What the views draw before and after the first answer. *)
Drawn == IF store = Nothing THEN Defaults ELSE store

Invoke(call) ==
    /\ called < MaxRequests /\ called' = called + 1
    /\ calls' = Append(calls, call)
    /\ UNCHANGED returns

Edit == edits < MaxEdits /\ edits' = edits + 1

-----------------------------------------------------------------------------
(* The settings view. *)

OpenSettings ==
    /\ screen # "settings" /\ screen' = "settings" /\ mount' = mount + 1
    /\ Invoke([cmd |-> "get", mount |-> mount'])
    /\ UNCHANGED <<settingsHost, store, pending, edits, memo>>

(* Leaving drops what the timers would have saved. *)
LeaveSettings ==
    /\ screen = "settings" /\ screen' = "library"
    /\ timers' = [p \in Slots |-> Nothing] /\ volTimer' = Nothing
    /\ unsaved' = (unsaved \/ volTimer # Nothing \/ \E p \in Slots : timers[p] # Nothing)
    /\ UNCHANGED <<settingsHost, store, mount, wire, edits, overtaken>>

(* handleCapture: a key two buttons would share is shown, but not saved. *)
Capture(player, action, code) ==
    /\ screen = "settings" /\ Edit
    /\ LET map == [Drawn.keys[player] EXCEPT ![action] = code] IN
        /\ store' = [Drawn EXCEPT !.keys[player] = map]
        /\ timers' = [timers EXCEPT ![player] = IF HasDuplicates(map) THEN Nothing ELSE map]
    /\ UNCHANGED <<settingsHost, screen, mount, volTimer, wire, memo>>

ResetPlayer(player) ==
    /\ screen = "settings" /\ Edit
    /\ store' = [Drawn EXCEPT !.keys[player] = DefaultMaps[player]]
    /\ timers' = [timers EXCEPT ![player] = DefaultMaps[player]]
    /\ UNCHANGED <<settingsHost, screen, mount, volTimer, wire, memo>>

(* handleResetAll: saves that are due are dropped first. *)
ResetAll ==
    /\ screen = "settings"
    /\ timers' = [p \in Slots |-> Nothing]
    /\ Invoke([cmd |-> "reset"])
    /\ UNCHANGED <<settingsHost, store, screen, mount, volTimer, edits, memo>>

BindingsDue(player) ==
    /\ timers[player] # Nothing
    /\ timers' = [timers EXCEPT ![player] = Nothing]
    /\ Invoke([cmd |-> "bind", player |-> player, map |-> timers[player]])
    /\ UNCHANGED <<settingsHost, store, screen, mount, volTimer, edits, memo>>

SlideVolume(volume) ==
    /\ screen = "settings" /\ Edit
    /\ store' = [Drawn EXCEPT !.volume = volume]
    /\ volTimer' = volume
    /\ UNCHANGED <<settingsHost, screen, mount, timers, wire, memo>>

VolumeDue ==
    /\ volTimer # Nothing /\ volTimer' = Nothing
    /\ Invoke([cmd |-> "volume", volume |-> volTimer])
    /\ UNCHANGED <<settingsHost, store, screen, mount, timers, edits, memo>>

ToggleMute ==
    /\ screen = "settings" /\ Edit
    /\ store' = [Drawn EXCEPT !.muted = ~@]
    /\ Invoke([cmd |-> "mute", muted |-> ~Drawn.muted])
    /\ UNCHANGED <<settingsHost, screen, mount, pending, memo>>

-----------------------------------------------------------------------------
(* The game view starts a session, and stops it when it is left.  Its sound  *)
(* controls are its own: they reach the host at once, but not the store.     *)

OpenGame ==
    /\ screen = "library" /\ screen' = "game"
    /\ Invoke([cmd |-> "start"])
    /\ UNCHANGED <<settingsHost, store, mount, pending, edits, memo>>

LeaveGame ==
    /\ screen = "game" /\ screen' = "library"
    /\ Invoke([cmd |-> "stop"])
    /\ UNCHANGED <<settingsHost, store, mount, pending, edits, memo>>

GameSound ==
    /\ screen = "game" /\ Edit
    /\ \/ \E v \in Volumes : Invoke([cmd |-> "volume", volume |-> v])
       \/ \E b \in BOOLEAN : Invoke([cmd |-> "mute", muted |-> b])
    /\ overtaken' = TRUE
    /\ UNCHANGED <<settingsHost, store, screen, mount, pending, unsaved>>

-----------------------------------------------------------------------------
(* The host. *)

Take(cmd) ==
    /\ calls # << >> /\ Head(calls).cmd = cmd
    /\ calls' = Tail(calls)
    /\ UNCHANGED <<store, screen, mount, pending, called, edits, memo>>

Respond(answer) == returns' = Append(returns, answer)

GetSettings ==
    /\ Take("get")
    /\ Respond([cmd |-> "got", mount |-> Head(calls).mount, settings |-> prefs])
    /\ UNCHANGED settingsHost

(* update_bindings and reset_bindings: the new settings are saved and        *)
(* returned; when the save fails they stay in memory.  A map with a          *)
(* duplicate is refused.                                                     *)
Rebind(settings) ==
    /\ prefs' = settings
    /\ \/ saved' = settings /\ Respond([cmd |-> "set", settings |-> settings])
       \/ Respond([cmd |-> "error"]) /\ UNCHANGED saved
    /\ UNCHANGED playing

UpdateBindingsOf ==
    /\ Take("bind")
    /\ LET c == Head(calls) IN
        IF HasDuplicates(c.map) THEN Respond([cmd |-> "error"]) /\ UNCHANGED settingsHost
        ELSE Rebind([prefs EXCEPT !.keys[c.player] = c.map])

(* A slip: the defaults are only returned, not kept. *)
ResetForgets ==
    /\ Take("reset")
    /\ Respond([cmd |-> "set", settings |-> [prefs EXCEPT !.keys = DefaultMaps]])
    /\ UNCHANGED settingsHost

ResetBindings == Take("reset") /\ Rebind([prefs EXCEPT !.keys = DefaultMaps])

(* set_volume and set_muted: a save that fails is ignored, and the session   *)
(* that plays follows.                                                       *)
SetVolume ==
    /\ Take("volume") /\ prefs' = [prefs EXCEPT !.volume = Head(calls).volume]
    /\ saved' \in {saved, prefs'}
    /\ playing' = IF playing = Nothing THEN Nothing
                  ELSE [playing EXCEPT !.volume = Head(calls).volume]
    /\ UNCHANGED returns

SetMuted ==
    /\ Take("mute") /\ prefs' = [prefs EXCEPT !.muted = Head(calls).muted]
    /\ saved' \in {saved, prefs'}
    /\ playing' = IF playing = Nothing THEN Nothing
                  ELSE [playing EXCEPT !.muted = Head(calls).muted]
    /\ UNCHANGED returns

(* CpalAudio::new: a session begins at full volume, and not muted. *)
StartSession ==
    /\ Take("start")
    /\ playing' = [volume |-> MaxVolume, muted |-> FALSE]
    /\ UNCHANGED <<prefs, saved, returns>>

EndSession ==
    /\ Take("stop") /\ playing' = Nothing
    /\ UNCHANGED <<prefs, saved, returns>>

-----------------------------------------------------------------------------
(* The page takes an answer: setSettings replaces the whole copy. *)

SoundOnItsWay ==
    volTimer # Nothing \/ \E i \in DOMAIN calls : calls[i].cmd \in {"volume", "mute"}

TakeReturn ==
    /\ returns # << >> /\ returns' = Tail(returns)
    /\ LET a == Head(returns)
           loads == a.cmd = "got" /\ screen = "settings" /\ a.mount = mount
           taken == loads \/ a.cmd = "set"
           behind == taken /\ (SoundOnItsWay \/ a.settings.volume # prefs.volume
                                              \/ a.settings.muted # prefs.muted)
       IN  /\ store' = IF taken THEN a.settings ELSE store
           /\ unsaved' = ((unsaved \/ a.cmd = "error") /\ ~loads)
           /\ overtaken' = IF taken THEN behind ELSE overtaken
    /\ UNCHANGED <<settingsHost, screen, mount, pending, calls, called, edits>>

SettingsNext ==
    \/ OpenSettings \/ LeaveSettings \/ ResetAll
    \/ \E p \in Slots :
        \/ ResetPlayer(p) \/ BindingsDue(p)
        \/ \E a \in Actions, c \in Codes : Capture(p, a, c)
    \/ \E v \in Volumes : SlideVolume(v)
    \/ VolumeDue \/ ToggleMute
    \/ OpenGame \/ LeaveGame \/ GameSound
    \/ GetSettings \/ UpdateBindingsOf \/ ResetBindings
    \/ SetVolume \/ SetMuted \/ StartSession \/ EndSession
    \/ TakeReturn

SettingsSpec == SettingsInit /\ [][SettingsNext]_settingsVars

-----------------------------------------------------------------------------
Settled ==
    /\ calls = << >> /\ returns = << >> /\ volTimer = Nothing
    /\ \A p \in Slots : timers[p] = Nothing

(* When nothing is due or in flight, the settings view shows what the host    *)
(* has: the bindings, but for a player whose keys clash and until the next    *)
(* load when a save failed or its time had not come as the view was left; and *)
(* the sound, but for a change that the answer to a change of bindings has    *)
(* overtaken (SettingsView.tsx takes the whole snapshot).                     *)
SettledPageAgrees ==
    Settled /\ screen = "settings" /\ store # Nothing /\ ~unsaved =>
        /\ \A p \in Slots :
            store.keys[p] = prefs.keys[p] \/ HasDuplicates(store.keys[p])
        /\ overtaken \/ (store.volume = prefs.volume /\ store.muted = prefs.muted)

(* No sequence of edits, saves and late answers gets a clash of keys or a     *)
(* volume out of range to the host or into its file.                          *)
HostSettingsValid ==
    /\ prefs.volume \in Volumes
    /\ \A p \in Slots : ~HasDuplicates(prefs.keys[p])
    /\ saved # Nothing => \A p \in Slots : ~HasDuplicates(saved.keys[p])

(* The user's settings, on the page and in the host. *)
SettingsInvariant == SettledPageAgrees /\ HostSettingsValid

(* What commands/emulator.rs says of set_volume: "if no session is running we *)
(* have still persisted the setting for the next start".                      *)
NextStartIsAsLoud ==
    calls = << >> /\ playing # Nothing => playing.volume = prefs.volume
=============================================================================
