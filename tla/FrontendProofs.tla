--------------------------- MODULE FrontendProofs ---------------------------
(***************************************************************************)
(* Proofs about the page and what the host has: the settings               *)
(* (SettingsPage), for every set of players, buttons and keys, every       *)
(* volume range, and any number of requests and edits; the library         *)
(* (LibraryPage), for every set of ROMs, collections and names, and any    *)
(* number of commands; the session of a game view (GameView), for any      *)
(* number of views and of pause requests in flight; and the keys of a game *)
(* (InputPath), for any bindings, keys and number of buttons.              *)
(***************************************************************************)
EXTENDS SettingsPage, LibraryPage, GameView, InputPath,
        SequenceTheorems, FiniteSetTheorems, TLAPS

Maps == [Actions -> Codes]
Settings == [keys : [Slots -> Maps], volume : Volumes, muted : BOOLEAN]
Files == [keys : [Slots -> Maps], volume : Nat, muted : BOOLEAN]

Calls ==
  [cmd : {"get"}, mount : Nat] \cup [cmd : {"reset", "start", "stop"}]
  \cup [cmd : {"bind"}, player : Slots, map : Maps]
  \cup [cmd : {"volume"}, volume : Volumes] \cup [cmd : {"mute"}, muted : BOOLEAN]

Answers ==
  [cmd : {"got"}, mount : Nat, settings : Settings]
  \cup [cmd : {"set"}, settings : Settings] \cup [cmd : {"error"}]

SettingsTypes ==
  /\ prefs \in Settings /\ saved \in Files \cup {Nothing}
  /\ store \in Settings \cup {Nothing}
  /\ screen \in {"settings", "game", "library"} /\ mount \in Nat
  /\ timers \in [Slots -> Maps \cup {Nothing}] /\ volTimer \in Volumes \cup {Nothing}
  /\ calls \in Seq(Calls) /\ returns \in Seq(Answers)
  /\ unsaved \in BOOLEAN /\ overtaken \in BOOLEAN

(* The answer that loads the mounted view, and those it will take.           *)
Loads(a) == a.cmd = "got" /\ a.mount = mount
Taken(a) == a.cmd = "set" \/ Loads(a)

LoadAsked == \E i \in DOMAIN calls : calls[i].cmd = "get" /\ calls[i].mount = mount
LoadAnswered == \E i \in DOMAIN returns : Loads(returns[i])
TakenAfter(i) == \E j \in DOMAIN returns : j > i /\ Taken(returns[j])
ErrorAfter(i) == \E j \in DOMAIN returns : j > i /\ returns[j].cmd = "error"

SaveOnItsWay(p) ==
  \/ timers[p] # Nothing
  \/ \E i \in DOMAIN calls : \/ calls[i].cmd = "reset"
                             \/ calls[i].cmd = "bind" /\ calls[i].player = p

(* Nothing but an error follows the last answer to be taken that the host    *)
(* changed its bindings after: the page will then have the host's.           *)
LastAnswerIsCurrent ==
  \A i \in DOMAIN returns :
    Taken(returns[i]) /\ ~TakenAfter(i) =>
      ErrorAfter(i) \/ \A p \in Slots : returns[i].settings.keys[p] = prefs.keys[p]

(* With no such answer on its way the page has them already, but for what it *)
(* has still to save, could not save, or will not save.                      *)
KeyIsCurrent(p) ==
  \/ unsaved \/ ErrorAfter(0) \/ SaveOnItsWay(p)
  \/ HasDuplicates(store.keys[p]) \/ store.keys[p] = prefs.keys[p]

KeysAreCurrent == ~TakenAfter(0) => \A p \in Slots : KeyIsCurrent(p)

(* The volume and mute the host will have, once it has served the last       *)
(* request that sets them, are the page's.                                   *)
LastOf(cmd, i) == calls[i].cmd = cmd /\ \A j \in DOMAIN calls : j > i => calls[j].cmd # cmd
NoneSent(cmd) == \A i \in DOMAIN calls : calls[i].cmd # cmd

VolumeArrives ==
  /\ volTimer # Nothing => volTimer = store.volume
  /\ volTimer = Nothing =>
       /\ \A i \in DOMAIN calls : LastOf("volume", i) => calls[i].volume = store.volume
       /\ NoneSent("volume") => prefs.volume = store.volume

MuteArrives ==
  /\ \A i \in DOMAIN calls : LastOf("mute", i) => calls[i].muted = store.muted
  /\ NoneSent("mute") => prefs.muted = store.muted

PageFollows ==
  screen = "settings" /\ ~LoadAsked =>
    /\ LastAnswerIsCurrent /\ KeysAreCurrent
    /\ ~LoadAnswered => store # Nothing /\ (overtaken \/ (VolumeArrives /\ MuteArrives))

NoClash ==
  /\ \A p \in Slots : ~HasDuplicates(prefs.keys[p])
  /\ saved # Nothing => \A p \in Slots : ~HasDuplicates(saved.keys[p])

SettingsIInv == SettingsTypes /\ NoClash /\ PageFollows

-----------------------------------------------------------------------------
(* The two queues, and records. *)

(* An element that is appended stands behind the others. *)
LEMMA Appended ==
  ASSUME NEW S, NEW s \in Seq(S), NEW x \in S, NEW t, t = Append(s, x)
  PROVE  /\ t \in Seq(S) /\ Len(s) \in Nat /\ DOMAIN s = 1 .. Len(s)
         /\ DOMAIN t = 1 .. Len(s) + 1 /\ t[Len(s) + 1] = x
         /\ \A i \in 1 .. Len(s) : t[i] = s[i] /\ s[i] \in S
BY AppendProperties

(* When the first element is taken the others move up. *)
LEMMA Removed ==
  ASSUME NEW S, NEW s \in Seq(S), s # << >>, NEW t, t = Tail(s)
  PROVE  /\ t \in Seq(S) /\ Len(s) \in Nat /\ Len(s) >= 1 /\ DOMAIN s = 1 .. Len(s)
         /\ DOMAIN t = 1 .. Len(s) - 1 /\ Head(s) = s[1]
         /\ \A i \in 1 .. Len(s) : s[i] \in S
         /\ \A i \in 1 .. Len(s) - 1 : t[i] = s[i + 1]
BY HeadTailProperties

(* "Nothing" is no bindings, no volume and no settings. *)
LEMMA NothingIsNone ==
  /\ Nothing \notin Maps /\ Nothing \notin Volumes
  /\ Nothing \notin Files /\ Nothing \notin Settings /\ Settings \subseteq Files
  /\ \A p \in Slots : DefaultMaps[p] \in Maps
<1>1. Nothing \notin Maps /\ Nothing \notin Files
  BY SettingsAssumption DEF Maps, Files
<1>2. Volumes \subseteq Nat /\ Nothing \notin Volumes
  BY SettingsAssumption DEF Volumes
<1>3. Settings \subseteq Files
  BY <1>2 DEF Settings, Files
<1> QED BY <1>1, <1>2, <1>3, SettingsAssumption DEF Maps

(* The defaults are settings. *)
LEMMA DefaultSettings == Defaults \in Settings
<1>1. MaxVolume \in Volumes
  BY SettingsAssumption DEF Volumes
<1> QED BY <1>1, SettingsAssumption DEF Defaults, Settings, Maps

(* What the views draw are settings. *)
LEMMA DrawnSettings == SettingsTypes => Drawn \in Settings
BY DefaultSettings, NothingIsNone DEF Drawn, SettingsTypes

(* Bindings of one player put in the settings change that player's only. *)
LEMMA KeysPut ==
  ASSUME NEW s \in Settings, NEW p \in Slots, NEW map \in Maps
  PROVE  LET t == [s EXCEPT !.keys[p] = map]
         IN  /\ t \in Settings /\ t.volume = s.volume /\ t.muted = s.muted
             /\ t.keys[p] = map
             /\ \A q \in Slots \ {p} : t.keys[q] = s.keys[q]
BY DEF Settings

(* A volume or a mute put in the settings leaves the bindings alone. *)
LEMMA SoundPut ==
  ASSUME NEW s \in Settings
  PROVE  /\ \A v \in Volumes :
              LET t == [s EXCEPT !.volume = v]
              IN  t \in Settings /\ t.volume = v /\ t.muted = s.muted /\ t.keys = s.keys
         /\ \A b \in BOOLEAN :
              LET t == [s EXCEPT !.muted = b]
              IN  t \in Settings /\ t.volume = s.volume /\ t.muted = b /\ t.keys = s.keys
         /\ LET t == [s EXCEPT !.keys = DefaultMaps]
            IN  t \in Settings /\ t.volume = s.volume /\ t.muted = s.muted
                /\ t.keys = DefaultMaps
BY SettingsAssumption DEF Settings, Maps

-----------------------------------------------------------------------------
(* Sending, serving and answering. *)

(* A request that is sent stands behind all the others. *)
LEMMA CallSent ==
  ASSUME SettingsTypes, NEW c \in Calls, Invoke(c)
  PROVE  /\ calls' \in Seq(Calls) /\ returns' = returns
         /\ Len(calls) \in Nat /\ DOMAIN calls = 1 .. Len(calls)
         /\ DOMAIN calls' = 1 .. Len(calls) + 1 /\ calls'[Len(calls) + 1] = c
         /\ \A i \in DOMAIN calls : calls'[i] = calls[i]
<1>1. calls \in Seq(Calls) /\ calls' = Append(calls, c)
  BY DEF SettingsTypes, Invoke
<1> QED BY <1>1, Appended DEF Invoke

(* The host serves the oldest request. *)
LEMMA CallTaken ==
  ASSUME SettingsTypes, NEW cmd, Take(cmd)
  PROVE  /\ calls' \in Seq(Calls)
         /\ Len(calls) \in Nat /\ Len(calls) >= 1 /\ DOMAIN calls = 1 .. Len(calls)
         /\ DOMAIN calls' = 1 .. Len(calls) - 1
         /\ Head(calls) = calls[1] /\ calls[1] \in Calls /\ calls[1].cmd = cmd
         /\ \A i \in DOMAIN calls' : calls'[i] = calls[i + 1]
<1>1. calls \in Seq(Calls) /\ calls # << >> /\ calls' = Tail(calls)
  BY DEF SettingsTypes, Take
<1> QED BY <1>1, Removed DEF Take

(* Its answer stands behind all the others. *)
LEMMA AnswerSent ==
  ASSUME SettingsTypes, NEW a \in Answers, Respond(a)
  PROVE  /\ returns' \in Seq(Answers)
         /\ Len(returns) \in Nat /\ DOMAIN returns = 1 .. Len(returns)
         /\ DOMAIN returns' = 1 .. Len(returns) + 1 /\ returns'[Len(returns) + 1] = a
         /\ \A i \in DOMAIN returns : returns'[i] = returns[i]
<1>1. returns \in Seq(Answers) /\ returns' = Append(returns, a)
  BY DEF SettingsTypes, Respond
<1> QED BY <1>1, Appended

(* The page takes the oldest answer. *)
LEMMA AnswerTaken ==
  ASSUME SettingsTypes, TakeReturn
  PROVE  /\ returns' \in Seq(Answers)
         /\ Len(returns) \in Nat /\ Len(returns) >= 1 /\ DOMAIN returns = 1 .. Len(returns)
         /\ DOMAIN returns' = 1 .. Len(returns) - 1
         /\ Head(returns) = returns[1] /\ returns[1] \in Answers
         /\ \A i \in DOMAIN returns' : returns'[i] = returns[i + 1]
<1>1. returns \in Seq(Answers) /\ returns # << >> /\ returns' = Tail(returns)
  BY DEF SettingsTypes, TakeReturn
<1> QED BY <1>1, Removed

(* An answer with settings has them. *)
LEMMA AnswerFields ==
  ASSUME NEW a \in Answers
  PROVE  a.cmd \in {"got", "set", "error"} /\ (a.cmd # "error" => a.settings \in Settings)
BY DEF Answers

(* A request has the fields its command calls for. *)
LEMMA CallFields ==
  ASSUME NEW c \in Calls
  PROVE  /\ c.cmd = "get" => c.mount \in Nat
         /\ c.cmd = "bind" => c.player \in Slots /\ c.map \in Maps
         /\ c.cmd = "volume" => c.volume \in Volumes
         /\ c.cmd = "mute" => c.muted \in BOOLEAN
BY DEF Calls

-----------------------------------------------------------------------------
(* Types. *)

(* What the page does leaves the types. *)
LEMMA PageTypes ==
  ASSUME SettingsTypes,
         \/ OpenSettings \/ LeaveSettings \/ ResetAll \/ VolumeDue \/ ToggleMute
         \/ OpenGame \/ LeaveGame \/ GameSound
         \/ \E p \in Slots : \/ ResetPlayer(p) \/ BindingsDue(p)
                             \/ \E a \in Actions, c \in Codes : Capture(p, a, c)
         \/ \E v \in Volumes : SlideVolume(v)
  PROVE  SettingsTypes'
<1> USE DEF settingsHost, pending, wire, memo
<1>1. CASE OpenSettings
  <2>1. [cmd |-> "get", mount |-> mount'] \in Calls
    BY <1>1 DEF OpenSettings, SettingsTypes, Calls
  <2> QED BY <1>1, <2>1, CallSent DEF OpenSettings, SettingsTypes
<1>2. CASE LeaveSettings
  BY <1>2 DEF LeaveSettings, SettingsTypes
<1>3. CASE ResetAll
  <2>1. [cmd |-> "reset"] \in Calls
    BY DEF Calls
  <2> QED BY <1>3, <2>1, CallSent DEF ResetAll, SettingsTypes
<1>4. CASE VolumeDue
  <2>1. [cmd |-> "volume", volume |-> volTimer] \in Calls
    BY <1>4 DEF VolumeDue, SettingsTypes, Calls
  <2> QED BY <1>4, <2>1, CallSent DEF VolumeDue, SettingsTypes
<1>5. CASE ToggleMute
  <2>1. (~Drawn.muted) \in BOOLEAN
    BY DrawnSettings DEF Settings
  <2>2. [cmd |-> "mute", muted |-> ~Drawn.muted] \in Calls
    BY <2>1 DEF Calls
  <2>3. store' = [Drawn EXCEPT !.muted = ~Drawn.muted]
    BY <1>5 DEF ToggleMute
  <2>4. store' \in Settings
    BY <2>1, <2>3, DrawnSettings, SoundPut
  <2> QED BY <1>5, <2>2, <2>4, CallSent DEF ToggleMute, SettingsTypes
<1>6. CASE OpenGame \/ LeaveGame
  <2>1. [cmd |-> "start"] \in Calls /\ [cmd |-> "stop"] \in Calls
    BY DEF Calls
  <2> QED BY <1>6, <2>1, CallSent DEF OpenGame, LeaveGame, SettingsTypes
<1>7. CASE GameSound
  <2>1. /\ \A v \in Volumes : [cmd |-> "volume", volume |-> v] \in Calls
        /\ \A b \in BOOLEAN : [cmd |-> "mute", muted |-> b] \in Calls
    BY DEF Calls
  <2>2. calls' \in Seq(Calls) /\ returns' = returns
    BY <1>7, <2>1, CallSent DEF GameSound
  <2> QED BY <1>7, <2>2 DEF GameSound, SettingsTypes
<1>8. ASSUME NEW p \in Slots, ResetPlayer(p)
      PROVE  SettingsTypes'
  <2>1. DefaultMaps[p] \in Maps
    BY NothingIsNone
  <2>2. store' \in Settings
    BY <1>8, <2>1, DrawnSettings, KeysPut DEF ResetPlayer
  <2> QED BY <1>8, <2>1, <2>2 DEF ResetPlayer, SettingsTypes
<1>9. ASSUME NEW p \in Slots, BindingsDue(p)
      PROVE  SettingsTypes'
  <2>1. timers[p] \in Maps
    BY <1>9 DEF BindingsDue, SettingsTypes
  <2>2. [cmd |-> "bind", player |-> p, map |-> timers[p]] \in Calls
    BY <2>1 DEF Calls
  <2> QED BY <1>9, <2>2, CallSent DEF BindingsDue, SettingsTypes
<1>10. ASSUME NEW p \in Slots, NEW a \in Actions, NEW c \in Codes, Capture(p, a, c)
       PROVE  SettingsTypes'
  <2>1. [Drawn.keys[p] EXCEPT ![a] = c] \in Maps
    BY DrawnSettings DEF Settings, Maps
  <2>2. store' \in Settings
    BY <1>10, <2>1, DrawnSettings, KeysPut DEF Capture
  <2> QED BY <1>10, <2>1, <2>2 DEF Capture, SettingsTypes
<1>11. ASSUME NEW v \in Volumes, SlideVolume(v)
       PROVE  SettingsTypes'
  <2>1. store' \in Settings
    BY <1>11, DrawnSettings, SoundPut DEF SlideVolume
  <2> QED BY <1>11, <2>1 DEF SlideVolume, SettingsTypes
<1> QED BY <1>1, <1>2, <1>3, <1>4, <1>5, <1>6, <1>7, <1>8, <1>9, <1>10, <1>11

(* And so does what the host does, and an answer that the page takes. *)
LEMMA HostTypes ==
  ASSUME SettingsTypes,
         \/ GetSettings \/ UpdateBindingsOf \/ ResetBindings \/ SetVolume \/ SetMuted
         \/ StartSession \/ EndSession \/ TakeReturn
  PROVE  SettingsTypes'
<1> USE DEF settingsHost, pending, wire, memo
<1>1. CASE GetSettings
  <2>1. Take("get") /\ Head(calls).mount \in Nat
    BY <1>1, CallTaken, CallFields DEF GetSettings
  <2>2. [cmd |-> "got", mount |-> Head(calls).mount, settings |-> prefs] \in Answers
    BY <2>1 DEF Answers, SettingsTypes
  <2> QED BY <1>1, <2>1, <2>2, CallTaken, AnswerSent DEF GetSettings, Take, SettingsTypes
<1>2. ASSUME NEW cmd, Take(cmd), NEW s \in Settings, Rebind(s)
      PROVE  SettingsTypes'
  <2>1. [cmd |-> "set", settings |-> s] \in Answers /\ [cmd |-> "error"] \in Answers
    BY DEF Answers
  <2>2. returns' \in Seq(Answers)
    BY <1>2, <2>1, AnswerSent DEF Rebind
  <2>3. saved' \in Files \cup {Nothing} /\ prefs' \in Settings
    BY <1>2, NothingIsNone DEF Rebind, SettingsTypes
  <2> QED BY <1>2, <2>2, <2>3, CallTaken DEF Take, SettingsTypes
<1>3. CASE UpdateBindingsOf
  <2>1. /\ Take("bind") /\ Head(calls).player \in Slots /\ Head(calls).map \in Maps
    BY <1>3, CallTaken, CallFields DEF UpdateBindingsOf
  <2>2. [prefs EXCEPT !.keys[Head(calls).player] = Head(calls).map] \in Settings
    BY <2>1, KeysPut DEF SettingsTypes
  <2>3. [cmd |-> "error"] \in Answers
    BY DEF Answers
  <2>4. CASE HasDuplicates(Head(calls).map)
    BY <1>3, <2>1, <2>3, <2>4, CallTaken, AnswerSent
       DEF UpdateBindingsOf, Take, SettingsTypes
  <2>5. CASE ~HasDuplicates(Head(calls).map)
    BY <1>2, <1>3, <2>1, <2>2, <2>5 DEF UpdateBindingsOf
  <2> QED BY <2>4, <2>5
<1>4. CASE ResetBindings
  <2>1. [prefs EXCEPT !.keys = DefaultMaps] \in Settings
    BY SoundPut DEF SettingsTypes
  <2> QED BY <1>2, <1>4, <2>1 DEF ResetBindings
<1>5. CASE SetVolume
  <2>1. Take("volume") /\ Head(calls).volume \in Volumes
    BY <1>5, CallTaken, CallFields DEF SetVolume
  <2>2. prefs' \in Settings
    BY <1>5, <2>1, SoundPut DEF SetVolume, SettingsTypes
  <2> QED BY <1>5, <2>1, <2>2, CallTaken, NothingIsNone DEF SetVolume, Take, SettingsTypes
<1>6. CASE SetMuted
  <2>1. Take("mute") /\ Head(calls).muted \in BOOLEAN
    BY <1>6, CallTaken, CallFields DEF SetMuted
  <2>2. prefs' \in Settings
    BY <1>6, <2>1, SoundPut DEF SetMuted, SettingsTypes
  <2> QED BY <1>6, <2>1, <2>2, CallTaken, NothingIsNone DEF SetMuted, Take, SettingsTypes
<1>7. CASE StartSession \/ EndSession
  BY <1>7, CallTaken DEF StartSession, EndSession, Take, SettingsTypes
<1>8. CASE TakeReturn
  <2> DEFINE a == Head(returns)
             loads == a.cmd = "got" /\ screen = "settings" /\ a.mount = mount
             taken == loads \/ a.cmd = "set"
  <2>1. a \in Answers
    BY <1>8, AnswerTaken
  <2>2. taken => a.settings \in Settings
    BY <2>1, AnswerFields
  <2>3. store' \in Settings \cup {Nothing}
    BY <1>8, <2>2 DEF TakeReturn, SettingsTypes
  <2>4. unsaved' \in BOOLEAN
    BY <1>8 DEF TakeReturn
  <2>5. overtaken' \in BOOLEAN
    BY <1>8 DEF TakeReturn, SettingsTypes
  <2> QED BY <1>8, <2>3, <2>4, <2>5, AnswerTaken DEF TakeReturn, SettingsTypes
<1> QED BY <1>1, <1>3, <1>4, <1>5, <1>6, <1>7, <1>8

(* So no step leaves them. *)
LEMMA SettingsTypesKept ==
  ASSUME SettingsTypes, [SettingsNext]_settingsVars
  PROVE  SettingsTypes'
<1>1. CASE UNCHANGED settingsVars
  BY <1>1 DEF settingsVars, SettingsTypes
<1>2. CASE SettingsNext
  BY <1>2, PageTypes, HostTypes DEF SettingsNext
<1> QED BY <1>1, <1>2

(* The program starts within the types, without clashes and with no view     *)
(* of the settings open.                                                     *)
LEMMA SettingsStart == SettingsInit => SettingsIInv
<1> SUFFICES ASSUME SettingsInit PROVE SettingsIInv
  OBVIOUS
<1>1. \A v \in Nat : Smaller(v, MaxVolume) \in Volumes
  BY SettingsAssumption DEF Smaller, Volumes
<1>2. PICK s \in {Nothing} \cup {[Defaults EXCEPT !.volume = v] : v \in OddVolumes} :
        saved = s /\ prefs = LoadOrDefault(s)
  BY DEF SettingsInit
<1>3. /\ prefs \in Settings /\ prefs.keys = DefaultMaps
      /\ saved \in Files \cup {Nothing} /\ (saved # Nothing => saved.keys = DefaultMaps)
  <2>1. CASE s = Nothing
    BY <1>2, <2>1, DefaultSettings DEF LoadOrDefault, Defaults
  <2>2. CASE s # Nothing
    <3>1. PICK v \in OddVolumes : s = [Defaults EXCEPT !.volume = v]
      BY <1>2, <2>2
    <3>2. s \in Files /\ s.keys = DefaultMaps /\ s.volume \in Nat
      BY <3>1, SettingsAssumption DEF Defaults, Files, Maps
    <3>3. prefs = [s EXCEPT !.volume = Smaller(s.volume, MaxVolume)]
      BY <1>2, <2>2 DEF LoadOrDefault
    <3>4. prefs \in Settings /\ prefs.keys = DefaultMaps
      BY <1>1, <3>2, <3>3 DEF Settings, Files
    <3> QED BY <1>2, <3>2, <3>4
  <2> QED BY <2>1, <2>2
<1>4. SettingsTypes
  <2>1. << >> \in Seq(Calls) /\ << >> \in Seq(Answers)
    OBVIOUS
  <2> QED BY <1>3, <2>1 DEF SettingsInit, SettingsTypes
<1>5. \A p \in Slots : ~HasDuplicates(DefaultMaps[p])
  BY SettingsAssumption DEF HasDuplicates
<1>6. NoClash
  BY <1>3, <1>5 DEF NoClash
<1>7. PageFollows
  BY DEF SettingsInit, PageFollows
<1> QED BY <1>4, <1>6, <1>7 DEF SettingsIInv

(* No step brings a clash to the host or its file. *)
LEMMA NoClashKept ==
  ASSUME SettingsTypes, NoClash, [SettingsNext]_settingsVars
  PROVE  NoClash'
<1>1. CASE UNCHANGED settingsHost
  BY <1>1 DEF settingsHost, NoClash, HasDuplicates
<1>2. ASSUME NEW s, Rebind(s), \A p \in Slots : ~HasDuplicates(s.keys[p])
      PROVE  NoClash'
  <2>1. prefs' = s /\ saved' \in {saved, s}
    BY <1>2 DEF Rebind
  <2> QED BY <1>2, <2>1 DEF NoClash
<1>3. CASE UpdateBindingsOf
  <2>1. Take("bind") /\ Head(calls).player \in Slots /\ Head(calls).map \in Maps
    BY <1>3, CallTaken, CallFields DEF UpdateBindingsOf
  <2> DEFINE s == [prefs EXCEPT !.keys[Head(calls).player] = Head(calls).map]
  <2>2. CASE HasDuplicates(Head(calls).map)
    BY <1>1, <1>3, <2>2 DEF UpdateBindingsOf
  <2>3. CASE ~HasDuplicates(Head(calls).map)
    <3>1. Rebind(s)
      BY <1>3, <2>3 DEF UpdateBindingsOf
    <3> prefs \in Settings
      BY DEF SettingsTypes
    <3>2. /\ s.keys[Head(calls).player] = Head(calls).map
          /\ \A q \in Slots \ {Head(calls).player} : s.keys[q] = prefs.keys[q]
      BY <2>1 DEF Settings
    <3>3. \A p \in Slots : ~HasDuplicates(s.keys[p])
      BY <2>3, <3>2 DEF NoClash
    <3> QED BY <1>2, <3>1, <3>3
  <2> QED BY <2>2, <2>3
<1>4. CASE ResetBindings
  <2> DEFINE s == [prefs EXCEPT !.keys = DefaultMaps]
  <2>1. s.keys = DefaultMaps
    BY SoundPut DEF SettingsTypes
  <2>2. \A p \in Slots : ~HasDuplicates(s.keys[p])
    BY <2>1, SettingsAssumption DEF HasDuplicates
  <2> QED BY <1>2, <1>4, <2>2 DEF ResetBindings
<1>5. CASE SetVolume \/ SetMuted
  <2>1. prefs'.keys = prefs.keys
    BY <1>5 DEF SetVolume, SetMuted, SettingsTypes, Settings
  <2>2. saved' \in {saved, prefs'}
    BY <1>5 DEF SetVolume, SetMuted
  <2> QED BY <2>1, <2>2 DEF NoClash
<1>6. CASE StartSession \/ EndSession
  BY <1>6 DEF StartSession, EndSession, NoClash
<1> QED BY <1>1, <1>3, <1>4, <1>5, <1>6 DEF SettingsNext, settingsVars, settingsHost,
      OpenSettings, LeaveSettings, ResetAll, ResetPlayer, BindingsDue, Capture, SlideVolume,
      VolumeDue, ToggleMute, OpenGame, LeaveGame, GameSound, GetSettings, TakeReturn

-----------------------------------------------------------------------------
(* What a step does to what PageFollows is made of. *)

(* While the answers wait, what they say of the host's bindings stays true   *)
(* if those do not change.                                                   *)
LEMMA AnswersWait ==
  ASSUME returns' = returns, mount' = mount
  PROVE  /\ LoadAnswered' <=> LoadAnswered
         /\ TakenAfter(0)' <=> TakenAfter(0)
         /\ ErrorAfter(0)' <=> ErrorAfter(0)
         /\ LastAnswerIsCurrent /\ prefs'.keys = prefs.keys => LastAnswerIsCurrent'
BY DEF LoadAnswered, TakenAfter, ErrorAfter, LastAnswerIsCurrent, Taken, Loads

(* A request that does not set the volume leaves the last one that does, and *)
(* so with the mute.                                                         *)
LEMMA SoundStays ==
  ASSUME SettingsTypes, NEW cmd,
         \/ calls' = calls
         \/ \E c \in Calls : c.cmd # cmd /\ Invoke(c)
         \/ \E other : other # cmd /\ Take(other)
  PROVE  /\ NoneSent(cmd)' => NoneSent(cmd)
         /\ \A i \in DOMAIN calls' :
              LastOf(cmd, i)' =>
                \E j \in DOMAIN calls : LastOf(cmd, j) /\ calls'[i] = calls[j]
<1>1. CASE calls' = calls
  BY <1>1 DEF LastOf, NoneSent
<1>2. ASSUME NEW c \in Calls, c.cmd # cmd, Invoke(c)
      PROVE  /\ NoneSent(cmd)' => NoneSent(cmd)
             /\ \A i \in DOMAIN calls' :
                  LastOf(cmd, i)' => i \in DOMAIN calls /\ LastOf(cmd, i) /\ calls'[i] = calls[i]
  <2>1. /\ Len(calls) \in Nat /\ DOMAIN calls = 1 .. Len(calls)
        /\ DOMAIN calls' = 1 .. Len(calls) + 1 /\ calls'[Len(calls) + 1] = c
        /\ \A i \in DOMAIN calls : calls'[i] = calls[i]
    BY <1>2, CallSent
  <2> QED BY <1>2, <2>1 DEF LastOf, NoneSent
<1>3. ASSUME NEW other, other # cmd, Take(other)
      PROVE  /\ NoneSent(cmd)' => NoneSent(cmd)
             /\ \A i \in DOMAIN calls' :
                  LastOf(cmd, i)' => /\ i + 1 \in DOMAIN calls /\ LastOf(cmd, i + 1)
                                     /\ calls'[i] = calls[i + 1]
  <2>1. /\ Len(calls) \in Nat /\ Len(calls) >= 1 /\ DOMAIN calls = 1 .. Len(calls)
        /\ DOMAIN calls' = 1 .. Len(calls) - 1 /\ calls[1].cmd = other
        /\ \A i \in DOMAIN calls' : calls'[i] = calls[i + 1]
    BY <1>3, CallTaken
  <2>2. \A j \in DOMAIN calls : j = 1 \/ (j - 1 \in DOMAIN calls' /\ calls[j] = calls'[j - 1])
    BY <2>1
  <2>3. NoneSent(cmd)' => NoneSent(cmd)
    BY <1>3, <2>1, <2>2 DEF NoneSent
  <2>4. ASSUME NEW i \in DOMAIN calls', LastOf(cmd, i)'
        PROVE  i + 1 \in DOMAIN calls /\ LastOf(cmd, i + 1) /\ calls'[i] = calls[i + 1]
    BY <2>1, <2>2, <2>4 DEF LastOf
  <2> QED BY <2>3, <2>4
<1> QED BY <1>1, <1>2, <1>3

(* So the volume that the host will have stays the page's.                   *)
LEMMA VolumeStays ==
  ASSUME SettingsTypes, VolumeArrives, volTimer' = volTimer,
         prefs'.volume = prefs.volume, store'.volume = store.volume,
         \/ calls' = calls
         \/ \E c \in Calls : c.cmd # "volume" /\ Invoke(c)
         \/ \E other : other # "volume" /\ Take(other)
  PROVE  VolumeArrives'
BY SoundStays DEF VolumeArrives

(* The mute that the host will have stays the page's. *)
LEMMA MuteStays ==
  ASSUME SettingsTypes, MuteArrives,
         prefs'.muted = prefs.muted, store'.muted = store.muted,
         \/ calls' = calls
         \/ \E c \in Calls : c.cmd # "mute" /\ Invoke(c)
         \/ \E other : other # "mute" /\ Take(other)
  PROVE  MuteArrives'
BY SoundStays DEF MuteArrives

(* A load that was asked for stays so until the host serves it, and a save   *)
(* on its way until it is served.                                            *)
LEMMA RequestsStay ==
  ASSUME SettingsTypes, mount' = mount
  PROVE  /\ \A c \in Calls : Invoke(c) =>
              /\ LoadAsked => LoadAsked'
              /\ \A p \in Slots :
                   /\ SaveOnItsWay(p) /\ timers' = timers => SaveOnItsWay(p)'
                   /\ c.cmd = "reset" => SaveOnItsWay(p)'
                   /\ c.cmd = "bind" /\ c.player = p => SaveOnItsWay(p)'
         /\ \A cmd : Take(cmd) =>
              /\ LoadAsked /\ cmd # "get" => LoadAsked'
              /\ \A p \in Slots :
                   SaveOnItsWay(p) /\ cmd \notin {"bind", "reset"} => SaveOnItsWay(p)'
<1>1. ASSUME NEW c \in Calls, Invoke(c)
      PROVE  /\ LoadAsked => LoadAsked'
             /\ \A p \in Slots :
                  /\ SaveOnItsWay(p) /\ timers' = timers => SaveOnItsWay(p)'
                  /\ c.cmd = "reset" => SaveOnItsWay(p)'
                  /\ c.cmd = "bind" /\ c.player = p => SaveOnItsWay(p)'
  <2>1. /\ Len(calls) \in Nat /\ DOMAIN calls = 1 .. Len(calls)
        /\ DOMAIN calls' = 1 .. Len(calls) + 1 /\ calls'[Len(calls) + 1] = c
        /\ \A i \in DOMAIN calls : calls'[i] = calls[i]
    BY <1>1, CallSent
  <2>2. Len(calls) + 1 \in DOMAIN calls' /\ DOMAIN calls \subseteq DOMAIN calls'
    BY <2>1
  <2> QED BY <2>1, <2>2 DEF LoadAsked, SaveOnItsWay
<1>2. ASSUME NEW cmd, Take(cmd)
      PROVE  /\ LoadAsked /\ cmd # "get" => LoadAsked'
             /\ \A p \in Slots :
                  SaveOnItsWay(p) /\ cmd \notin {"bind", "reset"} => SaveOnItsWay(p)'
  <2>1. /\ Len(calls) \in Nat /\ Len(calls) >= 1 /\ DOMAIN calls = 1 .. Len(calls)
        /\ DOMAIN calls' = 1 .. Len(calls) - 1 /\ calls[1].cmd = cmd
        /\ \A i \in DOMAIN calls' : calls'[i] = calls[i + 1]
    BY <1>2, CallTaken
  <2>2. \A j \in DOMAIN calls : j = 1 \/ (j - 1 \in DOMAIN calls' /\ calls[j] = calls'[j - 1])
    BY <2>1
  <2>3. timers' = timers
    BY <1>2 DEF Take, pending
  <2> QED BY <2>1, <2>2, <2>3 DEF LoadAsked, SaveOnItsWay
<1> QED BY <1>1, <1>2

(* The bindings of a player whose copy and whose saves stay as they are stay *)
(* the host's.                                                               *)
LEMMA KeyStays ==
  ASSUME NEW p \in Slots, KeyIsCurrent(p), returns' = returns, mount' = mount,
         unsaved' = unsaved, store'.keys[p] = store.keys[p], prefs'.keys = prefs.keys,
         SaveOnItsWay(p) => SaveOnItsWay(p)'
  PROVE  KeyIsCurrent(p)'
BY AnswersWait DEF KeyIsCurrent, HasDuplicates

-----------------------------------------------------------------------------
(* PageFollows, step by step. *)

(* A copy that waits for no load has been loaded.                            *)
LEMMA LoadedOnce ==
  ASSUME SettingsTypes, PageFollows, screen = "settings", ~LoadAsked
  PROVE  /\ LastAnswerIsCurrent /\ KeysAreCurrent
         /\ LoadAnswered => TakenAfter(0)
         /\ ~LoadAnswered =>
              store # Nothing /\ Drawn = store /\ (overtaken \/ (VolumeArrives /\ MuteArrives))
<1>1. \A i \in DOMAIN returns : i > 0
  BY DEF SettingsTypes
<1>2. LoadAnswered => TakenAfter(0)
  BY <1>1 DEF LoadAnswered, TakenAfter, Taken
<1> QED BY <1>2 DEF PageFollows, Drawn

(* Edits of the bindings and of the volume wait for their saves.             *)
LEMMA EditFollows ==
  ASSUME SettingsTypes, PageFollows,
         \/ \E p \in Slots : \/ ResetPlayer(p)
                             \/ \E a \in Actions, c \in Codes : Capture(p, a, c)
         \/ \E v \in Volumes : SlideVolume(v)
  PROVE  PageFollows'
<1>1. /\ calls' = calls /\ returns' = returns /\ mount' = mount /\ screen = "settings"
      /\ prefs' = prefs /\ unsaved' = unsaved /\ overtaken' = overtaken
  BY DEF ResetPlayer, Capture, SlideVolume, wire, settingsHost, memo
<1>2. LoadAsked' <=> LoadAsked
  BY <1>1 DEF LoadAsked
<1> SUFFICES ASSUME ~LoadAsked PROVE PageFollows'
  BY <1>1, <1>2 DEF PageFollows
<1>3. LastAnswerIsCurrent'
  BY <1>1, LoadedOnce, AnswersWait
<1>4. ASSUME ~LoadAnswered
      PROVE  store \in Settings /\ Drawn = store
  BY <1>1, <1>4, LoadedOnce DEF SettingsTypes
<1>5. ASSUME NEW p \in Slots, NEW map \in Maps, map = timers'[p] \/ HasDuplicates(map),
             store' = [Drawn EXCEPT !.keys[p] = map], volTimer' = volTimer,
             \A q \in Slots \ {p} : timers'[q] = timers[q]
      PROVE  /\ KeysAreCurrent'
             /\ ~LoadAnswered' =>
                  store' # Nothing /\ (overtaken \/ (VolumeArrives' /\ MuteArrives'))
  <2>1. ASSUME ~LoadAnswered
        PROVE  /\ store' \in Settings /\ store'.volume = store.volume
               /\ store'.muted = store.muted /\ store'.keys[p] = map
               /\ \A q \in Slots \ {p} : store'.keys[q] = store.keys[q]
    BY <1>4, <1>5, <2>1, KeysPut
  <2>2. ASSUME ~TakenAfter(0), NEW q \in Slots
        PROVE  KeyIsCurrent(q)'
    <3>1. ~LoadAnswered /\ KeyIsCurrent(q)
      BY <1>1, <2>2, LoadedOnce DEF KeysAreCurrent
    <3>2. CASE q = p
      <4>1. CASE HasDuplicates(map)
        BY <2>1, <3>1, <3>2, <4>1 DEF KeyIsCurrent, HasDuplicates
      <4>2. CASE map = timers'[p]
        <5>1. SaveOnItsWay(p)'
          BY <4>2, NothingIsNone DEF SaveOnItsWay
        <5> QED BY <3>2, <5>1 DEF KeyIsCurrent
      <4> QED BY <1>5, <4>1, <4>2
    <3>3. CASE q # p
      <4>1. SaveOnItsWay(q) => SaveOnItsWay(q)'
        BY <1>1, <1>5, <3>3 DEF SaveOnItsWay
      <4> QED BY <1>1, <2>1, <3>1, <3>3, <4>1, KeyStays
    <3> QED BY <3>2, <3>3
  <2>3. KeysAreCurrent'
    BY <1>1, <2>2, AnswersWait DEF KeysAreCurrent
  <2>4. ASSUME ~LoadAnswered
        PROVE  store' # Nothing /\ (overtaken \/ (VolumeArrives' /\ MuteArrives'))
    BY <1>1, <1>5, <2>1, <2>4, LoadedOnce, NothingIsNone, VolumeStays, MuteStays
  <2> QED BY <1>1, <2>3, <2>4, AnswersWait
<1>6. ASSUME NEW p \in Slots, ResetPlayer(p)
      PROVE  PageFollows'
  <2>1. /\ DefaultMaps[p] \in Maps /\ volTimer' = volTimer
        /\ store' = [Drawn EXCEPT !.keys[p] = DefaultMaps[p]]
        /\ timers' = [timers EXCEPT ![p] = DefaultMaps[p]]
    BY <1>6, NothingIsNone DEF ResetPlayer
  <2>2. DefaultMaps[p] = timers'[p] /\ \A q \in Slots \ {p} : timers'[q] = timers[q]
    BY <2>1 DEF SettingsTypes
  <2> QED BY <1>1, <1>2, <1>3, <1>5, <2>1, <2>2 DEF PageFollows
<1>7. ASSUME NEW p \in Slots, NEW a \in Actions, NEW c \in Codes, Capture(p, a, c)
      PROVE  PageFollows'
  <2> DEFINE map == [Drawn.keys[p] EXCEPT ![a] = c]
  <2>1. /\ volTimer' = volTimer /\ store' = [Drawn EXCEPT !.keys[p] = map]
        /\ timers' = [timers EXCEPT ![p] = IF HasDuplicates(map) THEN Nothing ELSE map]
    BY <1>7 DEF Capture
  <2>2. map \in Maps
    BY DrawnSettings DEF Settings, Maps
  <2> HIDE DEF map
  <2>3. (map = timers'[p] \/ HasDuplicates(map)) /\ \A q \in Slots \ {p} : timers'[q] = timers[q]
    BY <2>1 DEF SettingsTypes
  <2> QED BY <1>1, <1>2, <1>3, <1>5, <2>1, <2>2, <2>3 DEF PageFollows
<1>8. ASSUME NEW v \in Volumes, SlideVolume(v)
      PROVE  PageFollows'
  <2>1. store' = [Drawn EXCEPT !.volume = v] /\ volTimer' = v /\ timers' = timers
    BY <1>8 DEF SlideVolume
  <2>2. ASSUME ~LoadAnswered
        PROVE  /\ store' \in Settings /\ store'.volume = v
               /\ store'.muted = store.muted /\ store'.keys = store.keys
    <3>1. store \in Settings /\ store' = [store EXCEPT !.volume = v]
      BY <1>4, <2>1, <2>2
    <3> QED BY <3>1 DEF Settings
  <2>3. ASSUME ~TakenAfter(0), NEW q \in Slots
        PROVE  KeyIsCurrent(q)'
    <3>1. ~LoadAnswered /\ KeyIsCurrent(q)
      BY <1>1, <2>3, LoadedOnce DEF KeysAreCurrent
    <3>2. SaveOnItsWay(q) => SaveOnItsWay(q)'
      BY <1>1, <2>1 DEF SaveOnItsWay
    <3> QED BY <1>1, <2>2, <3>1, <3>2, KeyStays
  <2>4. KeysAreCurrent'
    BY <1>1, <2>3, AnswersWait DEF KeysAreCurrent
  <2>5. v # Nothing
    BY NothingIsNone
  <2>6. ASSUME ~LoadAnswered
        PROVE  store' # Nothing /\ (overtaken \/ (VolumeArrives' /\ MuteArrives'))
    <3>1. VolumeArrives'
      BY <2>1, <2>2, <2>5, <2>6 DEF VolumeArrives
    <3> QED BY <1>1, <2>2, <2>6, <3>1, LoadedOnce, NothingIsNone, MuteStays
  <2> QED BY <1>1, <1>2, <1>3, <2>4, <2>6, AnswersWait DEF PageFollows
<1> QED BY <1>6, <1>7, <1>8

(* A request that the settings view sends, that changes its copy at most     *)
(* where the request will change the host's.                                 *)
LEMMA SendFollows ==
  ASSUME SettingsTypes, PageFollows,
         \/ ResetAll \/ VolumeDue \/ ToggleMute \/ \E p \in Slots : BindingsDue(p)
  PROVE  PageFollows'
<1>1. /\ mount' = mount /\ screen' = screen /\ prefs' = prefs
      /\ unsaved' = unsaved /\ overtaken' = overtaken /\ returns' = returns
  BY DEF ResetAll, VolumeDue, ToggleMute, BindingsDue, Invoke, settingsHost, memo
<1>2. ASSUME NEW c \in Calls, Invoke(c), PageFollows, screen = "settings", ~LoadAsked',
             ~LoadAnswered => store' \in Settings /\ store'.keys = store.keys,
             \A p \in Slots : SaveOnItsWay(p) => SaveOnItsWay(p)',
             ~LoadAnswered /\ VolumeArrives => VolumeArrives',
             ~LoadAnswered /\ MuteArrives => MuteArrives'
      PROVE  PageFollows'
  <2>1. ~LoadAsked
    BY <1>1, <1>2, RequestsStay
  <2>2. LastAnswerIsCurrent'
    BY <1>1, <1>2, <2>1, LoadedOnce, AnswersWait
  <2>3. ASSUME ~TakenAfter(0), NEW q \in Slots
        PROVE  KeyIsCurrent(q)'
    <3>1. ~LoadAnswered /\ KeyIsCurrent(q)
      BY <1>2, <2>1, <2>3, LoadedOnce DEF KeysAreCurrent
    <3> QED BY <1>1, <1>2, <3>1, KeyStays
  <2>4. KeysAreCurrent'
    BY <1>1, <2>3, AnswersWait DEF KeysAreCurrent
  <2>5. ASSUME ~LoadAnswered
        PROVE  store' # Nothing /\ (overtaken \/ (VolumeArrives' /\ MuteArrives'))
    BY <1>2, <2>1, <2>5, LoadedOnce, NothingIsNone
  <2> QED BY <1>1, <2>2, <2>4, <2>5, AnswersWait DEF PageFollows
<1> SUFFICES ASSUME screen = "settings", ~LoadAsked' PROVE PageFollows'
  BY <1>1 DEF PageFollows
<1>3. ASSUME NEW c \in Calls, Invoke(c)
      PROVE  ~LoadAnswered => store \in Settings /\ Drawn = store
  <2>1. ~LoadAsked
    BY <1>1, <1>3, RequestsStay
  <2> QED BY <2>1, LoadedOnce DEF SettingsTypes
<1>4. CASE ResetAll
  <2> DEFINE c == [cmd |-> "reset"]
  <2>1. c \in Calls /\ c.cmd = "reset"
    BY DEF Calls
  <2>2. Invoke(c) /\ store' = store /\ volTimer' = volTimer
    BY <1>4 DEF ResetAll
  <2> HIDE DEF c
  <2>3. \A p \in Slots : SaveOnItsWay(p)'
    BY <1>1, <2>1, <2>2, RequestsStay
  <2>4. (VolumeArrives => VolumeArrives') /\ (MuteArrives => MuteArrives')
    BY <1>1, <2>1, <2>2, VolumeStays, MuteStays
  <2> QED BY <1>2, <1>3, <2>1, <2>2, <2>3, <2>4
<1>5. ASSUME NEW p \in Slots, BindingsDue(p)
      PROVE  PageFollows'
  <2> DEFINE c == [cmd |-> "bind", player |-> p, map |-> timers[p]]
  <2>1. c \in Calls /\ c.cmd = "bind" /\ c.player = p
    BY <1>5 DEF BindingsDue, SettingsTypes, Calls
  <2>2. /\ Invoke(c) /\ store' = store /\ volTimer' = volTimer
        /\ timers' = [timers EXCEPT ![p] = Nothing]
    BY <1>5 DEF BindingsDue
  <2> HIDE DEF c
  <2>3. ASSUME NEW q \in Slots, SaveOnItsWay(q)
        PROVE  SaveOnItsWay(q)'
    <3>1. CASE q = p
      BY <1>1, <2>1, <2>2, <3>1, RequestsStay
    <3>2. CASE q # p
      <4>1. timers'[q] = timers[q]
        BY <2>2, <3>2 DEF SettingsTypes
      <4>2. \A i \in DOMAIN calls : i \in DOMAIN calls' /\ calls'[i] = calls[i]
        BY <2>1, <2>2, CallSent
      <4> QED BY <2>3, <4>1, <4>2 DEF SaveOnItsWay
    <3> QED BY <3>1, <3>2
  <2>4. (VolumeArrives => VolumeArrives') /\ (MuteArrives => MuteArrives')
    BY <1>1, <2>1, <2>2, VolumeStays, MuteStays
  <2> QED BY <1>2, <1>3, <2>1, <2>2, <2>3, <2>4
<1>6. CASE VolumeDue
  <2> DEFINE c == [cmd |-> "volume", volume |-> volTimer]
  <2>1. c \in Calls /\ c.cmd = "volume" /\ c.volume = volTimer
    BY <1>6 DEF VolumeDue, SettingsTypes, Calls
  <2>2. /\ Invoke(c) /\ store' = store /\ volTimer # Nothing /\ volTimer' = Nothing
        /\ timers' = timers
    BY <1>6 DEF VolumeDue
  <2> HIDE DEF c
  <2>3. \A q \in Slots : SaveOnItsWay(q) => SaveOnItsWay(q)'
    BY <1>1, <2>1, <2>2, RequestsStay
  <2>4. MuteArrives => MuteArrives'
    BY <1>1, <2>1, <2>2, MuteStays
  <2>5. VolumeArrives => VolumeArrives'
    <3>1. /\ Len(calls) \in Nat /\ DOMAIN calls' = 1 .. Len(calls) + 1
          /\ calls'[Len(calls) + 1] = c
      BY <2>1, <2>2, CallSent
    <3>2. ~NoneSent("volume")'
      BY <2>1, <3>1 DEF NoneSent
    <3>3. \A i \in DOMAIN calls' : LastOf("volume", i)' => i = Len(calls) + 1
      BY <2>1, <3>1 DEF LastOf
    <3> QED BY <2>1, <2>2, <3>1, <3>2, <3>3 DEF VolumeArrives
  <2> QED BY <1>2, <1>3, <2>1, <2>2, <2>3, <2>4, <2>5
<1>7. CASE ToggleMute
  <2> DEFINE c == [cmd |-> "mute", muted |-> ~Drawn.muted]
  <2>1. c \in Calls /\ c.cmd = "mute" /\ c.muted = ~Drawn.muted
    BY DrawnSettings DEF Settings, Calls
  <2>2. /\ Invoke(c) /\ store' = [Drawn EXCEPT !.muted = ~Drawn.muted]
        /\ volTimer' = volTimer /\ timers' = timers
    BY <1>7 DEF ToggleMute, pending
  <2> HIDE DEF c
  <2>3. \A q \in Slots : SaveOnItsWay(q) => SaveOnItsWay(q)'
    BY <1>1, <2>1, <2>2, RequestsStay
  <2>4. ~LoadAnswered => /\ store' \in Settings /\ store'.keys = store.keys
                         /\ store'.volume = store.volume
    BY <1>3, <2>1, <2>2 DEF Settings
  <2>5. store'.muted = c.muted
    BY <2>1, <2>2, DrawnSettings DEF Settings
  <2>6. MuteArrives'
    <3>1. /\ Len(calls) \in Nat /\ DOMAIN calls' = 1 .. Len(calls) + 1
          /\ calls'[Len(calls) + 1] = c
      BY <2>1, <2>2, CallSent
    <3>2. ~NoneSent("mute")'
      BY <2>1, <3>1 DEF NoneSent
    <3>3. \A i \in DOMAIN calls' : LastOf("mute", i)' => i = Len(calls) + 1
      BY <2>1, <3>1 DEF LastOf
    <3> QED BY <2>5, <3>1, <3>2, <3>3 DEF MuteArrives
  <2>7. ~LoadAnswered /\ VolumeArrives => VolumeArrives'
    BY <1>1, <2>1, <2>2, <2>4, VolumeStays
  <2> QED BY <1>2, <2>1, <2>2, <2>3, <2>4, <2>6, <2>7
<1> QED BY <1>4, <1>5, <1>6, <1>7

(* What an answer adds to the queue of answers.                              *)
LEMMA AnswerEffect ==
  ASSUME SettingsTypes, NEW a \in Answers, Respond(a), mount' = mount
  PROVE  /\ LoadAnswered' <=> LoadAnswered \/ Loads(a)
         /\ TakenAfter(0)' <=> TakenAfter(0) \/ Taken(a)
         /\ ErrorAfter(0)' <=> ErrorAfter(0) \/ a.cmd = "error"
         /\ a.cmd = "error" => LastAnswerIsCurrent'
         /\ Taken(a) /\ (\A p \in Slots : a.settings.keys[p] = prefs'.keys[p])
              => LastAnswerIsCurrent'
         /\ ~Taken(a) /\ LastAnswerIsCurrent /\ prefs'.keys = prefs.keys
              => LastAnswerIsCurrent'
<1>1. /\ Len(returns) \in Nat /\ DOMAIN returns = 1 .. Len(returns)
      /\ DOMAIN returns' = 1 .. Len(returns) + 1 /\ returns'[Len(returns) + 1] = a
      /\ \A i \in DOMAIN returns : returns'[i] = returns[i]
  BY AnswerSent
<1>2. /\ Len(returns) + 1 \in DOMAIN returns' /\ DOMAIN returns \subseteq DOMAIN returns'
      /\ \A i \in DOMAIN returns' : i \in DOMAIN returns \/ i = Len(returns) + 1
      /\ \A i \in DOMAIN returns : Len(returns) + 1 > i
      /\ Len(returns) + 1 > 0
  BY <1>1
<1>3. \A b : (Loads(b)' <=> Loads(b)) /\ (Taken(b)' <=> Taken(b))
  BY DEF Loads, Taken
<1>4. LoadAnswered' <=> LoadAnswered \/ Loads(a)
  BY <1>1, <1>2, <1>3 DEF LoadAnswered
<1>5. \A i \in DOMAIN returns \cup {0} :
        /\ TakenAfter(i)' <=> TakenAfter(i) \/ Taken(a)
        /\ ErrorAfter(i)' <=> ErrorAfter(i) \/ a.cmd = "error"
  BY <1>1, <1>2, <1>3 DEF TakenAfter, ErrorAfter
<1>6. ASSUME a.cmd = "error"
      PROVE  LastAnswerIsCurrent'
  <2>1. ~Taken(a)
    BY <1>6 DEF Taken, Loads
  <2> QED BY <1>1, <1>2, <1>3, <1>5, <1>6, <2>1 DEF LastAnswerIsCurrent
<1>7. ASSUME Taken(a), \A p \in Slots : a.settings.keys[p] = prefs'.keys[p]
      PROVE  LastAnswerIsCurrent'
  BY <1>1, <1>2, <1>3, <1>5, <1>7 DEF LastAnswerIsCurrent
<1>8. ASSUME ~Taken(a), LastAnswerIsCurrent, prefs'.keys = prefs.keys
      PROVE  LastAnswerIsCurrent'
  BY <1>1, <1>2, <1>3, <1>5, <1>8 DEF LastAnswerIsCurrent
<1> QED BY <1>4, <1>5, <1>6, <1>7, <1>8

(* The host answers a load, or a change of the bindings, with what it has    *)
(* then, or with an error.                                                   *)
LEMMA AnswersFollow ==
  ASSUME SettingsTypes, PageFollows, GetSettings \/ UpdateBindingsOf \/ ResetBindings
  PROVE  PageFollows'
<1> USE DEF settingsHost, pending, memo
<1>1. /\ mount' = mount /\ screen' = screen /\ store' = store /\ volTimer' = volTimer
      /\ timers' = timers /\ unsaved' = unsaved /\ overtaken' = overtaken
  BY DEF GetSettings, UpdateBindingsOf, ResetBindings, Take
<1> SUFFICES ASSUME screen = "settings", ~LoadAsked' PROVE PageFollows'
  BY <1>1 DEF PageFollows
<1>2. ASSUME NEW cmd, Take(cmd), cmd \notin {"volume", "mute"}, ~LoadAsked,
             prefs'.volume = prefs.volume, prefs'.muted = prefs.muted, ~LoadAnswered
      PROVE  store # Nothing /\ (overtaken \/ (VolumeArrives' /\ MuteArrives'))
  BY <1>1, <1>2, LoadedOnce, VolumeStays, MuteStays
<1>3. ASSUME NEW cmd \in {"bind", "reset"}, Take(cmd),
             NEW s \in Settings, s.volume = prefs.volume, s.muted = prefs.muted, Rebind(s)
      PROVE  PageFollows'
  <2>1. ~LoadAsked
    BY <1>1, <1>3, RequestsStay
  <2>2. PICK a \in Answers : Respond(a) /\ (a = [cmd |-> "set", settings |-> s]
                                             \/ a = [cmd |-> "error"])
    BY <1>3 DEF Rebind, Answers
  <2>3. prefs' = s /\ ~Loads(a) /\ (Taken(a) \/ a.cmd = "error") /\ (Taken(a) => a.settings = s)
    BY <1>3, <2>2 DEF Rebind, Taken, Loads
  <2>4. LastAnswerIsCurrent'
    BY <1>1, <2>2, <2>3, AnswerEffect
  <2>5. TakenAfter(0)' \/ ErrorAfter(0)'
    BY <1>1, <2>2, <2>3, AnswerEffect
  <2>6. KeysAreCurrent'
    BY <2>5 DEF KeysAreCurrent, KeyIsCurrent
  <2>7. ~LoadAnswered' => ~LoadAnswered
    BY <1>1, <2>2, AnswerEffect
  <2>8. ~LoadAnswered' => store # Nothing /\ (overtaken \/ (VolumeArrives' /\ MuteArrives'))
    BY <1>2, <1>3, <2>1, <2>3, <2>7
  <2> QED BY <1>1, <2>4, <2>6, <2>8 DEF PageFollows
<1>4. CASE GetSettings
  <2>1. Take("get") /\ prefs' = prefs /\ calls[1].cmd = "get" /\ Head(calls) = calls[1]
    BY <1>4, CallTaken DEF GetSettings
  <2> DEFINE a == [cmd |-> "got", mount |-> calls[1].mount, settings |-> prefs]
  <2>2. calls[1].mount \in Nat
    BY <2>1, CallTaken, CallFields
  <2>3. a \in Answers /\ a.cmd = "got" /\ a.mount = calls[1].mount /\ a.settings = prefs
    BY <2>2 DEF Answers, SettingsTypes
  <2>4. Respond(a)
    BY <1>4, <2>1 DEF GetSettings
  <2> HIDE DEF a
  <2>5. CASE calls[1].mount = mount
    <3>1. Loads(a) /\ Taken(a)
      BY <2>3, <2>5 DEF Taken, Loads
    <3>2. LastAnswerIsCurrent' /\ TakenAfter(0)' /\ LoadAnswered'
      BY <1>1, <2>1, <2>3, <2>4, <3>1, AnswerEffect
    <3> QED BY <3>2 DEF PageFollows, KeysAreCurrent
  <2>6. CASE calls[1].mount # mount
    <3>1. ~Taken(a) /\ ~Loads(a)
      BY <2>3, <2>6 DEF Taken, Loads
    <3>2. ~LoadAsked
      <4>1. /\ Len(calls) \in Nat /\ DOMAIN calls = 1 .. Len(calls)
            /\ DOMAIN calls' = 1 .. Len(calls) - 1
            /\ \A i \in DOMAIN calls' : calls'[i] = calls[i + 1]
        BY <2>1, CallTaken
      <4>2. \A j \in DOMAIN calls :
              j = 1 \/ (j - 1 \in DOMAIN calls' /\ calls[j] = calls'[j - 1])
        BY <4>1
      <4> QED BY <1>1, <2>6, <4>2 DEF LoadAsked
    <3>3. LastAnswerIsCurrent'
      BY <1>1, <2>1, <2>4, <2>3, <3>1, <3>2, LoadedOnce, AnswerEffect
    <3>4. ASSUME ~TakenAfter(0)', NEW p \in Slots
          PROVE  KeyIsCurrent(p)'
      <4>1. KeyIsCurrent(p) /\ (ErrorAfter(0) => ErrorAfter(0)')
        BY <1>1, <2>3, <2>4, <3>2, <3>4, LoadedOnce, AnswerEffect DEF KeysAreCurrent
      <4>2. SaveOnItsWay(p) => SaveOnItsWay(p)'
        BY <1>1, <2>1, RequestsStay
      <4> QED BY <1>1, <2>1, <4>1, <4>2 DEF KeyIsCurrent, HasDuplicates
    <3>5. ~LoadAnswered' => store # Nothing /\ (overtaken \/ (VolumeArrives' /\ MuteArrives'))
      BY <1>1, <1>2, <2>1, <2>3, <2>4, <3>2, AnswerEffect
    <3> QED BY <1>1, <3>3, <3>4, <3>5 DEF PageFollows, KeysAreCurrent
  <2> QED BY <2>5, <2>6
<1>5. CASE UpdateBindingsOf
  <2>1. Take("bind") /\ Head(calls).player \in Slots /\ Head(calls).map \in Maps
    BY <1>5, CallTaken, CallFields DEF UpdateBindingsOf
  <2> DEFINE s == [prefs EXCEPT !.keys[Head(calls).player] = Head(calls).map]
  <2>2. CASE HasDuplicates(Head(calls).map)
    <3> DEFINE a == [cmd |-> "error"]
    <3>1. Respond(a) /\ prefs' = prefs
      BY <1>5, <2>2 DEF UpdateBindingsOf
    <3>2. a \in Answers /\ a.cmd = "error"
      BY DEF Answers
    <3> HIDE DEF a
    <3>3. LastAnswerIsCurrent' /\ ErrorAfter(0)' /\ (~LoadAnswered' => ~LoadAnswered)
      BY <1>1, <3>1, <3>2, AnswerEffect
    <3>4. ~LoadAsked
      BY <1>1, <2>1, RequestsStay
    <3>5. ~LoadAnswered' => store # Nothing /\ (overtaken \/ (VolumeArrives' /\ MuteArrives'))
      BY <1>2, <2>1, <3>1, <3>3, <3>4
    <3> QED BY <1>1, <3>3, <3>5 DEF PageFollows, KeysAreCurrent, KeyIsCurrent
  <2>3. CASE ~HasDuplicates(Head(calls).map)
    <3>1. Rebind(s)
      BY <1>5, <2>3 DEF UpdateBindingsOf
    <3> prefs \in Settings
      BY DEF SettingsTypes
    <3>2. s \in Settings /\ s.volume = prefs.volume /\ s.muted = prefs.muted
      BY <2>1, KeysPut
    <3> QED BY <1>3, <2>1, <3>1, <3>2
  <2> QED BY <2>2, <2>3
<1>6. CASE ResetBindings
  <2> DEFINE s == [prefs EXCEPT !.keys = DefaultMaps]
  <2>1. s \in Settings /\ s.volume = prefs.volume /\ s.muted = prefs.muted
    BY SoundPut DEF SettingsTypes
  <2>2. Take("reset") /\ Rebind(s)
    BY <1>6 DEF ResetBindings
  <2> HIDE DEF s
  <2> QED BY <1>3, <2>1, <2>2
<1> QED BY <1>4, <1>5, <1>6

(* What sets the host's sound, and the start and the end of a session.       *)
LEMMA SoundFollows ==
  ASSUME SettingsTypes, PageFollows, SetVolume \/ SetMuted \/ StartSession \/ EndSession
  PROVE  PageFollows'
<1> USE DEF pending, memo
<1>1. /\ mount' = mount /\ screen' = screen /\ store' = store /\ volTimer' = volTimer
      /\ timers' = timers /\ unsaved' = unsaved /\ overtaken' = overtaken
      /\ returns' = returns
  BY DEF SetVolume, SetMuted, StartSession, EndSession, Take
<1>2. PICK cmd \in {"volume", "mute", "start", "stop"} : Take(cmd)
  BY DEF SetVolume, SetMuted, StartSession, EndSession
<1>3. prefs'.keys = prefs.keys
  BY DEF SetVolume, SetMuted, StartSession, EndSession, SettingsTypes, Settings
<1> SUFFICES ASSUME screen = "settings", ~LoadAsked' PROVE PageFollows'
  BY <1>1 DEF PageFollows
<1>4. ~LoadAsked
  BY <1>1, <1>2, RequestsStay
<1>5. LastAnswerIsCurrent'
  BY <1>1, <1>3, <1>4, LoadedOnce, AnswersWait
<1>6. ASSUME ~TakenAfter(0), NEW p \in Slots
      PROVE  KeyIsCurrent(p)'
  <2>1. KeyIsCurrent(p)
    BY <1>4, <1>6, LoadedOnce DEF KeysAreCurrent
  <2>2. SaveOnItsWay(p) => SaveOnItsWay(p)'
    BY <1>1, <1>2, RequestsStay
  <2> QED BY <1>1, <1>3, <2>1, <2>2, KeyStays
<1>7. KeysAreCurrent'
  BY <1>1, <1>6, AnswersWait DEF KeysAreCurrent
<1>8. VolumeArrives => VolumeArrives'
  <2>1. CASE SetVolume
    <3>1. /\ Take("volume") /\ prefs'.volume = calls[1].volume
          /\ Len(calls) \in Nat /\ Len(calls) >= 1 /\ DOMAIN calls = 1 .. Len(calls)
          /\ DOMAIN calls' = 1 .. Len(calls) - 1 /\ calls[1].cmd = "volume"
          /\ \A i \in DOMAIN calls' : calls'[i] = calls[i + 1]
      BY <2>1, CallTaken DEF SetVolume, SettingsTypes, Settings
    <3>2. \A j \in DOMAIN calls : j = 1 \/ (j - 1 \in DOMAIN calls' /\ calls[j] = calls'[j - 1])
      BY <3>1
    <3>3. NoneSent("volume")' => LastOf("volume", 1)
      BY <3>1, <3>2 DEF NoneSent, LastOf
    <3>4. \A i \in DOMAIN calls' : LastOf("volume", i)' => LastOf("volume", i + 1)
      BY <3>1, <3>2 DEF LastOf
    <3> QED BY <1>1, <3>1, <3>3, <3>4 DEF VolumeArrives
  <2>2. CASE ~SetVolume
    <3>1. \E other : other # "volume" /\ Take(other)
      BY <2>2 DEF SetMuted, StartSession, EndSession
    <3>2. prefs'.volume = prefs.volume
      BY <2>2 DEF SetMuted, StartSession, EndSession, SettingsTypes, Settings
    <3> QED BY <1>1, <3>1, <3>2, VolumeStays
  <2> QED BY <2>1, <2>2
<1>9. MuteArrives => MuteArrives'
  <2>1. CASE SetMuted
    <3>1. /\ Take("mute") /\ prefs'.muted = calls[1].muted
          /\ Len(calls) \in Nat /\ Len(calls) >= 1 /\ DOMAIN calls = 1 .. Len(calls)
          /\ DOMAIN calls' = 1 .. Len(calls) - 1 /\ calls[1].cmd = "mute"
          /\ \A i \in DOMAIN calls' : calls'[i] = calls[i + 1]
      BY <2>1, CallTaken DEF SetMuted, SettingsTypes, Settings
    <3>2. \A j \in DOMAIN calls : j = 1 \/ (j - 1 \in DOMAIN calls' /\ calls[j] = calls'[j - 1])
      BY <3>1
    <3>3. NoneSent("mute")' => LastOf("mute", 1)
      BY <3>1, <3>2 DEF NoneSent, LastOf
    <3>4. \A i \in DOMAIN calls' : LastOf("mute", i)' => LastOf("mute", i + 1)
      BY <3>1, <3>2 DEF LastOf
    <3> QED BY <1>1, <3>1, <3>3, <3>4 DEF MuteArrives
  <2>2. CASE ~SetMuted
    <3>1. \E other : other # "mute" /\ Take(other)
      BY <2>2 DEF SetVolume, StartSession, EndSession
    <3>2. prefs'.muted = prefs.muted
      BY <2>2 DEF SetVolume, StartSession, EndSession, SettingsTypes, Settings
    <3> QED BY <1>1, <3>1, <3>2, MuteStays
  <2> QED BY <2>1, <2>2
<1> QED BY <1>1, <1>4, <1>5, <1>7, <1>8, <1>9, LoadedOnce, AnswersWait DEF PageFollows

(* When the page takes an answer the later ones stay.                        *)
LEMMA AnswersMoveUp ==
  ASSUME SettingsTypes, TakeReturn
  PROVE  /\ LoadAnswered <=> LoadAnswered' \/ Loads(returns[1])
         /\ TakenAfter(0) <=> TakenAfter(0)' \/ Taken(returns[1])
         /\ ErrorAfter(0) <=> ErrorAfter(0)' \/ returns[1].cmd = "error"
         /\ TakenAfter(1) <=> TakenAfter(0)'
         /\ ErrorAfter(1) <=> ErrorAfter(0)'
         /\ LastAnswerIsCurrent => LastAnswerIsCurrent'
<1>1. /\ Len(returns) \in Nat /\ Len(returns) >= 1 /\ DOMAIN returns = 1 .. Len(returns)
      /\ DOMAIN returns' = 1 .. Len(returns) - 1
      /\ \A i \in DOMAIN returns' : returns'[i] = returns[i + 1]
  BY AnswerTaken
<1>2. /\ \A j \in DOMAIN returns :
           j = 1 \/ (j > 1 /\ j - 1 \in DOMAIN returns' /\ returns[j] = returns'[j - 1])
      /\ \A i \in DOMAIN returns' : i > 0 /\ i + 1 \in DOMAIN returns /\ i + 1 > 1
      /\ 1 \in DOMAIN returns
  BY <1>1
<1>3. mount' = mount /\ prefs' = prefs
  BY DEF TakeReturn, settingsHost
<1>4. \A b : (Loads(b)' <=> Loads(b)) /\ (Taken(b)' <=> Taken(b))
  BY <1>3 DEF Loads, Taken
<1>5. LoadAnswered <=> LoadAnswered' \/ Loads(returns[1])
  BY <1>1, <1>2, <1>4 DEF LoadAnswered
<1>6. \A i \in DOMAIN returns' \cup {0} :
        /\ TakenAfter(i + 1) <=> TakenAfter(i)'
        /\ ErrorAfter(i + 1) <=> ErrorAfter(i)'
  <2> SUFFICES ASSUME NEW i \in DOMAIN returns' \cup {0}
               PROVE  /\ TakenAfter(i + 1) <=> TakenAfter(i)'
                      /\ ErrorAfter(i + 1) <=> ErrorAfter(i)'
    OBVIOUS
  <2>1. i \in Nat
    BY <1>1
  <2>2. \A j \in DOMAIN returns : j > i + 1 =>
           j - 1 \in DOMAIN returns' /\ j - 1 > i /\ returns[j] = returns'[j - 1]
    BY <1>1, <2>1
  <2>3. \A j \in DOMAIN returns' : j > i =>
           j + 1 \in DOMAIN returns /\ j + 1 > i + 1 /\ returns[j + 1] = returns'[j]
    BY <1>1, <2>1
  <2> QED BY <1>4, <2>2, <2>3 DEF TakenAfter, ErrorAfter
<1>7. /\ TakenAfter(0) <=> TakenAfter(1) \/ Taken(returns[1])
      /\ ErrorAfter(0) <=> ErrorAfter(1) \/ returns[1].cmd = "error"
  BY <1>1, <1>2 DEF TakenAfter, ErrorAfter
<1>8. LastAnswerIsCurrent => LastAnswerIsCurrent'
  BY <1>1, <1>2, <1>3, <1>4, <1>6 DEF LastAnswerIsCurrent
<1>9. (TakenAfter(1) <=> TakenAfter(0)') /\ (ErrorAfter(1) <=> ErrorAfter(0)')
  <2>1. 0 \in DOMAIN returns' \cup {0} /\ 0 + 1 = 1
    OBVIOUS
  <2> QED BY <1>6, <2>1
<1> QED BY <1>5, <1>7, <1>8, <1>9

(* The page follows the answers that it takes.                               *)
LEMMA TakeFollows ==
  ASSUME SettingsTypes, PageFollows, TakeReturn
  PROVE  PageFollows'
<1>1. /\ mount' = mount /\ screen' = screen /\ prefs' = prefs /\ calls' = calls
      /\ timers' = timers /\ volTimer' = volTimer
  BY DEF TakeReturn, settingsHost, pending
<1>2. LoadAsked' <=> LoadAsked
  BY <1>1 DEF LoadAsked
<1> SUFFICES ASSUME screen = "settings", ~LoadAsked PROVE PageFollows'
  BY <1>1, <1>2 DEF PageFollows
<1> DEFINE a == returns[1]
<1>3. a \in Answers /\ Head(returns) = a
  BY AnswerTaken
<1>4. Taken(a) => /\ store' = a.settings /\ a.settings \in Settings
                  /\ overtaken' = (\/ SoundOnItsWay \/ a.settings.volume # prefs.volume
                                   \/ a.settings.muted # prefs.muted)
  BY <1>3, AnswerFields DEF TakeReturn, Taken, Loads
<1>5. ~Taken(a) => store' = store /\ overtaken' = overtaken
  BY <1>3 DEF TakeReturn, Taken, Loads
<1>6. (~Taken(a) /\ (unsaved \/ a.cmd = "error") => unsaved') /\ (~Taken(a) => ~Loads(a))
  BY <1>3 DEF TakeReturn, Taken, Loads
<1> HIDE DEF a
<1>7. LastAnswerIsCurrent'
  BY LoadedOnce, AnswersMoveUp
<1>8. ASSUME ~TakenAfter(0)', NEW p \in Slots
      PROVE  KeyIsCurrent(p)'
  <2>1. CASE Taken(a)
    <3>1. 1 \in DOMAIN returns /\ Taken(returns[1]) /\ ~TakenAfter(1)
      BY <1>8, <2>1, AnswerTaken, AnswersMoveUp DEF a
    <3>2. ErrorAfter(1) \/ a.settings.keys[p] = prefs.keys[p]
      BY <3>1, LoadedOnce DEF LastAnswerIsCurrent, a
    <3> QED BY <1>1, <1>4, <2>1, <3>2, AnswersMoveUp DEF KeyIsCurrent
  <2>2. CASE ~Taken(a)
    <3>1. KeyIsCurrent(p)
      BY <1>8, <2>2, LoadedOnce, AnswersMoveUp DEF KeysAreCurrent, a
    <3>2. SaveOnItsWay(p) => SaveOnItsWay(p)'
      BY <1>1 DEF SaveOnItsWay
    <3>3. unsaved \/ ErrorAfter(0) => unsaved' \/ ErrorAfter(0)'
      BY <1>6, <2>2, AnswersMoveUp DEF a
    <3> QED BY <1>1, <1>5, <2>2, <3>1, <3>2, <3>3 DEF KeyIsCurrent, HasDuplicates
  <2> QED BY <2>1, <2>2
<1>9. ASSUME ~LoadAnswered'
      PROVE  store' # Nothing /\ (overtaken' \/ (VolumeArrives' /\ MuteArrives'))
  <2>1. CASE Taken(a)
    <3>1. store' = a.settings /\ store' # Nothing
      BY <1>4, <2>1, NothingIsNone
    <3>2. ASSUME ~overtaken'
          PROVE  VolumeArrives' /\ MuteArrives'
      <4>1. /\ volTimer = Nothing /\ store'.volume = prefs.volume
            /\ store'.muted = prefs.muted
            /\ \A i \in DOMAIN calls : calls[i].cmd \notin {"volume", "mute"}
        BY <1>4, <2>1, <3>1, <3>2 DEF SoundOnItsWay
      <4> QED BY <1>1, <4>1 DEF VolumeArrives, MuteArrives, LastOf
    <3> QED BY <3>1, <3>2
  <2>2. CASE ~Taken(a)
    <3>1. ~LoadAnswered
      BY <1>6, <1>9, <2>2, AnswersMoveUp DEF a
    <3>2. store # Nothing /\ (overtaken \/ (VolumeArrives /\ MuteArrives))
      BY <3>1, LoadedOnce
    <3> QED BY <1>1, <1>5, <2>2, <3>2, VolumeStays, MuteStays
  <2> QED BY <2>1, <2>2
<1> QED BY <1>7, <1>8, <1>9 DEF PageFollows, KeysAreCurrent

-----------------------------------------------------------------------------
(* The theorems. *)

(* No step breaks the invariant. *)
LEMMA SettingsStep ==
  ASSUME SettingsIInv, [SettingsNext]_settingsVars
  PROVE  SettingsIInv'
<1> USE DEF SettingsIInv
<1>1. SettingsTypes' /\ NoClash'
  BY SettingsTypesKept, NoClashKept
<1>2. PageFollows'
  <2>1. CASE UNCHANGED settingsVars
    <3>1. \A p \in Slots : SaveOnItsWay(p) => SaveOnItsWay(p)'
      BY <2>1 DEF settingsVars, SaveOnItsWay
    <3>2. KeysAreCurrent => KeysAreCurrent'
      BY <2>1, <3>1, KeyStays, AnswersWait DEF settingsVars, KeysAreCurrent
    <3>3. (VolumeArrives => VolumeArrives') /\ (MuteArrives => MuteArrives')
      BY <2>1, VolumeStays, MuteStays DEF settingsVars
    <3>4. LoadAsked' <=> LoadAsked
      BY <2>1 DEF settingsVars, LoadAsked
    <3> QED BY <2>1, <3>2, <3>3, <3>4, AnswersWait DEF settingsVars, PageFollows
  <2>2. CASE OpenSettings
    <3>1. /\ [cmd |-> "get", mount |-> mount'] \in Calls
          /\ Invoke([cmd |-> "get", mount |-> mount'])
      BY <1>1, <2>2 DEF OpenSettings, Calls, SettingsTypes
    <3>2. LoadAsked'
      BY <3>1, CallSent DEF LoadAsked
    <3> QED BY <3>2 DEF PageFollows
  <2>3. CASE LeaveSettings \/ OpenGame \/ LeaveGame \/ GameSound
    BY <2>3 DEF PageFollows, LeaveSettings, OpenGame, LeaveGame, GameSound
  <2> QED BY <2>1, <2>2, <2>3, EditFollows, SendFollows, AnswersFollow, SoundFollows, TakeFollows
          DEF SettingsNext
<1> QED BY <1>1, <1>2

(* The invariant of the settings.                                            *)
THEOREM SettingsInvariantHolds == SettingsSpec => []SettingsIInv
BY SettingsStart, SettingsStep, PTL DEF SettingsSpec

(* A settled page shows the host's settings, and no clash of keys and no     *)
(* volume out of range gets to the host, for any players, keys and volumes   *)
(* and any number of edits, saves, failures and late answers                 *)
(* (settingsStore.ts, SettingsView.tsx, commands/settings.rs).               *)
THEOREM SettingsAgree == SettingsSpec => []SettingsInvariant
<1>1. SettingsIInv => SettledPageAgrees
  <2> SUFFICES ASSUME SettingsIInv, Settled, screen = "settings", store # Nothing, ~unsaved
               PROVE  /\ \A p \in Slots :
                           store.keys[p] = prefs.keys[p] \/ HasDuplicates(store.keys[p])
                      /\ overtaken \/ (store.volume = prefs.volume /\ store.muted = prefs.muted)
    BY DEF SettledPageAgrees
  <2>1. DOMAIN calls = {} /\ DOMAIN returns = {}
    BY DEF Settled
  <2>2. ~LoadAsked /\ ~LoadAnswered /\ ~TakenAfter(0) /\ ~ErrorAfter(0)
    BY <2>1 DEF LoadAsked, LoadAnswered, TakenAfter, ErrorAfter
  <2>3. \A p \in Slots : KeyIsCurrent(p) /\ ~SaveOnItsWay(p)
    BY <2>1, <2>2 DEF SettingsIInv, PageFollows, KeysAreCurrent, SaveOnItsWay, Settled
  <2>4. overtaken \/ (VolumeArrives /\ MuteArrives)
    BY <2>2 DEF SettingsIInv, PageFollows
  <2>5. NoneSent("volume") /\ NoneSent("mute")
    BY <2>1 DEF NoneSent
  <2> QED BY <2>2, <2>3, <2>4, <2>5 DEF KeyIsCurrent, VolumeArrives, MuteArrives, Settled
<1>2. SettingsIInv => HostSettingsValid
  BY DEF SettingsIInv, HostSettingsValid, NoClash, SettingsTypes, Settings
<1>3. SettingsIInv => SettingsInvariant
  BY <1>1, <1>2 DEF SettingsInvariant
<1> QED BY <1>3, SettingsInvariantHolds, PTL

-----------------------------------------------------------------------------
(* The library.                                                              *)

(* The commands in the two queues, the entries the page is told of, and the   *)
(* import beside them.                                                        *)
Changing ==
  [cmd : {"removeRom"}, rom : RomIds]
  \cup [cmd : {"renameRom"}, rom : RomIds, title : Labels]
  \cup [cmd : {"delete"}, list : CollectionIds]
  \cup [cmd : {"add", "drop"}, list : CollectionIds, rom : RomIds, was : Collections]

Commands ==
  Changing
  \cup [cmd : {"load"}, visit : Nat]
  \cup [cmd : {"create"}, name : Labels]
  \cup [cmd : {"rename"}, list : CollectionIds, name : Labels]

Replies ==
  Changing
  \cup [cmd : {"load"}, visit : Nat, library : Libraries]
  \cup [cmd : {"entry"}, list : CollectionIds, value : Collections]
  \cup [cmd : {"imported"}, rom : RomIds, title : Labels, late : BOOLEAN]
  \cup [cmd : {"error"}, lost : BOOLEAN]

LibraryTypes ==
  /\ catalog \in Libraries /\ minted \subseteq CollectionIds
  /\ cached \in Libraries \cup {Unloaded}
  /\ view \in {"library", "collections", "game"} /\ visit \in Nat
  /\ commands \in Seq(Commands) /\ answers \in Seq(Replies)
  /\ dialog \in {Closed, [at |-> "open"]} \cup [at : {"done"}, rom : RomIds, title : Labels]
  /\ astray \in BOOLEAN

(* The page's copy is on its way to the host's library.  A path is what the  *)
(* copy will be after each answer, from one that is known: what the mounted  *)
(* view's load will put in its place, or the copy as it is.                  *)
LoadsView(c) == c.cmd = "load" /\ c.visit = visit
LastLoad(i) == LoadsView(answers[i]) /\ \A j \in DOMAIN answers : j > i => ~LoadsView(answers[j])

(* What an answer makes of a copy that is not replaced.                      *)
Becomes(a, lib) ==
  CASE a.cmd = "removeRom" -> WithoutRom(lib, a.rom)
    [] a.cmd \in {"renameRom", "imported"} -> [lib EXCEPT !.titles = Put(@, a.rom, a.title)]
    [] a.cmd = "entry" -> [lib EXCEPT !.lists = Put(@, a.list, a.value)]
    [] a.cmd = "delete" -> [lib EXCEPT !.lists = Drop(@, a.list)]
    [] a.cmd = "add" ->
         [lib EXCEPT !.lists = Put(@, a.list, [a.was EXCEPT !.roms = @ \cup {a.rom}])]
    [] a.cmd = "drop" ->
         [lib EXCEPT !.lists = Put(@, a.list, [a.was EXCEPT !.roms = @ \ {a.rom}])]
    [] a.cmd \in {"load", "error"} -> lib

LeavesBehind(a, lib) ==
  \/ a.cmd \in {"add", "drop"} /\ (a.list \notin DOMAIN lib.lists \/ lib.lists[a.list] # a.was)
  \/ a.cmd = "imported" /\ a.late
  \/ a.cmd = "error" /\ a.lost

(* The host is where the path ends, but for the ROM whose import it has not   *)
(* answered yet.                                                              *)
NotYetTold(rom) == dialog.at = "done" /\ dialog.rom = rom
SameTitle(some, other, rom) ==
  /\ rom \in DOMAIN some <=> rom \in DOMAIN other
  /\ rom \in DOMAIN some => some[rom] = other[rom]
Reached(lib) ==
  /\ lib.lists = catalog.lists
  /\ \A rom \in RomIds : NotYetTold(rom) \/ SameTitle(lib.titles, catalog.titles, rom)

Paths(start) == [start .. Len(answers) -> Libraries]
IsPath(start, path) ==
  /\ \A i \in start + 1 .. Len(answers) :
       LeavesBehind(answers[i], path[i - 1]) \/ path[i] = Becomes(answers[i], path[i - 1])
  /\ Reached(path[Len(answers)])

FromLoad ==
  \A i \in DOMAIN answers :
    LastLoad(i) => \E path \in Paths(i) : path[i] = answers[i].library /\ IsPath(i, path)
FromCopy ==
  (\A i \in DOMAIN answers : ~LoadsView(answers[i])) /\ ~astray =>
    \E path \in Paths(0) : path[0] = cached /\ IsPath(0, path)

CopyFollows ==
  view # "game" /\ (\A i \in DOMAIN commands : ~LoadsView(commands[i])) => FromLoad /\ FromCopy

LibraryIInv == LibraryTypes /\ CopyFollows

-----------------------------------------------------------------------------
(* Libraries. *)

(* A map from some of the keys, with one more entry or one less.             *)
LEMMA PartialMaps ==
  ASSUME NEW K, NEW V, NEW f \in Partial(K, V)
  PROVE  /\ DOMAIN f \subseteq K /\ \A k \in DOMAIN f : f[k] \in V
         /\ \A k \in K, v \in V : Put(f, k, v) \in Partial(K, V)
         /\ \A k : Drop(f, k) \in Partial(K, V)
<1>1. PICK D \in SUBSET K : f \in [D -> V]
  BY DEF Partial
<1>2. DOMAIN f \subseteq K /\ \A k \in DOMAIN f : f[k] \in V
  BY <1>1
<1>3. ASSUME NEW k \in K, NEW v \in V
      PROVE  Put(f, k, v) \in Partial(K, V)
  <2>1. Put(f, k, v) \in [DOMAIN f \cup {k} -> V]
    BY <1>2 DEF Put
  <2>2. DOMAIN f \cup {k} \in SUBSET K
    BY <1>2
  <2> QED BY <2>1, <2>2 DEF Partial
<1>4. ASSUME NEW k
      PROVE  Drop(f, k) \in Partial(K, V)
  <2>1. Drop(f, k) \in [DOMAIN f \ {k} -> V]
    BY <1>2 DEF Drop
  <2>2. DOMAIN f \ {k} \in SUBSET K
    BY <1>2
  <2> QED BY <2>1, <2>2 DEF Partial
<1> QED BY <1>2, <1>3, <1>4

(* A new value for a key that is known is put there. *)
LEMMA ExceptIsPut ==
  ASSUME NEW K, NEW V, NEW f \in Partial(K, V), NEW k \in DOMAIN f, NEW v
  PROVE  [f EXCEPT ![k] = v] = Put(f, k, v)
<1>1. PICK D \in SUBSET K : f \in [D -> V]
  BY DEF Partial
<1>2. DOMAIN f \cup {k} = DOMAIN f
  OBVIOUS
<1>3. Put(f, k, v) = [x \in DOMAIN f |-> IF x = k THEN v ELSE f[x]]
  BY <1>2 DEF Put
<1> QED BY <1>1, <1>3

(* A library has its two maps, and changes in one leave the other.           *)
LEMMA LibraryParts ==
  ASSUME NEW lib \in Libraries
  PROVE  /\ lib = [titles |-> lib.titles, lists |-> lib.lists]
         /\ lib.titles \in Partial(RomIds, Labels)
         /\ lib.lists \in Partial(CollectionIds, Collections)
         /\ \A t : [lib EXCEPT !.titles = t] = [titles |-> t, lists |-> lib.lists]
         /\ \A l : [lib EXCEPT !.lists = l] = [titles |-> lib.titles, lists |-> l]
BY DEF Libraries

(* A library without a ROM is a library. *)
LEMMA LibraryWithoutRom ==
  ASSUME NEW lib \in Libraries, NEW rom
  PROVE  WithoutRom(lib, rom) \in Libraries
<1>1. Drop(lib.titles, rom) \in Partial(RomIds, Labels)
  BY LibraryParts, PartialMaps
<1> DEFINE lists == [l \in DOMAIN lib.lists |-> [lib.lists[l] EXCEPT !.roms = @ \ {rom}]]
<1>2. DOMAIN lib.lists \subseteq CollectionIds
      /\ \A l \in DOMAIN lib.lists : lib.lists[l] \in Collections
  BY LibraryParts, PartialMaps
<1>3. \A l \in DOMAIN lib.lists : [lib.lists[l] EXCEPT !.roms = @ \ {rom}] \in Collections
  BY <1>2 DEF Collections
<1>4. lists \in [DOMAIN lib.lists -> Collections]
  BY <1>3
<1>5. lists \in Partial(CollectionIds, Collections)
  BY <1>2, <1>4 DEF Partial
<1>6. WithoutRom(lib, rom) = [titles |-> Drop(lib.titles, rom), lists |-> lists]
  BY DEF WithoutRom
<1> QED BY <1>1, <1>5, <1>6 DEF Libraries

(* What an answer or a command says by the name it has. *)
LEMMA ReplyFields ==
  ASSUME NEW a \in Replies
  PROVE  /\ a.cmd \in {"removeRom", "renameRom", "delete", "add", "drop", "load", "entry",
                       "imported", "error"}
         /\ a.cmd \in {"removeRom", "renameRom", "add", "drop", "imported"} => a.rom \in RomIds
         /\ a.cmd \in {"renameRom", "imported"} => a.title \in Labels
         /\ a.cmd \in {"delete", "add", "drop", "entry"} => a.list \in CollectionIds
         /\ a.cmd \in {"add", "drop"} => a.was \in Collections
         /\ a.cmd = "entry" => a.value \in Collections
         /\ a.cmd = "load" => a.library \in Libraries /\ a.visit \in Nat
         /\ a.cmd = "imported" => a.late \in BOOLEAN
         /\ a.cmd = "error" => a.lost \in BOOLEAN
BY DEF Replies, Changing

(* And a request by the command it is of. *)
LEMMA CommandFields ==
  ASSUME NEW c \in Commands
  PROVE  /\ c.cmd \in {"removeRom", "renameRom", "delete", "add", "drop", "load", "create",
                       "rename"}
         /\ c.cmd \in {"removeRom", "renameRom", "add", "drop"} => c.rom \in RomIds
         /\ c.cmd = "renameRom" => c.title \in Labels
         /\ c.cmd \in {"delete", "add", "drop", "rename"} => c.list \in CollectionIds
         /\ c.cmd \in {"add", "drop"} => c.was \in Collections
         /\ c.cmd \in {"create", "rename"} => c.name \in Labels
         /\ c.cmd = "load" => c.visit \in Nat
         /\ c.cmd \in {"removeRom", "renameRom", "delete", "add", "drop"} => c \in Changing
BY DEF Commands, Changing

(* Collections that gain or lose a ROM or change their name are collections. *)
LEMMA CollectionChanged ==
  ASSUME NEW coll \in Collections
  PROVE  /\ \A rom \in RomIds : [coll EXCEPT !.roms = @ \cup {rom}] \in Collections
         /\ \A rom : [coll EXCEPT !.roms = @ \ {rom}] \in Collections
         /\ \A name \in Labels : [coll EXCEPT !.name = name] \in Collections
BY DEF Collections

(* What an answer makes of a library is a library. *)
LEMMA BecomesLibrary ==
  ASSUME NEW a \in Replies, NEW lib \in Libraries
  PROVE  Becomes(a, lib) \in Libraries
<1>t. ASSUME NEW t \in Partial(RomIds, Labels)
      PROVE  [lib EXCEPT !.titles = t] \in Libraries
  BY <1>t, LibraryParts DEF Libraries
<1>l. ASSUME NEW l \in Partial(CollectionIds, Collections)
      PROVE  [lib EXCEPT !.lists = l] \in Libraries
  BY <1>l, LibraryParts DEF Libraries
<1>1. CASE a.cmd = "removeRom"
  BY <1>1, LibraryWithoutRom DEF Becomes
<1>2. CASE a.cmd \in {"renameRom", "imported"}
  <2>1. Put(lib.titles, a.rom, a.title) \in Partial(RomIds, Labels)
    BY <1>2, ReplyFields, LibraryParts, PartialMaps
  <2>2. Becomes(a, lib) = [lib EXCEPT !.titles = Put(lib.titles, a.rom, a.title)]
    BY <1>2 DEF Becomes
  <2> QED BY <2>1, <2>2, <1>t
<1>3. CASE a.cmd = "entry"
  <2>1. Put(lib.lists, a.list, a.value) \in Partial(CollectionIds, Collections)
    BY <1>3, ReplyFields, LibraryParts, PartialMaps
  <2>2. Becomes(a, lib) = [lib EXCEPT !.lists = Put(lib.lists, a.list, a.value)]
    BY <1>3 DEF Becomes
  <2> QED BY <2>1, <2>2, <1>l
<1>4. CASE a.cmd = "delete"
  <2>1. Drop(lib.lists, a.list) \in Partial(CollectionIds, Collections)
    BY LibraryParts, PartialMaps
  <2>2. Becomes(a, lib) = [lib EXCEPT !.lists = Drop(lib.lists, a.list)]
    BY <1>4 DEF Becomes
  <2> QED BY <2>1, <2>2, <1>l
<1>5. CASE a.cmd = "add"
  <2> DEFINE coll == [a.was EXCEPT !.roms = @ \cup {a.rom}]
  <2>1. coll \in Collections
    BY <1>5, ReplyFields, CollectionChanged
  <2>2. Put(lib.lists, a.list, coll) \in Partial(CollectionIds, Collections)
    BY <1>5, <2>1, ReplyFields, LibraryParts, PartialMaps
  <2>3. Becomes(a, lib) = [lib EXCEPT !.lists = Put(lib.lists, a.list, coll)]
    BY <1>5 DEF Becomes
  <2> QED BY <2>2, <2>3, <1>l
<1>6. CASE a.cmd = "drop"
  <2> DEFINE coll == [a.was EXCEPT !.roms = @ \ {a.rom}]
  <2>1. coll \in Collections
    BY <1>6, ReplyFields, CollectionChanged
  <2>2. Put(lib.lists, a.list, coll) \in Partial(CollectionIds, Collections)
    BY <1>6, <2>1, ReplyFields, LibraryParts, PartialMaps
  <2>3. Becomes(a, lib) = [lib EXCEPT !.lists = Put(lib.lists, a.list, coll)]
    BY <1>6 DEF Becomes
  <2> QED BY <2>2, <2>3, <1>l
<1>7. CASE a.cmd \in {"load", "error"}
  BY <1>7 DEF Becomes
<1> QED BY <1>1, <1>2, <1>3, <1>4, <1>5, <1>6, <1>7, ReplyFields

-----------------------------------------------------------------------------
(* The host's library at the end of the path. *)

(* What an answer makes of the end of the path is where the host has got to, *)
(* or the answer leaves the copy behind.                                     *)
Follows(a, lib) == LeavesBehind(a, lib) \/ Reached(Becomes(a, lib))'
HostGoes(a) == \A lib \in Libraries : Reached(lib) => Follows(a, lib)

(* So it is with every command that is served without an error: the page's   *)
(* reducers mirror the host's methods (libraryStore.ts, library.rs).         *)
LEMMA ServedFollows ==
  ASSUME LibraryTypes, NEW c \in Commands, c.cmd # "load", ~Refuses(c),
         catalog' = Changes(c), dialog' = dialog, NEW a, a = Reply(c, catalog')
  PROVE  catalog' \in Libraries /\ a \in Replies /\ HostGoes(a)
<1>0. /\ catalog \in Libraries /\ minted \subseteq CollectionIds
      /\ catalog = [titles |-> catalog.titles, lists |-> catalog.lists]
      /\ catalog.titles \in Partial(RomIds, Labels)
      /\ catalog.lists \in Partial(CollectionIds, Collections)
      /\ \A t : [catalog EXCEPT !.titles = t] = [titles |-> t, lists |-> catalog.lists]
      /\ \A l : [catalog EXCEPT !.lists = l] = [titles |-> catalog.titles, lists |-> l]
  BY LibraryParts DEF LibraryTypes
<1>s. ASSUME NEW t \in Partial(RomIds, Labels), NEW l \in Partial(CollectionIds, Collections)
      PROVE  [titles |-> t, lists |-> l] \in Libraries
  BY <1>s DEF Libraries
<1>g. ASSUME a \in Replies, NEW lib \in Libraries, Reached(lib), NEW g \in Libraries,
             Becomes(a, lib) = g,
             g.lists = catalog'.lists,
             \A rom \in RomIds : SameTitle(lib.titles, catalog.titles, rom)
                                   => SameTitle(g.titles, catalog'.titles, rom)
      PROVE  Follows(a, lib)
  <2>1. g.lists = catalog'.lists
    BY <1>g
  <2>2. ASSUME NEW rom \in RomIds
        PROVE  NotYetTold(rom)' \/ SameTitle(g.titles, catalog'.titles, rom)
    BY <1>g DEF Reached, NotYetTold
  <2>3. Reached(g)'
    BY <2>1, <2>2 DEF Reached
  <2> QED BY <1>g, <2>3 DEF Follows
<1>1. CASE c.cmd = "removeRom"
  <2>1. catalog' = WithoutRom(catalog, c.rom) /\ a = c /\ c.rom \in RomIds /\ a \in Replies
    BY <1>1, CommandFields DEF Changes, Reply, Replies
  <2>2. ASSUME NEW lib \in Libraries, Reached(lib)
        PROVE  Follows(a, lib)
    <3>1. Becomes(a, lib) = WithoutRom(lib, c.rom)
      BY <1>1, <2>1 DEF Becomes
    <3>2. lib.lists = catalog.lists
      BY <2>2 DEF Reached
    <3>3. WithoutRom(lib, c.rom).lists = catalog'.lists
      BY <2>1, <3>2 DEF WithoutRom
    <3>4. /\ WithoutRom(lib, c.rom).titles = Drop(lib.titles, c.rom)
          /\ catalog'.titles = Drop(catalog.titles, c.rom)
      BY <2>1 DEF WithoutRom
    <3>5. \A rom \in RomIds : SameTitle(lib.titles, catalog.titles, rom)
                                => SameTitle(Drop(lib.titles, c.rom),
                                             Drop(catalog.titles, c.rom), rom)
      BY DEF SameTitle, Drop
    <3> QED BY <1>g, <2>1, <2>2, <3>1, <3>3, <3>4, <3>5, LibraryWithoutRom
  <2> QED BY <1>0, <2>1, <2>2, LibraryWithoutRom DEF HostGoes
<1>2. CASE c.cmd = "renameRom"
  <2>0. c.rom \in RomIds /\ c.title \in Labels /\ c.rom \in DOMAIN catalog.titles
    BY <1>2, CommandFields DEF Refuses
  <2>1. [catalog.titles EXCEPT ![c.rom] = c.title] = Put(catalog.titles, c.rom, c.title)
    <3>1. catalog.titles \in Partial(RomIds, Labels)
      BY <1>0
    <3> QED BY <2>0, <3>1, ExceptIsPut
  <2>2. catalog' = [titles |-> Put(catalog.titles, c.rom, c.title), lists |-> catalog.lists]
    <3>1. catalog' = [catalog EXCEPT !.titles[c.rom] = c.title]
      BY <1>2 DEF Changes
    <3>2. catalog' = [catalog EXCEPT !.titles = [catalog.titles EXCEPT ![c.rom] = c.title]]
      BY <3>1
    <3> QED BY <1>0, <2>1, <3>2
  <2>3. Put(catalog.titles, c.rom, c.title) \in Partial(RomIds, Labels)
    BY <1>0, <2>0, PartialMaps
  <2>4. a = c /\ a \in Replies
    BY <1>2, CommandFields DEF Reply, Replies
  <2>5. ASSUME NEW lib \in Libraries, Reached(lib)
        PROVE  Follows(a, lib)
    <3> DEFINE t == Put(lib.titles, c.rom, c.title)
    <3>1. Becomes(a, lib) = [titles |-> t, lists |-> lib.lists]
      <4>1. Becomes(a, lib) = [lib EXCEPT !.titles = t]
        BY <1>2, <2>4 DEF Becomes
      <4> QED BY <4>1, LibraryParts
    <3>2. lib.lists = catalog.lists
      BY <2>5 DEF Reached
    <3>3. t \in Partial(RomIds, Labels) /\ lib.lists \in Partial(CollectionIds, Collections)
      BY <2>0, LibraryParts, PartialMaps
    <3>4. \A rom \in RomIds : SameTitle(lib.titles, catalog.titles, rom)
                                => SameTitle(t, Put(catalog.titles, c.rom, c.title), rom)
      BY DEF SameTitle, Put
    <3>5. PICK g : g = [titles |-> t, lists |-> lib.lists]
      OBVIOUS
    <3>6. g \in Libraries /\ g.lists = lib.lists /\ g.titles = t
      BY <1>s, <3>3, <3>5
    <3>7. catalog'.lists = catalog.lists /\ catalog'.titles = Put(catalog.titles, c.rom, c.title)
      BY <2>2
    <3> HIDE DEF t
    <3> QED BY <1>g, <2>4, <2>5, <3>1, <3>2, <3>4, <3>5, <3>6, <3>7
  <2> QED BY <1>0, <1>s, <2>2, <2>3, <2>4, <2>5 DEF HostGoes
<1>l. ASSUME NEW l \in Partial(CollectionIds, Collections), a \in Replies,
             catalog' = [titles |-> catalog.titles, lists |-> l],
             \A lib \in Libraries :
               lib.lists = catalog.lists =>
                 LeavesBehind(a, lib) \/ Becomes(a, lib) = [lib EXCEPT !.lists = l]
      PROVE  catalog' \in Libraries /\ HostGoes(a)
  <2>1. catalog' \in Libraries
    BY <1>0, <1>s, <1>l
  <2>2. ASSUME NEW lib \in Libraries, Reached(lib), ~LeavesBehind(a, lib)
        PROVE  Follows(a, lib)
    <3>1. lib.lists = catalog.lists
      BY <2>2 DEF Reached
    <3>2. PICK g : g = [titles |-> lib.titles, lists |-> l]
      OBVIOUS
    <3>3. Becomes(a, lib) = g
      <4>1. Becomes(a, lib) = [lib EXCEPT !.lists = l]
        BY <1>l, <2>2, <3>1
      <4> QED BY <3>2, <4>1, LibraryParts
    <3>4. g \in Libraries /\ g.lists = l /\ g.titles = lib.titles
      BY <1>s, <1>l, <3>2, LibraryParts
    <3>5. catalog'.lists = l /\ catalog'.titles = catalog.titles
      BY <1>l
    <3> QED BY <1>g, <1>l, <2>2, <3>3, <3>4, <3>5
  <2> QED BY <2>1, <2>2 DEF HostGoes, Follows
<1>3. CASE c.cmd = "create"
  <2> DEFINE coll == [name |-> c.name, roms |-> {}]
             l == Put(catalog.lists, FreshList, coll)
  <2>1. FreshList \in CollectionIds
    BY <1>3, CommandFields DEF Refuses, FreshList
  <2>2. coll \in Collections
    BY <1>3, CommandFields DEF Collections
  <2>3. l \in Partial(CollectionIds, Collections)
    BY <1>0, <2>1, <2>2, PartialMaps
  <2>4. catalog' = [titles |-> catalog.titles, lists |-> l]
    <3>1. catalog' = [catalog EXCEPT !.lists = l]
      BY <1>3 DEF Changes
    <3> QED BY <1>0, <3>1
  <2>5. a = [cmd |-> "entry", list |-> FreshList, value |-> coll]
    <3>1. a = [cmd |-> "entry", list |-> FreshList, value |-> catalog'.lists[FreshList]]
      BY <1>3 DEF Reply
    <3>2. catalog'.lists[FreshList] = coll
      BY <2>4 DEF Put
    <3> QED BY <3>1, <3>2
  <2>6. a \in Replies
    <3> HIDE DEF coll
    <3> QED BY <2>1, <2>2, <2>5 DEF Replies
  <2>7. ASSUME NEW lib \in Libraries, lib.lists = catalog.lists
        PROVE  Becomes(a, lib) = [lib EXCEPT !.lists = l]
    <3>1. a.cmd = "entry" /\ a.list = FreshList /\ a.value = coll
      BY <2>5
    <3>2. Becomes(a, lib) = [lib EXCEPT !.lists = Put(lib.lists, a.list, a.value)]
      BY <3>1 DEF Becomes
    <3> QED BY <2>7, <3>1, <3>2
  <2> HIDE DEF l
  <2> QED BY <1>l, <2>3, <2>4, <2>6, <2>7
<1>4. CASE c.cmd = "rename"
  <2> DEFINE coll == [catalog.lists[c.list] EXCEPT !.name = c.name]
             l == Put(catalog.lists, c.list, coll)
  <2>1. c.list \in CollectionIds /\ c.name \in Labels /\ c.list \in DOMAIN catalog.lists
    BY <1>4, CommandFields DEF Refuses
  <2>2. coll \in Collections
    <3>1. catalog.lists[c.list] \in Collections
      BY <1>0, <2>1, PartialMaps
    <3> QED BY <2>1, <3>1, CollectionChanged
  <2>3. l \in Partial(CollectionIds, Collections)
    BY <1>0, <2>1, <2>2, PartialMaps
  <2>4. catalog' = [titles |-> catalog.titles, lists |-> l]
    <3>1. catalog' = [catalog EXCEPT !.lists[c.list].name = c.name]
      BY <1>4 DEF Changes
    <3>2. catalog' = [catalog EXCEPT !.lists = [catalog.lists EXCEPT ![c.list] = coll]]
      BY <3>1
    <3>3. [catalog.lists EXCEPT ![c.list] = coll] = l
      BY <1>0, <2>1, ExceptIsPut
    <3> QED BY <1>0, <3>2, <3>3
  <2>5. a = [cmd |-> "entry", list |-> c.list, value |-> coll]
    <3>1. a = [cmd |-> "entry", list |-> c.list, value |-> catalog'.lists[c.list]]
      BY <1>4 DEF Reply
    <3>2. catalog'.lists[c.list] = coll
      BY <2>4 DEF Put
    <3> QED BY <3>1, <3>2
  <2>6. a \in Replies
    <3> HIDE DEF coll
    <3> QED BY <2>1, <2>2, <2>5 DEF Replies
  <2>7. ASSUME NEW lib \in Libraries, lib.lists = catalog.lists
        PROVE  Becomes(a, lib) = [lib EXCEPT !.lists = l]
    <3>1. a.cmd = "entry" /\ a.list = c.list /\ a.value = coll
      BY <2>5
    <3>2. Becomes(a, lib) = [lib EXCEPT !.lists = Put(lib.lists, a.list, a.value)]
      BY <3>1 DEF Becomes
    <3> QED BY <2>7, <3>1, <3>2
  <2> HIDE DEF l
  <2> QED BY <1>l, <2>3, <2>4, <2>6, <2>7
<1>5. CASE c.cmd = "delete"
  <2> DEFINE l == Drop(catalog.lists, c.list)
  <2>1. l \in Partial(CollectionIds, Collections)
    BY <1>0, PartialMaps
  <2>2. catalog' = [titles |-> catalog.titles, lists |-> l]
    <3>1. catalog' = [catalog EXCEPT !.lists = l]
      BY <1>5 DEF Changes
    <3> QED BY <1>0, <3>1
  <2>3. a = c /\ a \in Replies
    BY <1>5, CommandFields DEF Reply, Replies
  <2>4. ASSUME NEW lib \in Libraries, lib.lists = catalog.lists
        PROVE  Becomes(a, lib) = [lib EXCEPT !.lists = l]
    <3>1. Becomes(a, lib) = [lib EXCEPT !.lists = Drop(lib.lists, c.list)]
      BY <1>5, <2>3 DEF Becomes
    <3> QED BY <2>4, <3>1
  <2> HIDE DEF l
  <2> QED BY <1>l, <2>1, <2>2, <2>3, <2>4
<1>6. CASE c.cmd = "add"
  <2> DEFINE coll == [catalog.lists[c.list] EXCEPT !.roms = @ \cup {c.rom}]
             l == Put(catalog.lists, c.list, coll)
  <2>1. c.list \in CollectionIds /\ c.rom \in RomIds /\ c.list \in DOMAIN catalog.lists
    BY <1>6, CommandFields DEF Refuses
  <2>2. coll \in Collections
    <3>1. catalog.lists[c.list] \in Collections
      BY <1>0, <2>1, PartialMaps
    <3> QED BY <2>1, <3>1, CollectionChanged
  <2>3. l \in Partial(CollectionIds, Collections)
    BY <1>0, <2>1, <2>2, PartialMaps
  <2>4. catalog' = [titles |-> catalog.titles, lists |-> l]
    <3>1. catalog' = [catalog EXCEPT !.lists[c.list].roms = @ \cup {c.rom}]
      BY <1>6 DEF Changes
    <3>2. catalog' = [catalog EXCEPT !.lists = [catalog.lists EXCEPT ![c.list] = coll]]
      BY <3>1
    <3>3. [catalog.lists EXCEPT ![c.list] = coll] = l
      BY <1>0, <2>1, ExceptIsPut
    <3> QED BY <1>0, <3>2, <3>3
  <2>5. a = c /\ a \in Replies
    BY <1>6, CommandFields DEF Reply, Replies
  <2>6. ASSUME NEW lib \in Libraries, lib.lists = catalog.lists, ~LeavesBehind(a, lib)
        PROVE  Becomes(a, lib) = [lib EXCEPT !.lists = l]
    <3>1. lib.lists[c.list] = c.was
      BY <1>6, <2>5, <2>6 DEF LeavesBehind
    <3>2. Becomes(a, lib)
            = [lib EXCEPT !.lists = Put(lib.lists, c.list, [c.was EXCEPT !.roms = @ \cup {c.rom}])]
      BY <1>6, <2>5 DEF Becomes
    <3> QED BY <2>6, <3>1, <3>2
  <2> HIDE DEF l
  <2> QED BY <1>l, <2>3, <2>4, <2>5, <2>6
<1>7. CASE c.cmd = "drop"
  <2> DEFINE coll == [catalog.lists[c.list] EXCEPT !.roms = @ \ {c.rom}]
             l == Put(catalog.lists, c.list, coll)
  <2>1. c.list \in CollectionIds /\ c.rom \in RomIds /\ c.list \in DOMAIN catalog.lists
    BY <1>7, CommandFields DEF Refuses
  <2>2. coll \in Collections
    <3>1. catalog.lists[c.list] \in Collections
      BY <1>0, <2>1, PartialMaps
    <3> QED BY <3>1, CollectionChanged
  <2>3. l \in Partial(CollectionIds, Collections)
    BY <1>0, <2>1, <2>2, PartialMaps
  <2>4. catalog' = [titles |-> catalog.titles, lists |-> l]
    <3>1. catalog' = [catalog EXCEPT !.lists[c.list].roms = @ \ {c.rom}]
      BY <1>7 DEF Changes
    <3>2. catalog' = [catalog EXCEPT !.lists = [catalog.lists EXCEPT ![c.list] = coll]]
      BY <3>1
    <3>3. [catalog.lists EXCEPT ![c.list] = coll] = l
      BY <1>0, <2>1, ExceptIsPut
    <3> QED BY <1>0, <3>2, <3>3
  <2>5. a = c /\ a \in Replies
    BY <1>7, CommandFields DEF Reply, Replies
  <2>6. ASSUME NEW lib \in Libraries, lib.lists = catalog.lists, ~LeavesBehind(a, lib)
        PROVE  Becomes(a, lib) = [lib EXCEPT !.lists = l]
    <3>1. lib.lists[c.list] = c.was
      BY <1>7, <2>5, <2>6 DEF LeavesBehind
    <3>2. Becomes(a, lib)
            = [lib EXCEPT !.lists = Put(lib.lists, c.list, [c.was EXCEPT !.roms = @ \ {c.rom}])]
      BY <1>7, <2>5 DEF Becomes
    <3> QED BY <2>6, <3>1, <3>2
  <2> HIDE DEF l
  <2> QED BY <1>l, <2>3, <2>4, <2>5, <2>6
<1> QED BY <1>1, <1>2, <1>3, <1>4, <1>5, <1>6, <1>7, CommandFields

-----------------------------------------------------------------------------
(* Requests, and the types. *)

(* What the user asks for stands behind the other requests. *)
LEMMA CommandIssued ==
  ASSUME LibraryTypes, NEW c \in Commands, Issue(c)
  PROVE  /\ commands' \in Seq(Commands)
         /\ DOMAIN commands = 1 .. Len(commands) /\ Len(commands) \in Nat
         /\ DOMAIN commands' = 1 .. Len(commands) + 1 /\ commands'[Len(commands) + 1] = c
         /\ \A i \in DOMAIN commands : commands'[i] = commands[i]
         /\ UNCHANGED <<hostLibrary, cached, answers, dialog, astray>>
<1>1. commands \in Seq(Commands) /\ commands' = Append(commands, c)
  BY DEF LibraryTypes, Issue
<1> QED BY <1>1, Appended DEF Issue

(* The host serves the oldest request. *)
LEMMA CommandServed ==
  ASSUME LibraryTypes, commands # << >>, commands' = Tail(commands)
  PROVE  /\ commands' \in Seq(Commands) /\ Head(commands) \in Commands
         /\ DOMAIN commands = 1 .. Len(commands) /\ Len(commands) \in Nat /\ Len(commands) >= 1
         /\ Head(commands) = commands[1]
         /\ DOMAIN commands' = 1 .. Len(commands) - 1
         /\ \A i \in DOMAIN commands' : commands'[i] = commands[i + 1]
<1>1. commands \in Seq(Commands)
  BY DEF LibraryTypes
<1> QED BY <1>1, Removed

(* The page takes the oldest answer. *)
LEMMA ReplyTaken ==
  ASSUME LibraryTypes, answers # << >>, answers' = Tail(answers)
  PROVE  /\ answers' \in Seq(Replies) /\ Head(answers) \in Replies
         /\ DOMAIN answers = 1 .. Len(answers) /\ Len(answers) \in Nat /\ Len(answers) >= 1
         /\ Head(answers) = answers[1]
         /\ DOMAIN answers' = 1 .. Len(answers) - 1 /\ Len(answers') = Len(answers) - 1
         /\ \A i \in DOMAIN answers' : answers'[i] = answers[i + 1]
<1>1. answers \in Seq(Replies)
  BY DEF LibraryTypes
<1>2. answers' \in Seq(Replies) /\ DOMAIN answers' = 1 .. Len(answers')
  BY <1>1, Removed
<1> QED BY <1>1, <1>2, Removed

(* An answer stands behind the others. *)
LEMMA ReplySent ==
  ASSUME LibraryTypes, NEW a \in Replies, Answer(a)
  PROVE  /\ answers' \in Seq(Replies)
         /\ DOMAIN answers = 1 .. Len(answers) /\ Len(answers) \in Nat
         /\ DOMAIN answers' = 1 .. Len(answers) + 1 /\ Len(answers') = Len(answers) + 1
         /\ answers'[Len(answers) + 1] = a
         /\ \A i \in DOMAIN answers : answers'[i] = answers[i]
<1>1. answers \in Seq(Replies) /\ answers' = Append(answers, a)
  BY DEF LibraryTypes, Answer
<1>2. answers' \in Seq(Replies) /\ DOMAIN answers' = 1 .. Len(answers')
  BY <1>1, Appended
<1> QED BY <1>1, <1>2, Appended

(* The copy that the page shows after an answer. *)
LEMMA ShownBecomes ==
  ASSUME LibraryTypes, NEW a \in Replies
  PROVE  /\ Shown(a) \in Libraries \cup {Unloaded}
         /\ a.cmd = "load" => Shown(a) = IF IsCurrentLoad(a) THEN a.library ELSE cached
         /\ cached \in Libraries /\ a.cmd # "load" => Shown(a) = Becomes(a, cached)
<1>0. Unloaded \notin Libraries
  BY PageAssumption
<1>1. CASE cached \in Libraries
  <2>1. a.cmd # "load" => Shown(a) = Becomes(a, cached)
    BY <1>0, <1>1, ReplyFields
       DEF Shown, Becomes, RemoveCachedRom, UpsertRom, UpsertCollection, RemoveCollection, Current
  <2>2. a.cmd = "load" => Shown(a) = IF IsCurrentLoad(a) THEN a.library ELSE cached
    BY DEF Shown
  <2>3. Shown(a) \in Libraries
    BY <1>1, <2>1, <2>2, BecomesLibrary, ReplyFields
  <2> QED BY <2>1, <2>2, <2>3
<1>2. CASE cached = Unloaded
  <2>1. EmptyLibrary \in Libraries
    <3>1. << >> \in [{} -> Labels] /\ << >> \in [{} -> Collections]
      OBVIOUS
    <3>2. << >> \in Partial(RomIds, Labels) /\ << >> \in Partial(CollectionIds, Collections)
      BY <3>1 DEF Partial
    <3> QED BY <3>2 DEF EmptyLibrary, Libraries
  <2>2. a.cmd \in {"removeRom", "delete", "error"} => Shown(a) = Unloaded
    BY <1>2 DEF Shown, RemoveCachedRom, RemoveCollection
  <2>3. a.cmd \in {"renameRom", "imported", "entry", "add", "drop"}
          => Shown(a) = Becomes(a, EmptyLibrary)
    BY <1>2 DEF Shown, Becomes, UpsertRom, UpsertCollection, Current
  <2>4. a.cmd = "load" => Shown(a) = IF IsCurrentLoad(a) THEN a.library ELSE cached
    BY DEF Shown
  <2> QED BY <1>0, <1>2, <2>1, <2>2, <2>3, <2>4, BecomesLibrary, ReplyFields
<1> QED BY <1>1, <1>2 DEF LibraryTypes

(* What is in sight is of the library that is cached. *)
LEMMA DrawnLibrary ==
  ASSUME LibraryTypes
  PROVE  /\ \A rom \in DOMAIN Titles : rom \in RomIds
         /\ \A list \in DOMAIN Lists : list \in CollectionIds /\ Lists[list] \in Collections
<1>1. CASE cached = Unloaded
  BY <1>1 DEF Titles, Lists
<1>2. CASE cached \in Libraries /\ cached # Unloaded
  <2>1. cached.titles \in Partial(RomIds, Labels)
        /\ cached.lists \in Partial(CollectionIds, Collections)
    BY <1>2, LibraryParts
  <2>2. Titles = cached.titles /\ Lists = cached.lists
    BY <1>2 DEF Titles, Lists
  <2>3. \A rom \in DOMAIN cached.titles : rom \in RomIds
    BY <2>1, PartialMaps
  <2>4. \A list \in DOMAIN cached.lists :
          list \in CollectionIds /\ cached.lists[list] \in Collections
    BY <2>1, PartialMaps
  <2> QED BY <2>2, <2>3, <2>4
<1> QED BY <1>1, <1>2 DEF LibraryTypes

(* A step of the user sends one request of the right form, or none.          *)
UserAsks(c) == c \in Commands /\ Issue(c)
EntersView == \E c : UserAsks(c) /\ LoadsView(c)' /\ view' \in {"library", "collections"}
                     /\ visit' = visit + 1
ClicksInView == \E c : UserAsks(c) /\ c.cmd # "load" /\ UNCHANGED drawn
Clicks ==
  \/ \E rom \in RomIds : ConfirmRemove(rom) \/ \E title \in Labels : RenameTitle(rom, title)
  \/ \E name \in Labels : Create(name)
  \/ \E list \in CollectionIds :
      \/ DeleteList(list)
      \/ \E name \in Labels : RenameList(list, name)
      \/ \E rom \in RomIds : AddMember(list, rom) \/ DropMember(list, rom)

(* Entering a view asks for the library. *)
LEMMA EntersWithLoad ==
  ASSUME LibraryTypes, NEW next \in {"library", "collections"}, Enter(next)
  PROVE  EntersView
<1>1. PICK c : c = Load
  OBVIOUS
<1>2. c = [cmd |-> "load", visit |-> visit'] /\ visit' \in Nat
  BY <1>1 DEF Load, Enter, LibraryTypes
<1>3. c \in Commands /\ c.cmd = "load" /\ c.visit = visit'
  BY <1>2 DEF Commands
<1>4. Issue(c)
  BY <1>1 DEF Enter
<1>5. LoadsView(c)'
  BY <1>3 DEF LoadsView
<1> QED BY <1>3, <1>4, <1>5 DEF Enter, EntersView, UserAsks

(* A click in a view sends one command that is not a load. *)
LEMMA ClickSends ==
  ASSUME LibraryTypes, Clicks
  PROVE  ClicksInView
<1>1. ASSUME NEW c \in Commands, c.cmd # "load", Issue(c), UNCHANGED drawn
      PROVE  ClicksInView
  BY <1>1 DEF ClicksInView, UserAsks
<1>2. ASSUME NEW rom \in RomIds, ConfirmRemove(rom)
      PROVE  ClicksInView
  <2>1. PICK c : c = [cmd |-> "removeRom", rom |-> rom]
    OBVIOUS
  <2>2. c \in Commands /\ c.cmd # "load"
    BY <2>1 DEF Commands, Changing
  <2> QED BY <1>1, <1>2, <2>1, <2>2 DEF ConfirmRemove
<1>3. ASSUME NEW rom \in RomIds, NEW title \in Labels, RenameTitle(rom, title)
      PROVE  ClicksInView
  <2>1. PICK c : c = [cmd |-> "renameRom", rom |-> rom, title |-> title]
    OBVIOUS
  <2>2. c \in Commands /\ c.cmd # "load"
    BY <2>1 DEF Commands, Changing
  <2> QED BY <1>1, <1>3, <2>1, <2>2 DEF RenameTitle
<1>4. ASSUME NEW name \in Labels, Create(name)
      PROVE  ClicksInView
  <2>1. PICK c : c = [cmd |-> "create", name |-> name]
    OBVIOUS
  <2>2. c \in Commands /\ c.cmd # "load"
    BY <2>1 DEF Commands
  <2> QED BY <1>1, <1>4, <2>1, <2>2 DEF Create
<1>5. ASSUME NEW list \in CollectionIds, DeleteList(list)
      PROVE  ClicksInView
  <2>1. PICK c : c = [cmd |-> "delete", list |-> list]
    OBVIOUS
  <2>2. c \in Commands /\ c.cmd # "load"
    BY <2>1 DEF Commands, Changing
  <2> QED BY <1>1, <1>5, <2>1, <2>2 DEF DeleteList
<1>6. ASSUME NEW list \in CollectionIds, NEW name \in Labels, RenameList(list, name)
      PROVE  ClicksInView
  <2>1. PICK c : c = [cmd |-> "rename", list |-> list, name |-> name]
    OBVIOUS
  <2>2. c \in Commands /\ c.cmd # "load"
    BY <2>1 DEF Commands
  <2> QED BY <1>1, <1>6, <2>1, <2>2 DEF RenameList
<1>7. ASSUME NEW list \in CollectionIds, NEW rom \in RomIds,
             AddMember(list, rom) \/ DropMember(list, rom)
      PROVE  ClicksInView
  <2>1. PICK coll : coll = Lists[list]
    OBVIOUS
  <2>2. coll \in Collections
    BY <1>7, <2>1, DrawnLibrary DEF AddMember, DropMember
  <2>3. PICK cmd \in {"add", "drop"} :
          Issue([cmd |-> cmd, list |-> list, rom |-> rom, was |-> coll]) /\ UNCHANGED drawn
    BY <1>7, <2>1 DEF AddMember, DropMember
  <2>4. PICK c : c = [cmd |-> cmd, list |-> list, rom |-> rom, was |-> coll]
    OBVIOUS
  <2>5. c \in Commands /\ c.cmd # "load"
    BY <2>2, <2>4 DEF Commands, Changing
  <2> QED BY <1>1, <2>3, <2>4, <2>5
<1> QED BY <1>2, <1>3, <1>4, <1>5, <1>6, <1>7 DEF Clicks

-----------------------------------------------------------------------------
(* The steps of the host. *)

(* An answer that does not replace the copy does what the host did, wherever *)
(* the path ends; without an answer, the end stays where it was.             *)
HostStays == \A lib \in Libraries : Reached(lib) => Reached(lib)'
HostAnswers(a) == a \in Replies /\ ~LoadsView(a) /\ Answer(a) /\ HostGoes(a)

(* A lost answer is one that leaves the copy behind; a refused command's does *)
(* nothing, as the host did.                                                 *)
LEMMA ErrorFollows ==
  ASSUME NEW lost \in BOOLEAN, NEW a, a = [cmd |-> "error", lost |-> lost],
         lost \/ UNCHANGED <<catalog, dialog>>
  PROVE  a \in Replies /\ a.cmd # "load" /\ HostGoes(a)
<1>1. a \in Replies /\ a.cmd = "error" /\ a.lost = lost
  BY DEF Replies
<1>2. ASSUME NEW lib \in Libraries, Reached(lib)
      PROVE  Follows(a, lib)
  <2>1. CASE lost
    BY <1>1, <2>1 DEF Follows, LeavesBehind
  <2>2. CASE UNCHANGED <<catalog, dialog>>
    <3>1. Becomes(a, lib) = lib
      BY <1>1 DEF Becomes
    <3>2. Reached(lib)'
      BY <1>2, <2>2 DEF Reached, NotYetTold
    <3> QED BY <3>1, <3>2 DEF Follows
  <2> QED BY <2>1, <2>2
<1> QED BY <1>1, <1>2 DEF HostGoes

(* A command is served: its answer does what the host did, or leaves the copy *)
(* behind.                                                                   *)
LEMMA ChangeServed ==
  ASSUME LibraryTypes, ServeChange
  PROVE  /\ catalog' \in Libraries /\ minted' \subseteq CollectionIds
         /\ \E a : HostAnswers(a)
<1>1. PICK c : c = Head(commands)
  OBVIOUS
<1>2. c \in Commands /\ c.cmd # "load" /\ dialog' = dialog
  BY <1>1, CommandServed DEF ServeChange
<1>3. CASE Refuses(c)
  <2>1. PICK a : a = [cmd |-> "error", lost |-> FALSE]
    OBVIOUS
  <2>2. Answer(a) /\ UNCHANGED <<catalog, minted, dialog>>
    BY <1>1, <1>3, <2>1 DEF ServeChange, hostLibrary
  <2>3. a \in Replies /\ a.cmd # "load" /\ HostGoes(a)
    BY <2>1, <2>2, ErrorFollows
  <2> QED BY <2>2, <2>3 DEF HostAnswers, LoadsView, LibraryTypes
<1>4. CASE ~Refuses(c)
  <2>1. catalog' = Changes(c) /\ minted' = minted \cup DOMAIN catalog'.lists
    BY <1>1, <1>4 DEF ServeChange
  <2>2. PICK a : a = Reply(c, catalog')
    OBVIOUS
  <2>3. PICK e : e = [cmd |-> "error", lost |-> TRUE]
    OBVIOUS
  <2>4. Answer(a) \/ Answer(e)
    BY <1>1, <1>4, <2>2, <2>3 DEF ServeChange
  <2>5. catalog' \in Libraries /\ a \in Replies /\ HostGoes(a)
    BY <1>2, <1>4, <2>1, <2>2, ServedFollows
  <2>6. e \in Replies /\ e.cmd # "load" /\ HostGoes(e)
    BY <2>3, ErrorFollows
  <2>7. a.cmd # "load"
    BY <1>2, <2>2 DEF Reply
  <2>8. minted' \subseteq CollectionIds
    <3>1. catalog'.lists \in Partial(CollectionIds, Collections)
      BY <2>5 DEF Libraries
    <3>2. DOMAIN catalog'.lists \subseteq CollectionIds
      BY <3>1, PartialMaps
    <3> QED BY <2>1, <3>2 DEF LibraryTypes
  <2> QED BY <2>4, <2>5, <2>6, <2>7, <2>8 DEF HostAnswers, LoadsView
<1> QED BY <1>3, <1>4

(* An import changes the title that the path does not know of yet. *)
LEMMA ImportStays ==
  ASSUME LibraryTypes, DialogImports
  PROVE  /\ HostStays /\ catalog' \in Libraries
         /\ dialog' \in [at : {"done"}, rom : RomIds, title : Labels]
<1>1. PICK rom \in RomIds, title \in Labels :
        /\ catalog' = [catalog EXCEPT !.titles = Put(@, rom, title)]
        /\ dialog' = [at |-> "done", rom |-> rom, title |-> title]
  <2>1. PICK rom \in RomIds, label \in Labels :
          LET title == IF rom \in DOMAIN catalog.titles THEN catalog.titles[rom] ELSE label
          IN  /\ catalog' = [catalog EXCEPT !.titles = Put(@, rom, title)]
              /\ dialog' = [at |-> "done", rom |-> rom, title |-> title]
    BY DEF DialogImports
  <2>2. rom \in DOMAIN catalog.titles => catalog.titles[rom] \in Labels
    <3>1. catalog.titles \in Partial(RomIds, Labels)
      BY DEF LibraryTypes, Libraries
    <3> QED BY <3>1, PartialMaps
  <2>3. PICK title : title = IF rom \in DOMAIN catalog.titles
                             THEN catalog.titles[rom] ELSE label
    OBVIOUS
  <2>4. title \in Labels
    BY <2>2, <2>3
  <2> QED BY <2>1, <2>3, <2>4
<1>2. catalog \in Libraries /\ catalog.titles \in Partial(RomIds, Labels)
      /\ catalog.lists \in Partial(CollectionIds, Collections)
  BY LibraryParts DEF LibraryTypes
<1>3. catalog' = [titles |-> Put(catalog.titles, rom, title), lists |-> catalog.lists]
  BY <1>1, <1>2, LibraryParts
<1>4. Put(catalog.titles, rom, title) \in Partial(RomIds, Labels)
  BY <1>2, PartialMaps
<1>5. catalog' \in Libraries
  BY <1>2, <1>3, <1>4 DEF Libraries
<1>6. dialog.at # "done"
  BY DEF DialogImports
<1>7. ASSUME NEW lib \in Libraries, Reached(lib)
      PROVE  Reached(lib)'
  <2>1. lib.lists = catalog'.lists
    BY <1>3, <1>7 DEF Reached
  <2>2. ASSUME NEW r \in RomIds
        PROVE  NotYetTold(r)' \/ SameTitle(lib.titles, catalog'.titles, r)
    <3>1. SameTitle(lib.titles, catalog.titles, r)
      BY <1>6, <1>7 DEF Reached, NotYetTold
    <3>2. CASE r = rom
      BY <1>1, <3>2 DEF NotYetTold
    <3>3. CASE r # rom
      BY <1>3, <3>1, <3>3 DEF SameTitle, Put
    <3> QED BY <3>2, <3>3
  <2> QED BY <2>1, <2>2 DEF Reached
<1> QED BY <1>1, <1>5, <1>7 DEF HostStays

(* Its answer, when it is not late, tells the path of it. *)
LEMMA ImportAnswered ==
  ASSUME LibraryTypes, DialogAnswers
  PROVE  /\ dialog' = Closed
         /\ \/ UNCHANGED answers /\ HostStays
            \/ \E a : HostAnswers(a)
<1>0. dialog' = Closed /\ catalog' = catalog
  BY DEF DialogAnswers, hostLibrary
<1>1. CASE dialog.at = "open" /\ UNCHANGED answers
  <2>1. \A lib \in Libraries : Reached(lib) => Reached(lib)'
    BY <1>0, <1>1 DEF Reached, NotYetTold, Closed
  <2> QED BY <1>0, <1>1, <2>1 DEF HostStays
<1>2. CASE dialog.at = "done" /\ Answer([cmd |-> "error", lost |-> TRUE])
  <2>1. PICK a : a = [cmd |-> "error", lost |-> TRUE]
    OBVIOUS
  <2>2. a \in Replies /\ a.cmd # "load" /\ HostGoes(a)
    BY <2>1, ErrorFollows
  <2> QED BY <1>0, <1>2, <2>1, <2>2 DEF HostAnswers, LoadsView
<1> DEFINE isLate == \/ dialog.rom \notin DOMAIN catalog.titles
                     \/ catalog.titles[dialog.rom] # dialog.title
<1>3. CASE /\ dialog.at = "done"
           /\ Answer([cmd |-> "imported", rom |-> dialog.rom, title |-> dialog.title,
                      late |-> isLate])
  <2>1. PICK rom, title, late : rom = dialog.rom /\ title = dialog.title /\ late = isLate
    OBVIOUS
  <2>2. rom \in RomIds /\ title \in Labels
    BY <1>3, <2>1 DEF LibraryTypes, Closed
  <2>3. late \in BOOLEAN
    <3>1. isLate \in BOOLEAN
      OBVIOUS
    <3> HIDE DEF isLate
    <3> QED BY <2>1, <3>1
  <2>4. PICK a : a = [cmd |-> "imported", rom |-> rom, title |-> title, late |-> late]
    OBVIOUS
  <2>5. a \in Replies /\ a.cmd = "imported" /\ a.rom = rom /\ a.title = title /\ a.late = late
    BY <2>2, <2>3, <2>4 DEF Replies
  <2>6. Answer(a)
    <3> HIDE DEF isLate
    <3> QED BY <1>3, <2>1, <2>4
  <2>7. ~late => rom \in DOMAIN catalog.titles /\ catalog.titles[rom] = title
    BY <2>1
  <2>8. ASSUME NEW lib \in Libraries, Reached(lib), ~late
        PROVE  Reached(Becomes(a, lib))'
    <3>1. PICK g : g = [titles |-> Put(lib.titles, rom, title), lists |-> lib.lists]
      OBVIOUS
    <3>2. Becomes(a, lib) = g
      <4>1. Becomes(a, lib) = [lib EXCEPT !.titles = Put(lib.titles, rom, title)]
        BY <2>5 DEF Becomes
      <4> QED BY <3>1, <4>1, LibraryParts
    <3>3. g.lists = catalog'.lists
      BY <1>0, <2>8, <3>1 DEF Reached
    <3>4. ASSUME NEW r \in RomIds
          PROVE  SameTitle(g.titles, catalog'.titles, r)
      <4>1. CASE r = rom
        BY <1>0, <2>7, <2>8, <3>1, <4>1 DEF SameTitle, Put
      <4>2. CASE r # rom
        <5>1. SameTitle(lib.titles, catalog.titles, r)
          BY <2>1, <2>8, <4>2 DEF Reached, NotYetTold
        <5> QED BY <1>0, <3>1, <4>2, <5>1 DEF SameTitle, Put
      <4> QED BY <4>1, <4>2
    <3> QED BY <3>2, <3>3, <3>4 DEF Reached
  <2>9. ASSUME NEW lib \in Libraries, Reached(lib)
        PROVE  Follows(a, lib)
    <3>1. CASE late
      BY <2>5, <3>1 DEF Follows, LeavesBehind
    <3>2. CASE ~late
      BY <2>8, <2>9, <3>2 DEF Follows
    <3> QED BY <3>1, <3>2
  <2> QED BY <1>0, <2>5, <2>6, <2>9 DEF HostAnswers, HostGoes, LoadsView
<1> QED BY <1>1, <1>2, <1>3 DEF DialogAnswers

(* The library's types hold at every step.                                   *)
LEMMA LibraryTypesKept ==
  ASSUME LibraryTypes, [LibraryPageNext]_libraryPageVars
  PROVE  LibraryTypes'
<1> USE DEF LibraryTypes
<1>1. ASSUME NEW next \in {"library", "collections"}, Enter(next)
      PROVE  LibraryTypes'
  <2>1. PICK c \in Commands : Issue(c)
    BY <1>1, EntersWithLoad DEF EntersView, UserAsks
  <2> QED BY <1>1, <2>1, CommandIssued DEF hostLibrary, Enter
<1>2. CASE LeaveForGame
  BY <1>2 DEF LeaveForGame, hostLibrary
<1>3. CASE Clicks
  <2>1. PICK c \in Commands : Issue(c) /\ UNCHANGED drawn
    BY <1>3, ClickSends DEF ClicksInView, UserAsks
  <2> QED BY <2>1, CommandIssued DEF hostLibrary, drawn
<1>4. CASE OpenDialog
  BY <1>4 DEF OpenDialog, hostLibrary, drawn
<1>5. CASE DialogImports
  BY <1>5, ImportStays DEF DialogImports, drawn
<1>6. CASE DialogAnswers
  <2>1. answers' \in Seq(Replies)
    BY <1>6, ImportAnswered, ReplySent DEF HostAnswers
  <2> QED BY <1>6, <2>1, ImportAnswered DEF DialogAnswers, hostLibrary, drawn
<1>7. CASE ServeLoad
  <2>1. PICK a : a = [cmd |-> "load", visit |-> Head(commands).visit, library |-> catalog]
    OBVIOUS
  <2>2. Head(commands).visit \in Nat
    BY <1>7, CommandServed, CommandFields DEF ServeLoad
  <2>3. a \in Replies
    BY <2>1, <2>2 DEF Replies
  <2>4. answers' \in Seq(Replies)
    BY <1>7, <2>1, <2>3, ReplySent DEF ServeLoad
  <2> QED BY <1>7, <2>4, CommandServed DEF ServeLoad, hostLibrary, drawn
<1>8. CASE ServeChange
  <2>1. answers' \in Seq(Replies)
    BY <1>8, ChangeServed, ReplySent DEF HostAnswers
  <2> QED BY <1>8, <2>1, ChangeServed, CommandServed DEF ServeChange, drawn
<1>9. CASE TakeAnswer
  <2>1. PICK a : a = Head(answers)
    OBVIOUS
  <2>2. a \in Replies /\ answers' \in Seq(Replies)
    BY <1>9, <2>1, ReplyTaken DEF TakeAnswer
  <2>3. cached' = Shown(a)
    BY <1>9, <2>1 DEF TakeAnswer
  <2>4. astray' \in BOOLEAN
    BY <1>9 DEF TakeAnswer
  <2> QED BY <1>9, <2>2, <2>3, <2>4, ShownBecomes DEF TakeAnswer, hostLibrary, drawn
<1>10. CASE UNCHANGED libraryPageVars
  BY <1>10 DEF libraryPageVars
<1> QED BY <1>1, <1>2, <1>3, <1>4, <1>5, <1>6, <1>7, <1>8, <1>9, <1>10
        DEF LibraryPageNext, Clicks

-----------------------------------------------------------------------------
(* Paths. *)

(* The host's library is where it is. *)
LEMMA HostIsReached ==
  ASSUME NEW lib, lib = catalog
  PROVE  Reached(lib)
BY DEF Reached, SameTitle

(* A path to the end goes on with the host's answer. *)
LEMMA PathGoesOn ==
  ASSUME LibraryTypes, LibraryTypes', NEW a, HostAnswers(a), NEW start \in 0 .. Len(answers),
         NEW path \in Paths(start), IsPath(start, path)
  PROVE  \E longer \in Paths(start)' : longer[start] = path[start] /\ IsPath(start, longer)'
<1>0. /\ DOMAIN answers = 1 .. Len(answers) /\ Len(answers) \in Nat
      /\ Len(answers') = Len(answers) + 1 /\ answers'[Len(answers) + 1] = a
      /\ \A i \in DOMAIN answers : answers'[i] = answers[i]
  BY ReplySent DEF HostAnswers
<1>1. PICK n : n = Len(answers)
  OBVIOUS
<1>2. path \in [start .. n -> Libraries] /\ n \in Nat /\ start \in 0 .. n
  BY <1>0, <1>1 DEF Paths
<1>3. Reached(path[n]) /\ path[n] \in Libraries
  BY <1>1, <1>2 DEF IsPath
<1>4. PICK lib \in Libraries :
        /\ LeavesBehind(a, path[n]) \/ lib = Becomes(a, path[n])
        /\ Reached(lib)'
  <2>1. CASE LeavesBehind(a, path[n])
    <3>1. PICK lib : lib = catalog'
      OBVIOUS
    <3>2. Reached(lib)'
      BY <3>1 DEF Reached, SameTitle
    <3> QED BY <2>1, <3>1, <3>2 DEF LibraryTypes
  <2>2. CASE ~LeavesBehind(a, path[n])
    <3>1. PICK lib : lib = Becomes(a, path[n])
      OBVIOUS
    <3>2. lib \in Libraries
      BY <1>3, <3>1, BecomesLibrary DEF HostAnswers
    <3>3. Follows(a, path[n])
      BY <1>3 DEF HostAnswers, HostGoes
    <3>4. Reached(lib)'
      BY <2>2, <3>1, <3>3 DEF Follows
    <3> QED BY <3>1, <3>2, <3>4
  <2> QED BY <2>1, <2>2
<1>5. PICK longer : longer = [k \in start .. n + 1 |-> IF k = n + 1 THEN lib ELSE path[k]]
  OBVIOUS
<1>6. longer \in [start .. n + 1 -> Libraries] /\ longer[n + 1] = lib
      /\ \A k \in start .. n : longer[k] = path[k]
  BY <1>2, <1>4, <1>5
<1>7. longer \in Paths(start)'
  BY <1>0, <1>1, <1>6 DEF Paths
<1>8. ASSUME NEW i \in start + 1 .. n + 1
      PROVE  LeavesBehind(answers'[i], longer[i - 1])
             \/ longer[i] = Becomes(answers'[i], longer[i - 1])
  <2>1. CASE i = n + 1
    BY <1>0, <1>1, <1>2, <1>4, <1>6, <2>1
  <2>2. CASE i \in start + 1 .. n
    <3>1. i \in DOMAIN answers /\ i - 1 \in start .. n /\ i \in start .. n
      BY <1>0, <1>1, <1>2, <2>2
    <3>2. LeavesBehind(answers[i], path[i - 1]) \/ path[i] = Becomes(answers[i], path[i - 1])
      BY <1>1, <2>2 DEF IsPath
    <3> QED BY <1>0, <1>6, <3>1, <3>2
  <2> QED BY <1>2, <1>8, <2>1, <2>2
<1>9. IsPath(start, longer)'
  BY <1>0, <1>1, <1>4, <1>6, <1>8 DEF IsPath
<1> QED BY <1>2, <1>6, <1>7, <1>9

(* A path whose end the host's step leaves is a path. *)
LEMMA PathStays ==
  ASSUME LibraryTypes, HostStays, UNCHANGED answers, NEW start \in 0 .. Len(answers),
         NEW path \in Paths(start), IsPath(start, path)
  PROVE  path \in Paths(start)' /\ IsPath(start, path)'
<1>1. Len(answers) \in Nat
  BY DEF LibraryTypes
<1>2. path[Len(answers)] \in Libraries
  BY <1>1 DEF Paths
<1>3. Reached(path[Len(answers)])'
  BY <1>2 DEF IsPath, HostStays
<1> QED BY <1>3 DEF IsPath, Paths

(* When the page takes an answer, the rest of a path moves up. *)
LEMMA PathMovesUp ==
  ASSUME LibraryTypes, TakeAnswer, NEW start \in 1 .. Len(answers), NEW first \in 0 .. start,
         NEW path \in Paths(first), IsPath(first, path)
  PROVE  \E shorter \in Paths(start - 1)' :
           shorter[start - 1] = path[start] /\ IsPath(start - 1, shorter)'
<1>0. /\ DOMAIN answers = 1 .. Len(answers) /\ Len(answers) \in Nat
      /\ DOMAIN answers' = 1 .. Len(answers) - 1 /\ Len(answers') = Len(answers) - 1
      /\ \A i \in DOMAIN answers' : answers'[i] = answers[i + 1]
  BY ReplyTaken DEF TakeAnswer
<1>1. PICK n : n = Len(answers)
  OBVIOUS
<1>2. path \in [first .. n -> Libraries] /\ n \in Nat /\ start \in 1 .. n /\ first \in 0 .. start
  BY <1>0, <1>1 DEF Paths
<1>3. PICK shorter : shorter = [k \in start - 1 .. n - 1 |-> path[k + 1]]
  OBVIOUS
<1>4. shorter \in [start - 1 .. n - 1 -> Libraries]
      /\ \A k \in start - 1 .. n - 1 : shorter[k] = path[k + 1]
  BY <1>2, <1>3
<1>5. shorter \in Paths(start - 1)'
  BY <1>0, <1>1, <1>4 DEF Paths
<1>6. ASSUME NEW i \in start - 1 + 1 .. n - 1
      PROVE  LeavesBehind(answers'[i], shorter[i - 1])
             \/ shorter[i] = Becomes(answers'[i], shorter[i - 1])
  <2>1. i + 1 \in first + 1 .. n /\ i \in 1 .. n - 1 /\ i - 1 \in start - 1 .. n - 1
        /\ i \in start - 1 .. n - 1 /\ (i - 1) + 1 = i /\ (i + 1) - 1 = i
    BY <1>2
  <2>2. LeavesBehind(answers[i + 1], path[i]) \/ path[i + 1] = Becomes(answers[i + 1], path[i])
    BY <1>1, <2>1 DEF IsPath
  <2>3. answers'[i] = answers[i + 1] /\ shorter[i - 1] = path[i] /\ shorter[i] = path[i + 1]
    BY <1>0, <1>1, <1>4, <2>1
  <2> QED BY <2>2, <2>3
<1>7. Reached(shorter[n - 1])'
  <2>1. shorter[n - 1] = path[n]
    BY <1>2, <1>4
  <2>2. Reached(path[n]) /\ UNCHANGED <<catalog, dialog>>
    BY <1>1 DEF IsPath, TakeAnswer, hostLibrary
  <2> QED BY <2>1, <2>2 DEF Reached, NotYetTold
<1>8. IsPath(start - 1, shorter)'
  BY <1>0, <1>1, <1>6, <1>7 DEF IsPath
<1>9. shorter[start - 1] = path[start]
  BY <1>2, <1>4
<1> QED BY <1>5, <1>8, <1>9

-----------------------------------------------------------------------------
(* The copy follows the host. *)

(* The mounted view's load is not waiting to be served. *)
NoLoadAsked == \A i \in DOMAIN commands : ~LoadsView(commands[i])

(* Then it was not before a step that sends something or serves another.     *)
LEMMA NoLoadBefore ==
  ASSUME LibraryTypes, visit' = visit, NoLoadAsked',
         \/ UNCHANGED commands
         \/ \E c \in Commands : Issue(c)
         \/ commands # << >> /\ commands' = Tail(commands) /\ ~LoadsView(Head(commands))
  PROVE  NoLoadAsked
<1>1. CASE UNCHANGED commands
  BY <1>1 DEF NoLoadAsked, LoadsView
<1>2. ASSUME NEW c \in Commands, Issue(c)
      PROVE  NoLoadAsked
  <2>1. DOMAIN commands \subseteq DOMAIN commands'
        /\ \A i \in DOMAIN commands : commands'[i] = commands[i]
    BY <1>2, CommandIssued
  <2> QED BY <2>1 DEF NoLoadAsked, LoadsView
<1>3. CASE commands # << >> /\ commands' = Tail(commands) /\ ~LoadsView(Head(commands))
  <2>0. /\ DOMAIN commands = 1 .. Len(commands) /\ Len(commands) \in Nat
        /\ Head(commands) = commands[1] /\ DOMAIN commands' = 1 .. Len(commands) - 1
        /\ \A i \in DOMAIN commands' : commands'[i] = commands[i + 1]
    BY <1>3, CommandServed
  <2>1. ASSUME NEW i \in DOMAIN commands
        PROVE  ~LoadsView(commands[i])
    <3>1. CASE i = 1
      BY <1>3, <2>0, <3>1
    <3>2. CASE i # 1
      <4>1. i - 1 \in DOMAIN commands' /\ (i - 1) + 1 = i
        BY <2>0, <3>2
      <4>2. commands'[i - 1] = commands[i]
        BY <2>0, <4>1
      <4>3. ~(LoadsView(commands[i - 1])')
        BY <4>1 DEF NoLoadAsked
      <4> QED BY <4>2, <4>3 DEF LoadsView
    <3> QED BY <3>1, <3>2
  <2> QED BY <2>1 DEF NoLoadAsked
<1> QED BY <1>1, <1>2, <1>3

(* The user's requests, and the dialog's cancelled imports, change nothing   *)
(* that the paths are about.                                                 *)
LEMMA CopyStays ==
  ASSUME LibraryTypes, FromLoad, FromCopy, HostStays,
         UNCHANGED <<answers, cached, visit, astray>>
  PROVE  FromLoad' /\ FromCopy'
<1>0. DOMAIN answers = 1 .. Len(answers) /\ Len(answers) \in Nat
  BY DEF LibraryTypes
<1>1. ASSUME NEW i \in DOMAIN answers, LastLoad(i)'
      PROVE  (\E path \in Paths(i) : path[i] = answers[i].library /\ IsPath(i, path))'
  <2>1. LastLoad(i)
    BY <1>1 DEF LastLoad, LoadsView
  <2>2. PICK path \in Paths(i) : path[i] = answers[i].library /\ IsPath(i, path)
    BY <2>1 DEF FromLoad
  <2>3. path \in Paths(i)' /\ IsPath(i, path)'
    BY <1>0, <2>2, PathStays
  <2> QED BY <2>2, <2>3
<1>2. ASSUME \A i \in DOMAIN answers : ~(LoadsView(answers[i])'), ~astray
      PROVE  (\E path \in Paths(0) : path[0] = cached /\ IsPath(0, path))'
  <2>1. PICK path \in Paths(0) : path[0] = cached /\ IsPath(0, path)
    BY <1>2 DEF FromCopy, LoadsView
  <2>2. path \in Paths(0)' /\ IsPath(0, path)'
    BY <1>0, <2>1, PathStays
  <2> QED BY <2>1, <2>2
<1>3. FromLoad'
  BY <1>1 DEF FromLoad
<1>4. FromCopy'
  BY <1>2 DEF FromCopy, LoadsView
<1> QED BY <1>3, <1>4

(* An answer that does not replace the copy takes every path further. *)
LEMMA CopyGoesOn ==
  ASSUME LibraryTypes, LibraryTypes', FromLoad, FromCopy, NEW a, HostAnswers(a),
         UNCHANGED <<cached, visit, astray>>
  PROVE  FromLoad' /\ FromCopy'
<1>0. /\ DOMAIN answers = 1 .. Len(answers) /\ Len(answers) \in Nat
      /\ DOMAIN answers' = 1 .. Len(answers) + 1 /\ answers'[Len(answers) + 1] = a
      /\ \A i \in DOMAIN answers : answers'[i] = answers[i]
  BY ReplySent DEF HostAnswers
<1>1. ~LoadsView(a) /\ ~(LoadsView(a)')
  BY DEF HostAnswers, LoadsView
<1>2. ASSUME NEW i \in DOMAIN answers', LastLoad(i)'
      PROVE  (\E path \in Paths(i) : path[i] = answers[i].library /\ IsPath(i, path))'
  <2>1. i \in DOMAIN answers
    BY <1>0, <1>1, <1>2 DEF LastLoad, LoadsView
  <2>2. LastLoad(i)
    BY <1>0, <1>2, <2>1 DEF LastLoad, LoadsView
  <2>3. PICK path \in Paths(i) : path[i] = answers[i].library /\ IsPath(i, path)
    BY <2>1, <2>2 DEF FromLoad
  <2>4. \E longer \in Paths(i)' : longer[i] = path[i] /\ IsPath(i, longer)'
    BY <1>0, <2>1, <2>3, PathGoesOn
  <2> QED BY <1>0, <2>1, <2>3, <2>4
<1>3. ASSUME \A i \in DOMAIN answers' : ~(LoadsView(answers[i])'), ~astray
      PROVE  (\E path \in Paths(0) : path[0] = cached /\ IsPath(0, path))'
  <2>1. \A i \in DOMAIN answers : ~LoadsView(answers[i])
    BY <1>0, <1>3 DEF LoadsView
  <2>2. PICK path \in Paths(0) : path[0] = cached /\ IsPath(0, path)
    BY <1>3, <2>1 DEF FromCopy
  <2>3. \E longer \in Paths(0)' : longer[0] = path[0] /\ IsPath(0, longer)'
    BY <1>0, <2>2, PathGoesOn
  <2> QED BY <2>2, <2>3
<1>4. FromLoad'
  BY <1>2 DEF FromLoad
<1>5. FromCopy'
  BY <1>3 DEF FromCopy, LoadsView
<1> QED BY <1>4, <1>5

(* A load that is answered: the path begins there if it is the mounted       *)
(* view's, and ignores it if it is not.                                      *)
LEMMA LoadAnswersFollow ==
  ASSUME LibraryTypes, LibraryTypes', ServeLoad, CopyFollows
  PROVE  CopyFollows'
<1>0. PICK a : a = [cmd |-> "load", visit |-> Head(commands).visit, library |-> catalog]
  OBVIOUS
<1>1. /\ a \in Replies /\ a.cmd = "load" /\ a.library = catalog
      /\ a.visit = Head(commands).visit /\ Head(commands).cmd = "load"
      /\ Answer(a) /\ commands # << >> /\ commands' = Tail(commands)
      /\ UNCHANGED <<catalog, dialog, cached, view, visit, astray>>
  <2>1. Head(commands).visit \in Nat
    BY CommandServed, CommandFields DEF ServeLoad
  <2>2. a \in Replies
    BY <1>0, <2>1 DEF Replies, LibraryTypes
  <2> QED BY <1>0, <2>2 DEF ServeLoad, hostLibrary, drawn
<1>2. /\ DOMAIN answers = 1 .. Len(answers) /\ Len(answers) \in Nat
      /\ DOMAIN answers' = 1 .. Len(answers) + 1 /\ answers'[Len(answers) + 1] = a
      /\ Len(answers') = Len(answers) + 1
      /\ \A i \in DOMAIN answers : answers'[i] = answers[i]
  BY <1>1, ReplySent
<1>3. SUFFICES ASSUME view' # "game", NoLoadAsked'
               PROVE  FromLoad' /\ FromCopy'
  BY DEF CopyFollows, NoLoadAsked
<1>4. CASE a.visit = visit
  <2>0. PICK last : last = Len(answers) + 1
    OBVIOUS
  <2>1. LoadsView(a) /\ LoadsView(a)'
    BY <1>1, <1>4 DEF LoadsView
  <2>2. ASSUME NEW i \in DOMAIN answers', LastLoad(i)'
        PROVE  (\E path \in Paths(i) : path[i] = answers[i].library /\ IsPath(i, path))'
    <3>1. i = last
      BY <1>2, <2>0, <2>1, <2>2 DEF LastLoad, LoadsView
    <3>2. PICK lib : lib = catalog
      OBVIOUS
    <3>3. PICK path : path = [k \in {i} |-> lib]
      OBVIOUS
    <3>4. i .. Len(answers') = {i} /\ i + 1 .. Len(answers') = {}
      BY <1>2, <2>0, <3>1
    <3>5. path \in Paths(i)'
      BY <3>2, <3>3, <3>4 DEF Paths, LibraryTypes
    <3>6. path[Len(answers')] = lib
      BY <1>2, <2>0, <3>1, <3>3
    <3>7. Reached(lib)'
      BY <1>1, <3>2 DEF Reached, SameTitle
    <3>8. IsPath(i, path)'
      BY <3>4, <3>6, <3>7 DEF IsPath
    <3>9. path[i] = answers'[i].library
      BY <1>1, <1>2, <2>0, <3>1, <3>2, <3>3
    <3> QED BY <3>5, <3>8, <3>9
  <2>3. FromLoad'
    BY <2>2 DEF FromLoad
  <2>4. FromCopy'
    <3>1. last \in DOMAIN answers' /\ LoadsView(answers[last])'
      BY <1>2, <2>0, <2>1 DEF LoadsView
    <3> QED BY <3>1 DEF FromCopy
  <2> QED BY <2>3, <2>4
<1>5. CASE a.visit # visit
  <2>1. ~LoadsView(Head(commands))
    BY <1>1, <1>5 DEF LoadsView
  <2>2. NoLoadAsked
    BY <1>1, <1>3, <2>1, NoLoadBefore
  <2>3. FromLoad /\ FromCopy
    BY <1>1, <1>3, <2>2 DEF CopyFollows, NoLoadAsked
  <2>4. HostGoes(a)
    <3>1. ASSUME NEW lib \in Libraries, Reached(lib)
          PROVE  Follows(a, lib)
      <4>1. Becomes(a, lib) = lib
        BY <1>1 DEF Becomes
      <4>2. Reached(lib)'
        BY <1>1, <3>1 DEF Reached, NotYetTold
      <4> QED BY <4>1, <4>2 DEF Follows
    <3> QED BY <3>1 DEF HostGoes
  <2>5. HostAnswers(a)
    BY <1>1, <1>5, <2>4 DEF HostAnswers, LoadsView
  <2> QED BY <1>1, <2>3, <2>5, CopyGoesOn
<1> QED BY <1>4, <1>5

(* The page takes an answer: its load puts the path's first library in the   *)
(* copy's place, any other answer takes the copy one step along the path or  *)
(* leaves it astray.                                                         *)
LEMMA TakeFollowsPath ==
  ASSUME LibraryTypes, TakeAnswer, CopyFollows
  PROVE  CopyFollows'
<1>0. PICK a : a = Head(answers)
  OBVIOUS
<1>1. /\ DOMAIN answers = 1 .. Len(answers) /\ Len(answers) \in Nat /\ Len(answers) >= 1
      /\ a \in Replies /\ answers[1] = a
      /\ DOMAIN answers' = 1 .. Len(answers) - 1
      /\ \A i \in DOMAIN answers' : answers'[i] = answers[i + 1]
  BY <1>0, ReplyTaken DEF TakeAnswer
<1>2. /\ cached' = Shown(a) /\ astray' = (~IsCurrentLoad(a) /\ (astray \/ Strays(a)))
      /\ UNCHANGED <<catalog, dialog, view, visit, commands>>
  BY <1>0 DEF TakeAnswer, hostLibrary, drawn
<1>3. SUFFICES ASSUME view # "game", NoLoadAsked
               PROVE  FromLoad' /\ FromCopy'
  <2>1. NoLoadAsked' => NoLoadAsked
    BY <1>2, NoLoadBefore
  <2> QED BY <1>2, <2>1 DEF CopyFollows, NoLoadAsked
<1>4. FromLoad /\ FromCopy
  BY <1>3 DEF CopyFollows, NoLoadAsked
<1>5. ASSUME NEW i \in DOMAIN answers', LastLoad(i)'
      PROVE  (\E path \in Paths(i) : path[i] = answers[i].library /\ IsPath(i, path))'
  <2>1. i + 1 \in DOMAIN answers /\ answers'[i] = answers[i + 1] /\ (i + 1) - 1 = i /\ i \in Nat
    BY <1>1
  <2>2. LastLoad(i + 1)
    <3>1. LoadsView(answers[i + 1])
      BY <1>2, <1>5, <2>1 DEF LastLoad, LoadsView
    <3>2. ASSUME NEW j \in DOMAIN answers, j > i + 1
          PROVE  ~LoadsView(answers[j])
      <4>1. j - 1 \in DOMAIN answers' /\ j - 1 > i /\ (j - 1) + 1 = j
        BY <1>1, <2>1, <3>2
      <4>2. answers'[j - 1] = answers[j]
        BY <1>1, <4>1
      <4> QED BY <1>2, <1>5, <4>1, <4>2 DEF LastLoad, LoadsView
    <3> QED BY <3>1, <3>2 DEF LastLoad
  <2>3. PICK path \in Paths(i + 1) : path[i + 1] = answers[i + 1].library /\ IsPath(i + 1, path)
    BY <1>4, <2>1, <2>2 DEF FromLoad
  <2>4. PICK start : start = i + 1
    OBVIOUS
  <2>5. start \in 1 .. Len(answers) /\ start \in 0 .. start /\ start - 1 = i
    BY <1>1, <2>1, <2>4
  <2>6. \E shorter \in Paths(start - 1)' :
          shorter[start - 1] = path[start] /\ IsPath(start - 1, shorter)'
    BY <2>3, <2>4, <2>5, PathMovesUp
  <2>7. PICK shorter \in Paths(i)' : shorter[i] = path[start] /\ IsPath(i, shorter)'
    BY <2>5, <2>6
  <2> QED BY <2>1, <2>3, <2>4, <2>7
<1>6. ASSUME \A i \in DOMAIN answers' : ~(LoadsView(answers[i])'), ~astray'
      PROVE  (\E path \in Paths(0) : path[0] = cached /\ IsPath(0, path))'
  <2>0. \A j \in DOMAIN answers : j > 1 => ~LoadsView(answers[j])
    <3>1. ASSUME NEW j \in DOMAIN answers, j > 1
          PROVE  ~LoadsView(answers[j])
      <4>1. j - 1 \in DOMAIN answers' /\ (j - 1) + 1 = j
        BY <1>1, <3>1
      <4>2. answers'[j - 1] = answers[j]
        BY <1>1, <4>1
      <4> QED BY <1>2, <1>6, <4>1, <4>2 DEF LoadsView
    <3> QED BY <3>1
  <2>1. PICK first \in {0, 1} :
          \E path \in Paths(first) : IsPath(first, path) /\ path[1] = cached'
    <3>1. CASE LoadsView(a)
      <4>1. LastLoad(1) /\ 1 \in DOMAIN answers
        BY <1>1, <2>0, <3>1 DEF LastLoad
      <4>2. PICK path \in Paths(1) : path[1] = a.library /\ IsPath(1, path)
        BY <1>1, <1>4, <4>1 DEF FromLoad
      <4>3. IsCurrentLoad(a) /\ a.cmd = "load"
        BY <1>3, <3>1 DEF IsCurrentLoad, LoadsView
      <4>4. cached' = a.library
        BY <1>1, <1>2, <4>3, ShownBecomes
      <4> QED BY <4>2, <4>4
    <3>2. CASE ~LoadsView(a)
      <4>1. ~IsCurrentLoad(a)
        BY <3>2 DEF IsCurrentLoad, LoadsView
      <4>2. ~astray /\ ~Strays(a)
        BY <1>2, <1>6, <4>1
      <4>3. \A i \in DOMAIN answers : ~LoadsView(answers[i])
        BY <1>1, <2>0, <3>2
      <4>4. PICK path \in Paths(0) : path[0] = cached /\ IsPath(0, path)
        BY <1>4, <4>2, <4>3 DEF FromCopy
      <4>5. cached \in Libraries
        BY <1>1, <4>4 DEF Paths
      <4>6. ~LeavesBehind(a, cached)
        <5>1. cached # Unloaded
          BY <4>5, PageAssumption
        <5>2. Lists = cached.lists
          BY <5>1 DEF Lists
        <5> QED BY <4>2, <5>2, ReplyFields, <1>1 DEF LeavesBehind, Strays, OutOfDate
      <4>7. LeavesBehind(answers[1], path[0]) \/ path[1] = Becomes(answers[1], path[0])
        <5>1. 1 \in 0 + 1 .. Len(answers) /\ 1 - 1 = 0
          BY <1>1
        <5> QED BY <4>4, <5>1 DEF IsPath
      <4>8. path[1] = Becomes(a, cached)
        BY <1>1, <4>4, <4>6, <4>7
      <4>9. Shown(a) = Becomes(a, cached)
        <5>1. CASE a.cmd = "load"
          BY <1>1, <4>1, <5>1, ShownBecomes DEF Becomes
        <5>2. CASE a.cmd # "load"
          BY <1>1, <4>5, <5>2, ShownBecomes
        <5> QED BY <5>1, <5>2
      <4> QED BY <1>2, <4>4, <4>8, <4>9
    <3> QED BY <3>1, <3>2
  <2>p. PICK path \in Paths(first) : IsPath(first, path) /\ path[1] = cached'
    BY <2>1
  <2>2. PICK start : start = 1
    OBVIOUS
  <2>3. start \in 1 .. Len(answers) /\ first \in 0 .. start /\ start - 1 = 0
    BY <1>1, <2>2
  <2>4. \E shorter \in Paths(start - 1)' :
          shorter[start - 1] = path[start] /\ IsPath(start - 1, shorter)'
    BY <2>p, <2>3, PathMovesUp
  <2> QED BY <2>p, <2>2, <2>3, <2>4
<1>7. FromLoad'
  BY <1>5 DEF FromLoad
<1>8. FromCopy'
  BY <1>6 DEF FromCopy, LoadsView
<1> QED BY <1>7, <1>8

(* The library the page starts with is sound, and nothing is known of it.    *)
LEMMA LibraryPageStart == LibraryPageInit => LibraryIInv
<1> SUFFICES ASSUME LibraryPageInit
             PROVE  LibraryIInv
  OBVIOUS
<1>1. PICK rom, list, label :
        /\ rom = CHOOSE r \in RomIds : TRUE
        /\ list = CHOOSE l \in CollectionIds : TRUE
        /\ label = CHOOSE l \in Labels : TRUE
  OBVIOUS
<1>2. rom \in RomIds /\ list \in CollectionIds /\ label \in Labels
  BY <1>1, PageAssumption
<1>3. PICK coll : coll = [name |-> label, roms |-> {rom}]
  OBVIOUS
<1>4. PICK t, l : t = [r \in {rom} |-> label] /\ l = [x \in {list} |-> coll]
  OBVIOUS
<1>5. t \in Partial(RomIds, Labels) /\ l \in Partial(CollectionIds, Collections)
  <2>1. coll \in Collections
    BY <1>2, <1>3 DEF Collections
  <2>2. t \in [{rom} -> Labels] /\ l \in [{list} -> Collections]
    BY <1>2, <1>4, <2>1
  <2>3. {rom} \in SUBSET RomIds /\ {list} \in SUBSET CollectionIds
    BY <1>2
  <2> QED BY <2>2, <2>3 DEF Partial
<1>6. catalog = [titles |-> t, lists |-> l] /\ minted = {list}
  BY <1>1, <1>3, <1>4 DEF LibraryPageInit
<1>7. catalog \in Libraries
  BY <1>5, <1>6 DEF Libraries
<1>8. commands \in Seq(Commands) /\ commands[1] = [cmd |-> "load", visit |-> 1]
      /\ 1 \in DOMAIN commands
  <2>1. PICK c : c = [cmd |-> "load", visit |-> 1]
    OBVIOUS
  <2>2. c \in Commands
    BY <2>1 DEF Commands
  <2>3. commands = <<c>>
    BY <2>1 DEF LibraryPageInit
  <2> QED BY <2>1, <2>2, <2>3
<1>9. LibraryTypes
  <2>1. answers \in Seq(Replies) /\ dialog = Closed /\ cached = Unloaded /\ view = "library"
        /\ visit = 1 /\ astray = FALSE
    BY DEF LibraryPageInit
  <2>2. minted \subseteq CollectionIds
    BY <1>2, <1>6
  <2> QED BY <1>7, <1>8, <2>1, <2>2 DEF LibraryTypes
<1>10. CopyFollows
  BY <1>8 DEF CopyFollows, LoadsView, LibraryPageInit
<1> QED BY <1>9, <1>10 DEF LibraryIInv

(* Every step keeps the copy on its way. *)
LEMMA CopyKept ==
  ASSUME LibraryTypes, LibraryTypes', CopyFollows, [LibraryPageNext]_libraryPageVars
  PROVE  CopyFollows'
<1>s. ASSUME NoLoadAsked' => NoLoadAsked, view' # "game" => view # "game",
             UNCHANGED <<answers, cached, visit, astray>>, HostStays
      PROVE  CopyFollows'
  BY <1>s, CopyStays DEF CopyFollows, NoLoadAsked
<1>u. UNCHANGED <<catalog, dialog>> => HostStays
  BY DEF HostStays, Reached, NotYetTold
<1>1. ASSUME NEW next \in {"library", "collections"}, Enter(next)
      PROVE  CopyFollows'
  <2>1. PICK c : UserAsks(c) /\ LoadsView(c)'
    BY <1>1, EntersWithLoad DEF EntersView
  <2>2. Len(commands) + 1 \in DOMAIN commands' /\ commands'[Len(commands) + 1] = c
    BY <2>1, CommandIssued DEF UserAsks
  <2>3. ~NoLoadAsked'
    BY <2>1, <2>2 DEF NoLoadAsked, LoadsView
  <2> QED BY <2>3 DEF CopyFollows, NoLoadAsked
<1>2. CASE LeaveForGame
  BY <1>2 DEF LeaveForGame, CopyFollows
<1>3. CASE Clicks
  <2>1. PICK c \in Commands : Issue(c) /\ UNCHANGED drawn
    BY <1>3, ClickSends DEF ClicksInView, UserAsks
  <2>2. UNCHANGED <<catalog, dialog, answers, cached, visit, view, astray>>
    BY <2>1, CommandIssued DEF hostLibrary, drawn
  <2> QED BY <1>s, <1>u, <2>1, <2>2, NoLoadBefore
<1>4. CASE OpenDialog
  <2>1. UNCHANGED <<catalog, answers, cached, visit, view, astray, commands>>
        /\ dialog.at # "done" /\ dialog'.at # "done"
    BY <1>4 DEF OpenDialog, hostLibrary, drawn, Closed
  <2>2. HostStays
    BY <2>1 DEF HostStays, Reached, NotYetTold
  <2> QED BY <1>s, <2>1, <2>2, NoLoadBefore
<1>5. CASE DialogImports
  <2>1. UNCHANGED <<answers, cached, visit, view, astray, commands>>
    BY <1>5 DEF DialogImports, drawn
  <2> QED BY <1>5, <1>s, <2>1, ImportStays, NoLoadBefore
<1>h. ASSUME NoLoadAsked' => NoLoadAsked, UNCHANGED <<cached, view, visit, astray>>,
             NEW a, HostAnswers(a)
      PROVE  CopyFollows'
  BY <1>h, CopyGoesOn DEF CopyFollows, NoLoadAsked
<1>6. CASE DialogAnswers
  <2>1. UNCHANGED <<cached, visit, view, astray, commands>>
    BY <1>6 DEF DialogAnswers, drawn
  <2>2. NoLoadAsked' => NoLoadAsked
    BY <2>1, NoLoadBefore
  <2>3. CASE UNCHANGED answers /\ HostStays
    BY <1>s, <2>1, <2>2, <2>3
  <2>4. CASE \E a : HostAnswers(a)
    BY <1>h, <2>1, <2>2, <2>4
  <2> QED BY <1>6, <2>3, <2>4, ImportAnswered
<1>7. CASE ServeLoad
  BY <1>7, LoadAnswersFollow
<1>8. CASE ServeChange
  <2>1. /\ UNCHANGED <<cached, visit, view, astray>>
        /\ commands # << >> /\ commands' = Tail(commands) /\ ~LoadsView(Head(commands))
    BY <1>8 DEF ServeChange, drawn, LoadsView
  <2>2. NoLoadAsked' => NoLoadAsked
    BY <2>1, NoLoadBefore
  <2> QED BY <1>8, <1>h, <2>1, <2>2, ChangeServed
<1>9. CASE TakeAnswer
  BY <1>9, TakeFollowsPath
<1>10. CASE UNCHANGED libraryPageVars
  <2>1. UNCHANGED <<catalog, dialog, answers, cached, visit, view, astray, commands>>
    BY <1>10 DEF libraryPageVars
  <2> QED BY <1>s, <1>u, <2>1, NoLoadBefore
<1> QED BY <1>1, <1>2, <1>3, <1>4, <1>5, <1>6, <1>7, <1>8, <1>9, <1>10
        DEF LibraryPageNext, Clicks

(* The invariant is inductive. *)
LEMMA LibraryStep == LibraryIInv /\ [LibraryPageNext]_libraryPageVars => LibraryIInv'
BY LibraryTypesKept, CopyKept DEF LibraryIInv

(* The page's library is on its way to the host's: between them lies a path  *)
(* of libraries, one per answer, unless one of them leaves the copy behind   *)
(* (libraryStore.ts, LibraryView.tsx, CollectionView.tsx).                   *)
THEOREM LibraryInvariantHolds == LibraryPageSpec => []LibraryIInv
<1> QED BY LibraryPageStart, LibraryStep, PTL DEF LibraryPageSpec

(* Once nothing is in flight a view shows the host's library, or was left    *)
(* behind in one of the three ways that astray names, for any ROMs,          *)
(* collections and number of overlapping commands, imports and loads.        *)
THEOREM PageCatchesUp == LibraryPageSpec => []PageShowsLibrary
<1>1. LibraryIInv => PageShowsLibrary
  <2> SUFFICES ASSUME LibraryTypes, CopyFollows, view # "game", commands = << >>,
                      answers = << >>, dialog = Closed, ~astray
               PROVE  cached = catalog
    BY DEF LibraryIInv, PageShowsLibrary
  <2>1. Len(answers) = 0 /\ DOMAIN answers = {} /\ DOMAIN commands = {}
    OBVIOUS
  <2>2. PICK path \in Paths(0) : path[0] = cached /\ IsPath(0, path)
    BY <2>1 DEF CopyFollows, FromCopy
  <2>3. Reached(cached) /\ cached \in Libraries /\ catalog \in Libraries
    BY <2>1, <2>2 DEF IsPath, Paths, LibraryTypes
  <2>4. cached.lists = catalog.lists
    BY <2>3 DEF Reached
  <2>5. \A rom \in RomIds : SameTitle(cached.titles, catalog.titles, rom)
    BY <2>3 DEF Reached, NotYetTold, Closed
  <2>6. cached.titles = catalog.titles
    <3>1. PICK C \in SUBSET RomIds : cached.titles \in [C -> Labels]
      BY <2>3 DEF Libraries, Partial
    <3>2. PICK D \in SUBSET RomIds : catalog.titles \in [D -> Labels]
      BY <2>3 DEF Libraries, Partial
    <3>3. C = D
      BY <2>5, <3>1, <3>2 DEF SameTitle
    <3> QED BY <2>5, <3>1, <3>2, <3>3 DEF SameTitle
  <2> QED BY <2>3, <2>4, <2>6, LibraryParts
<1> QED BY <1>1, LibraryInvariantHolds, PTL
-----------------------------------------------------------------------------
(* The game view, GameView.  The argument is about the order of the queue of *)
(* requests: what a view asks for stands after its own start and before the  *)
(* next one's.                                                               *)

Places == 1 .. Len(requests)

StartAt(i, v) == requests[i].cmd = "start" /\ requests[i].view = v
PauseAt(i, v) == requests[i].cmd = "pause" /\ requests[i].view = v
StopAt(i, id) == requests[i].cmd = "stop" /\ requests[i].id = id

(* The view on the page is the last one there was, ids are given out in      *)
(* order, and nothing refers to a view or a session that does not exist.     *)
Bounds ==
  /\ mounted # None => mounted = born
  /\ Len(owner) = nextId - 1 /\ nextId <= born + 1
  /\ \A s \in 1 .. Len(owner) : owner[s] <= born
  /\ slot # None => slot < nextId
  /\ \A v \in Views : handle[v] # None => handle[v] < nextId /\ v <= born
  /\ \A r \in results : r.view <= born /\ (r.id # None => r.id < nextId)
  /\ \A i \in Places : /\ requests[i].cmd = "stop" => requests[i].id < nextId
                       /\ requests[i].cmd # "stop" => requests[i].view <= born

(* The views' starts are in the queue in the order of the views, each before *)
(* what the view asks for later; and an id is free for each.                 *)
QueueOrder ==
  /\ \A i, j \in Places :
       i < j /\ requests[i].cmd # "stop" /\ requests[j].cmd # "stop" =>
         /\ requests[i].view <= requests[j].view
         /\ requests[j].cmd = "start" => requests[i].view < requests[j].view
  /\ \A i \in Places : requests[i].cmd = "start" => nextId <= requests[i].view

(* Once the first n requests are served, the active game, if there is one,   *)
(* is view v's: its start is among them, or it is served and no other is.    *)
Reaches(n, v) ==
  \/ \E k \in 1 .. n : StartAt(k, v)
  \/ /\ \A k \in 1 .. n : requests[k].cmd # "start"
     /\ slot # None => owner[slot] = v

OwnGame ==
  /\ \A i \in Places, v \in Views : PauseAt(i, v) => Reaches(i - 1, v)
  /\ mounted # None => Reaches(Len(requests), mounted)

(* Where a view's start is: in the queue, in the results, or handled; and a  *)
(* session knows its view wherever its id is held.                           *)
StartOnce ==
  /\ \A r, s \in results : r.view = s.view => r = s
  /\ \A r \in results : handle[r.view] = None /\ \A i \in Places : ~StartAt(i, r.view)
  /\ \A v \in Views : handle[v] # None => \A i \in Places : ~StartAt(i, v)

OwnersKnown ==
  /\ \A r \in results : r.id # None => owner[r.id] = r.view
  /\ \A v \in Views : handle[v] # None => owner[handle[v]] = v

(* Only sessions of views that have gone are to be stopped.                  *)
StopsAreLate ==
  \A i \in Places, id \in Views : StopAt(i, id) => owner[id] # mounted

(* The mounted view's session is active from its start on.                   *)
Undisturbed ==
  /\ MountedViewKeepsSession
  /\ \A r \in results : r.id # None /\ r.view = mounted => slot = r.id

(* The active session has someone who will stop it: its view, its start's    *)
(* result on the way to the page, or a request in the queue.                 *)
Accounted ==
  slot # None =>
    \/ \E r \in results : r.view = owner[slot] /\ r.id = slot
    \/ \E i \in Places : StopAt(i, slot)
    \/ mounted = owner[slot] /\ handle[mounted] = slot

(* What the pause button shows is what the game's flag will be once all is   *)
(* served: the last request says so, or, without one, the flag or the start. *)
ButtonIsLast ==
  mounted # None =>
    /\ \A i \in Places :
         PauseAt(i, mounted) /\ (\A j \in Places : j > i => ~PauseAt(j, mounted))
           => requests[i].on = uiPaused
    /\ (\A i \in Places : ~PauseAt(i, mounted)) =>
         /\ (\E i \in Places : StartAt(i, mounted)) => uiPaused = FALSE
         /\ slot # None /\ owner[slot] = mounted => slotPaused = uiPaused

GameIInv ==
  /\ TypeOK /\ Bounds /\ QueueOrder /\ OwnGame /\ StartOnce /\ OwnersKnown
  /\ StopsAreLate /\ Undisturbed /\ Accounted /\ ButtonIsLast

-----------------------------------------------------------------------------
(* The queue. *)

(* "None" is no view and no session. *)
LEMMA NoneIsNoView == None \notin Views /\ Views \subseteq Nat
BY ViewsAssumption DEF Views

(* A request has the fields its command calls for. *)
LEMMA RequestFields ==
  ASSUME TypeOK
  PROVE  /\ Len(requests) \in Nat
         /\ \A i \in Places :
              /\ requests[i].cmd \in {"start", "stop", "pause"}
              /\ requests[i].cmd = "stop" => requests[i].id \in Views
              /\ requests[i].cmd # "stop" => requests[i].view \in Views
              /\ requests[i].cmd = "pause" => requests[i].on \in BOOLEAN
<1>1. requests \in Seq(Requests) /\ Len(requests) \in Nat
  BY DEF TypeOK
<1>2. \A i \in Places : requests[i] \in Requests
  BY <1>1 DEF Places
<1> QED BY <1>1, <1>2 DEF Requests

(* A request that is sent stands behind all the others. *)
LEMMA SendEffect ==
  ASSUME TypeOK, NEW r \in Requests, Send(r)
  PROVE  /\ requests' \in Seq(Requests)
         /\ Len(requests) \in Nat /\ Len(requests') = Len(requests) + 1
         /\ requests'[Len(requests) + 1] = r
         /\ \A i \in 1 .. Len(requests) : requests'[i] = requests[i]
BY AppendProperties DEF TypeOK, Send

(* The oldest request is served, and the others move up. *)
LEMMA ServeEffect ==
  ASSUME TypeOK, NEW cmd, Serve(cmd)
  PROVE  /\ requests' \in Seq(Requests)
         /\ Len(requests) \in Nat \ {0} /\ Len(requests') = Len(requests) - 1
         /\ Head(requests) = requests[1] /\ requests[1].cmd = cmd
         /\ \A i \in 1 .. Len(requests) - 1 : requests'[i] = requests[i + 1]
<1>1. requests \in Seq(Requests) /\ requests # <<>>
  BY DEF TypeOK, Serve
<1> QED BY <1>1, HeadTailProperties DEF Serve

-----------------------------------------------------------------------------
(* No step leaves the types. *)
LEMMA TypeKept ==
  ASSUME GameIInv, [Next]_vars
  PROVE  TypeOK'
<1> USE ViewsAssumption, NoneIsNoView
<1>1. CASE Mount
  <2>1. born + 1 \in Views /\ Start(born + 1) \in Requests
    BY <1>1 DEF GameIInv, TypeOK, Mount, Views, Start, Requests
  <2>2. born' \in 0 .. MaxViews
    BY <1>1 DEF GameIInv, TypeOK, Mount
  <2> QED BY <1>1, <2>1, <2>2, SendEffect DEF GameIInv, TypeOK, Mount, host
<1>2. CASE MountFails
  <2>1. born' \in 0 .. MaxViews
    BY <1>2 DEF GameIInv, TypeOK, MountFails
  <2> QED BY <1>2, <2>1 DEF GameIInv, TypeOK, MountFails, host
<1>3. CASE Unmount
  <2>1. handle[mounted] # None => StopOf(handle[mounted]) \in Requests
    BY <1>3 DEF GameIInv, TypeOK, Unmount, StopOf, Requests
  <2>2. requests' \in Seq(Requests)
    BY <1>3, <2>1, SendEffect DEF GameIInv, TypeOK, Unmount, StopSession
  <2> QED BY <1>3, <2>2 DEF GameIInv, TypeOK, Unmount, host
<1>4. CASE TogglePause
  <2>1. Pause(mounted, ~uiPaused) \in Requests
    BY <1>4 DEF GameIInv, TypeOK, TogglePause, Pause, Requests
  <2> QED BY <1>4, <2>1, SendEffect DEF GameIInv, TypeOK, TogglePause, host
<1>5. CASE StartResolves
  <2>1. PICK r \in results :
          /\ r.id # None /\ results' = results \ {r} /\ TakeResult(r.view, r.id)
          /\ UNCHANGED <<mounted, born, uiPaused, host>>
    BY <1>5 DEF StartResolves
  <2>2. r.view \in Views /\ r.id \in Views /\ StopOf(r.id) \in Requests
    BY <2>1 DEF GameIInv, TypeOK, StopOf, Requests
  <2>3. requests' \in Seq(Requests) /\ handle' \in [Views -> Views \cup {None}]
    BY <2>1, <2>2, SendEffect DEF GameIInv, TypeOK, TakeResult, StopSession
  <2> QED BY <2>1, <2>3 DEF GameIInv, TypeOK, host
<1>6. CASE StartRejects
  BY <1>6 DEF GameIInv, TypeOK, StartRejects, host
<1>7. CASE ServeStart
  <2>1. 1 \in Places /\ requests[1].cmd = "start" /\ Head(requests) = requests[1]
    BY <1>7, ServeEffect DEF GameIInv, ServeStart, Places
  <2>2. requests[1].view \in Views /\ nextId <= requests[1].view
    BY <2>1, RequestFields DEF GameIInv, QueueOrder
  <2>3. nextId \in Views
    BY <2>2 DEF GameIInv, TypeOK, Views
  <2>4. owner' \in Seq(Views) /\ requests' \in Seq(Requests)
    BY <1>7, <2>1, <2>2, ServeEffect, AppendProperties DEF GameIInv, TypeOK, ServeStart
  <2>5. results' \subseteq [view : Views, id : Views \cup {None}]
    BY <1>7, <2>1, <2>2, <2>3 DEF GameIInv, TypeOK, ServeStart
  <2>6. nextId' \in 1 .. MaxViews + 1
    BY <1>7, <2>3 DEF ServeStart, Views
  <2> QED BY <1>7, <2>3, <2>4, <2>5, <2>6 DEF GameIInv, TypeOK, ServeStart, page
<1>8. CASE ServeStartFails
  <2>1. 1 \in Places /\ requests[1].cmd = "start" /\ Head(requests) = requests[1]
        /\ requests' \in Seq(Requests)
    BY <1>8, ServeEffect DEF GameIInv, ServeStartFails, Places
  <2>2. requests[1].view \in Views
    BY <2>1, RequestFields DEF GameIInv
  <2> QED BY <1>8, <2>1, <2>2 DEF GameIInv, TypeOK, ServeStartFails, page
<1>9. CASE ServeStop
  <2>1. requests' \in Seq(Requests)
    BY <1>9, ServeEffect DEF GameIInv, ServeStop
  <2> QED BY <1>9, <2>1 DEF GameIInv, TypeOK, ServeStop, page
<1>10. CASE ServePause
  <2>1. 1 \in Places /\ requests[1].cmd = "pause" /\ Head(requests) = requests[1]
        /\ requests' \in Seq(Requests)
    BY <1>10, ServeEffect DEF GameIInv, ServePause, Places
  <2>2. requests[1].on \in BOOLEAN
    BY <2>1, RequestFields DEF GameIInv
  <2> QED BY <1>10, <2>1, <2>2 DEF GameIInv, TypeOK, ServePause, page
<1>11. CASE UNCHANGED vars
  BY <1>11 DEF GameIInv, TypeOK, vars, page, host
<1> QED
  BY <1>1, <1>2, <1>3, <1>4, <1>5, <1>6, <1>7, <1>8, <1>9, <1>10, <1>11
  DEF Next, HostStep, PageStep

-----------------------------------------------------------------------------
(* The numbers behind the types: what arithmetic the queue's order needs. *)
LEMMA Numbers ==
  ASSUME TypeOK
  PROVE  /\ None \notin Nat /\ Views \subseteq Nat
         /\ born \in Nat /\ nextId \in Nat /\ Len(owner) \in Nat
         /\ slot \in Nat \cup {None} /\ mounted \in Nat \cup {None}
         /\ slot # None => slot \in Views
         /\ mounted # None => mounted \in Views
         /\ \A v \in Views : handle[v] # None => handle[v] \in Views
         /\ \A s \in 1 .. Len(owner) : owner[s] \in Views
         /\ \A r \in results : r.view \in Views /\ (r.id # None => r.id \in Views)
         /\ 0 \notin Views
BY ViewsAssumption DEF TypeOK, Views

(* A view that is mounted has sent its start behind everything else. *)
LEMMA MountKeeps ==
  ASSUME GameIInv, Mount
  PROVE  /\ Bounds' /\ QueueOrder' /\ OwnGame' /\ StartOnce' /\ OwnersKnown'
         /\ StopsAreLate' /\ Undisturbed' /\ Accounted' /\ ButtonIsLast'
<1>1. PICK n \in Nat :
        /\ Len(requests) = n /\ Len(requests') = n + 1
        /\ requests'[n + 1].cmd = "start" /\ requests'[n + 1].view = born + 1
        /\ \A i \in 1 .. n : requests'[i] = requests[i]
  <2>1. born + 1 \in Views /\ Start(born + 1) \in Requests
    BY ViewsAssumption DEF GameIInv, TypeOK, Mount, Views, Start, Requests
  <2> QED BY <2>1, SendEffect DEF GameIInv, Mount, Start
<1>0. born + 1 \in Views
  BY ViewsAssumption DEF GameIInv, TypeOK, Mount, Views
<1>2. /\ mounted = None /\ mounted' = born + 1 /\ born' = born + 1 /\ uiPaused' = FALSE
      /\ handle' = handle /\ results' = results /\ slot' = slot
      /\ slotPaused' = slotPaused /\ nextId' = nextId /\ owner' = owner
  BY DEF Mount, host
<1>3. Places = 1 .. n /\ Places' = 1 .. n + 1
  BY <1>1 DEF Places
<1>4. /\ born \in Nat /\ nextId \in Nat /\ None \notin Nat /\ Len(owner) \in Nat
      /\ \A s \in 1 .. Len(owner) : owner[s] \in Nat
      /\ \A v \in Views : v \in Nat /\ (handle[v] # None => handle[v] \in Nat)
      /\ \A r \in results : r.view \in Nat /\ (r.id # None => r.id \in Nat)
      /\ \A i \in 1 .. n : requests[i].cmd # "stop" => requests[i].view \in Nat
      /\ slot # None => slot \in Nat \ {0}
      /\ \A i \in 1 .. n : requests[i].cmd = "stop" => requests[i].id \in Nat \ {0}
  BY <1>1, <1>3, Numbers, RequestFields DEF GameIInv
<1>5. Bounds /\ Bounds'
  <2>1. Bounds
    BY DEF GameIInv
  <2>2. /\ mounted' # None => mounted' = born'
        /\ Len(owner') = nextId' - 1 /\ nextId' <= born' + 1
        /\ \A s \in 1 .. Len(owner') : owner'[s] <= born'
        /\ slot' # None => slot' < nextId'
        /\ \A v \in Views : handle'[v] # None => handle'[v] < nextId' /\ v <= born'
        /\ \A r \in results' : r.view <= born' /\ (r.id # None => r.id < nextId')
    BY <1>2, <1>4, <2>1 DEF Bounds
  <2>3. \A i \in 1 .. n : /\ requests[i].cmd = "stop" => requests[i].id < nextId
                          /\ requests[i].cmd # "stop" => requests[i].view <= born
    BY <1>3, <2>1 DEF Bounds
  <2>4. \A i \in Places' : /\ requests'[i].cmd = "stop" => requests'[i].id < nextId'
                           /\ requests'[i].cmd # "stop" => requests'[i].view <= born'
    BY <1>1, <1>2, <1>3, <1>4, <2>3
  <2>5. Bounds'
    BY <2>2, <2>4 DEF Bounds
  <2> QED BY <2>1, <2>5
<1>6. QueueOrder'
  <2>1. QueueOrder /\ \A i \in 1 .. n : requests[i].cmd # "stop" => requests[i].view <= born
    BY <1>3, <1>5 DEF GameIInv, Bounds
  <2>2. nextId <= born + 1
    BY <1>5 DEF Bounds
  <2>3. \A i \in Places' : i \in 1 .. n \/ i = n + 1
    BY <1>3
  <2>4. ASSUME NEW i \in Places', NEW j \in Places', i < j,
               requests'[i].cmd # "stop", requests'[j].cmd # "stop"
        PROVE  /\ requests'[i].view <= requests'[j].view
               /\ requests'[j].cmd = "start" => requests'[i].view < requests'[j].view
    <3>1. i \in 1 .. n /\ requests'[i] = requests[i]
      BY <1>1, <1>3, <2>3, <2>4
    <3>2. CASE j \in 1 .. n
      BY <1>1, <1>3, <2>1, <2>4, <3>1, <3>2 DEF QueueOrder
    <3>3. CASE j = n + 1
      BY <1>1, <1>4, <2>1, <2>4, <3>1, <3>3
    <3> QED BY <2>3, <3>2, <3>3
  <2>5. \A i \in Places' : requests'[i].cmd = "start" => nextId' <= requests'[i].view
    BY <1>1, <1>2, <1>3, <2>1, <2>2, <2>3 DEF QueueOrder
  <2> QED BY <2>4, <2>5 DEF QueueOrder
<1>7. OwnGame'
  <2>1. \A i \in 1 .. n, v \in Views : Reaches(i - 1, v) => Reaches(i - 1, v)'
    BY <1>1, <1>2 DEF Reaches, StartAt
  <2>2. \A i \in Places', v \in Views : PauseAt(i, v)' => i \in 1 .. n /\ PauseAt(i, v)
    BY <1>1, <1>3 DEF PauseAt
  <2>3. Reaches(Len(requests), mounted)'
    BY <1>1, <1>2 DEF Reaches, StartAt
  <2> QED BY <1>1, <1>2, <1>3, <2>1, <2>2, <2>3 DEF GameIInv, OwnGame
<1>8. StartOnce'
  <2>1. \A r \in results : r.view <= born
    BY DEF GameIInv, Bounds
  <2>2. \A v \in Views : v <= born /\ (\A i \in Places : ~StartAt(i, v))
                            => \A i \in Places' : ~StartAt(i, v)'
    <3> SUFFICES ASSUME NEW v \in Views, v <= born, NEW i \in 1 .. n + 1,
                        \A j \in 1 .. n : ~StartAt(j, v), StartAt(i, v)'
                 PROVE  FALSE
      BY <1>3
    <3>1. CASE i = n + 1
      BY <1>1, <1>4, <3>1 DEF StartAt
    <3>2. CASE i \in 1 .. n
      BY <1>1, <3>2 DEF StartAt
    <3> QED BY <3>1, <3>2
  <2> QED BY <1>2, <1>4, <1>5, <2>1, <2>2, Numbers DEF GameIInv, Bounds, StartOnce
<1>9. OwnersKnown' /\ StopsAreLate'
  BY <1>1, <1>2, <1>3, <1>4, <1>5 DEF GameIInv, Bounds, OwnersKnown, StopsAreLate, StopAt
<1>10. Undisturbed'
  BY <1>0, <1>2, <1>4, <1>5
  DEF GameIInv, Bounds, Undisturbed, MountedViewKeepsSession
<1>11. Accounted'
  BY <1>1, <1>2, <1>3, <1>4, <1>5 DEF GameIInv, Bounds, Accounted, StopAt
<1>12. ButtonIsLast'
  BY <1>1, <1>2, <1>3, <1>4, <1>5 DEF GameIInv, Bounds, ButtonIsLast, PauseAt, StartAt
<1> QED BY <1>5, <1>6, <1>7, <1>8, <1>9, <1>10, <1>11, <1>12

(* A view that could not be set up is as if it had never been. *)
LEMMA MountFailsKeeps ==
  ASSUME GameIInv, MountFails
  PROVE  /\ Bounds' /\ QueueOrder' /\ OwnGame' /\ StartOnce' /\ OwnersKnown'
         /\ StopsAreLate' /\ Undisturbed' /\ Accounted' /\ ButtonIsLast'
<1>1. /\ mounted = None /\ mounted' = None /\ born' = born + 1 /\ requests' = requests
      /\ handle' = handle /\ results' = results /\ slot' = slot
      /\ slotPaused' = slotPaused /\ nextId' = nextId /\ owner' = owner
      /\ Places' = Places
  BY DEF MountFails, host, Places
<1>2. Bounds'
  <2>1. \A x \in Nat : x <= born => x <= born + 1
    BY Numbers DEF GameIInv
  <2>2. \A i \in Places : requests[i].cmd # "stop" => requests[i].view \in Nat
    BY RequestFields, Numbers DEF GameIInv
  <2>3. nextId <= born + 2
    BY Numbers DEF GameIInv, Bounds
  <2> QED BY <1>1, <2>1, <2>2, <2>3, Numbers DEF GameIInv, Bounds
<1>3. QueueOrder' /\ OwnGame' /\ StartOnce' /\ OwnersKnown'
  BY <1>1 DEF GameIInv, QueueOrder, OwnGame, Reaches, StartAt, PauseAt, StartOnce, OwnersKnown
<1>4. StopsAreLate' /\ Undisturbed' /\ Accounted' /\ ButtonIsLast'
  BY <1>1 DEF GameIInv, StopsAreLate, StopAt, Undisturbed, MountedViewKeepsSession,
              Accounted, ButtonIsLast
<1> QED BY <1>2, <1>3, <1>4

(* A request to stop a session, sent when its view has gone or as it goes:   *)
(* what it adds to the queue disturbs no one else's place in it.             *)
LEMMA StopSent ==
  ASSUME GameIInv, NEW id \in Views, Send(StopOf(id)), id < nextId,
         UNCHANGED <<born, host>>
  PROVE  /\ QueueOrder'
         /\ \A v \in Views : Reaches(Len(requests), v) => Reaches(Len(requests), v)'
         /\ \A i \in Places', v \in Views : PauseAt(i, v)' => Reaches(i - 1, v)'
         /\ \A i \in Places' :
              /\ (requests[i].cmd = "stop" => requests[i].id < nextId)'
              /\ (requests[i].cmd # "stop" => requests[i].view <= born)'
         /\ Places \subseteq Places'
         /\ \A i \in Places' : \/ i \in Places /\ requests'[i] = requests[i]
                               \/ StopAt(i, id)' /\ i = Len(requests')
         /\ \A i \in Places : requests'[i] = requests[i]
         /\ \E i \in Places' : StopAt(i, id)'
<1>1. PICK n \in Nat :
        /\ Len(requests) = n /\ Len(requests') = n + 1
        /\ requests'[n + 1].cmd = "stop" /\ requests'[n + 1].id = id
        /\ \A i \in 1 .. n : requests'[i] = requests[i]
  <2>1. StopOf(id) \in Requests
    BY DEF StopOf, Requests
  <2> QED BY <2>1, SendEffect DEF GameIInv, StopOf
<1>2. Places = 1 .. n /\ Places' = 1 .. n + 1
  BY <1>1 DEF Places
<1>3. born' = born /\ nextId' = nextId /\ slot' = slot /\ owner' = owner
  BY DEF host
<1>4. QueueOrder'
  BY <1>1, <1>2, <1>3 DEF GameIInv, QueueOrder
<1>5. \A i \in 1 .. n + 1, v \in Views : Reaches(i - 1, v) => Reaches(i - 1, v)'
  BY <1>1, <1>3 DEF Reaches, StartAt
<1>6. \A v \in Views : Reaches(Len(requests), v) => Reaches(Len(requests), v)'
  BY <1>1, <1>3 DEF Reaches, StartAt
<1>7. \A i \in Places', v \in Views : PauseAt(i, v)' => Reaches(i - 1, v)'
  <2>1. \A i \in Places', v \in Views : PauseAt(i, v)' => i \in 1 .. n /\ PauseAt(i, v)
    BY <1>1, <1>2 DEF PauseAt
  <2> QED BY <1>2, <1>5, <2>1 DEF GameIInv, OwnGame
<1>8. \A i \in Places' :
        /\ (requests[i].cmd = "stop" => requests[i].id < nextId)'
        /\ (requests[i].cmd # "stop" => requests[i].view <= born)'
  BY <1>1, <1>2, <1>3 DEF GameIInv, Bounds
<1>9. /\ Places \subseteq Places' /\ \E i \in Places' : StopAt(i, id)'
      /\ \A i \in Places' : \/ i \in Places /\ requests'[i] = requests[i]
                            \/ StopAt(i, id)' /\ i = Len(requests')
      /\ \A i \in Places : requests'[i] = requests[i]
  BY <1>1, <1>2 DEF StopAt
<1> QED BY <1>4, <1>6, <1>7, <1>8, <1>9

(* A view that goes asks for its session to be stopped, if it has one.       *)
LEMMA UnmountKeeps ==
  ASSUME GameIInv, Unmount
  PROVE  /\ Bounds' /\ QueueOrder' /\ OwnGame' /\ StartOnce' /\ OwnersKnown'
         /\ StopsAreLate' /\ Undisturbed' /\ Accounted' /\ ButtonIsLast'
<1>1. /\ mounted # None /\ mounted \in Views /\ mounted' = None /\ born' = born
      /\ handle' = handle /\ results' = results /\ slot' = slot
      /\ slotPaused' = slotPaused /\ nextId' = nextId /\ owner' = owner
      /\ None \notin Views
  BY Numbers DEF GameIInv, Unmount, host
<1>2. CASE handle[mounted] = None
  <2>1. requests' = requests /\ Places' = Places
    BY <1>2 DEF Unmount, Places
  <2>2. Accounted'
    BY <1>1, <1>2, <2>1 DEF GameIInv, Accounted, StopAt
  <2>3. Bounds' /\ QueueOrder' /\ OwnGame' /\ StartOnce' /\ OwnersKnown'
    BY <1>1, <2>1
    DEF GameIInv, Bounds, QueueOrder, OwnGame, Reaches, StartAt, PauseAt, StartOnce, OwnersKnown
  <2>4. StopsAreLate'
    BY <1>1, <2>1, Numbers, RequestFields DEF GameIInv, Bounds, StopsAreLate, StopAt
  <2>5. Undisturbed' /\ ButtonIsLast'
    BY <1>1, Numbers DEF GameIInv, Undisturbed, MountedViewKeepsSession, ButtonIsLast
  <2> QED BY <2>2, <2>3, <2>4, <2>5
<1>3. CASE handle[mounted] # None
  <2>1. PICK id \in Views :
          /\ id = handle[mounted] /\ id < nextId /\ Send(StopOf(id))
          /\ owner[id] = mounted /\ UNCHANGED <<born, host>>
    BY <1>1, <1>3, Numbers DEF GameIInv, Bounds, OwnersKnown, Unmount, StopSession
  <2>2. /\ QueueOrder'
        /\ \A i \in Places', v \in Views : PauseAt(i, v)' => Reaches(i - 1, v)'
        /\ \A i \in Places' :
             /\ (requests[i].cmd = "stop" => requests[i].id < nextId)'
             /\ (requests[i].cmd # "stop" => requests[i].view <= born)'
        /\ Places \subseteq Places' /\ \E i \in Places' : StopAt(i, id)'
        /\ \A i \in Places' : \/ i \in Places /\ requests'[i] = requests[i]
                              \/ StopAt(i, id)'
        /\ \A i \in Places : requests'[i] = requests[i]
    BY <2>1, StopSent
  <2>3. Bounds'
    BY <1>1, <2>2 DEF GameIInv, Bounds
  <2>4. OwnGame'
    BY <1>1, <2>2 DEF OwnGame
  <2>5. StartOnce' /\ OwnersKnown'
    BY <1>1, <2>2 DEF GameIInv, StartOnce, OwnersKnown, StartAt, StopAt
  <2>6. StopsAreLate'
    <3> SUFFICES ASSUME NEW i \in Places', NEW k \in Views, StopAt(i, k)'
                 PROVE  owner[k] # None
      BY <1>1 DEF StopsAreLate
    <3>1. k < nextId
      BY <1>1, <2>2 DEF StopAt
    <3> QED BY <3>1, Numbers DEF GameIInv, Bounds
  <2>7. Undisturbed' /\ ButtonIsLast'
    BY <1>1, Numbers DEF GameIInv, Undisturbed, MountedViewKeepsSession, ButtonIsLast
  <2>8. Accounted'
    <3>1. CASE mounted = owner[slot] /\ id = slot
      BY <1>1, <2>2, <3>1 DEF Accounted
    <3>2. CASE \E r \in results : r.view = owner[slot] /\ r.id = slot
      BY <1>1, <3>2 DEF Accounted
    <3>3. CASE \E i \in Places : StopAt(i, slot)
      BY <1>1, <2>2, <3>3 DEF Accounted, StopAt
    <3> QED BY <1>1, <2>1, <3>1, <3>2, <3>3 DEF GameIInv, Accounted
  <2> QED BY <2>2, <2>3, <2>4, <2>5, <2>6, <2>7, <2>8
<1> QED BY <1>2, <1>3

(* The pause button's request stands behind its view's start. *)
LEMMA TogglePauseKeeps ==
  ASSUME GameIInv, TogglePause
  PROVE  /\ Bounds' /\ QueueOrder' /\ OwnGame' /\ StartOnce' /\ OwnersKnown'
         /\ StopsAreLate' /\ Undisturbed' /\ Accounted' /\ ButtonIsLast'
<1>1. /\ mounted # None /\ mounted \in Views /\ mounted' = mounted /\ born' = born
      /\ mounted = born /\ uiPaused' = ~uiPaused
      /\ handle' = handle /\ results' = results /\ slot' = slot
      /\ slotPaused' = slotPaused /\ nextId' = nextId /\ owner' = owner
  BY Numbers DEF GameIInv, Bounds, TogglePause, host
<1>2. PICK n \in Nat :
        /\ Len(requests) = n /\ Len(requests') = n + 1
        /\ requests'[n + 1].cmd = "pause" /\ requests'[n + 1].view = mounted
        /\ requests'[n + 1].on = uiPaused'
        /\ \A i \in 1 .. n : requests'[i] = requests[i]
  <2>1. Pause(mounted, ~uiPaused) \in Requests
    BY <1>1 DEF GameIInv, TypeOK, Pause, Requests
  <2> QED BY <1>1, <2>1, SendEffect DEF GameIInv, TogglePause, Pause
<1>3. Places = 1 .. n /\ Places' = 1 .. n + 1
  BY <1>2 DEF Places
<1>4. Bounds'
  BY <1>1, <1>2, <1>3, Numbers DEF GameIInv, Bounds
<1>5. QueueOrder'
  BY <1>1, <1>2, <1>3 DEF GameIInv, Bounds, QueueOrder
<1>6. OwnGame'
  <2>1. \A i \in 1 .. n + 1, v \in Views : Reaches(i - 1, v) => Reaches(i - 1, v)'
    BY <1>1, <1>2 DEF Reaches, StartAt
  <2>2. \A i \in Places', v \in Views :
          PauseAt(i, v)' => \/ i \in 1 .. n /\ PauseAt(i, v)
                            \/ i = n + 1 /\ v = mounted
    BY <1>2, <1>3 DEF PauseAt
  <2>3. Reaches(n, mounted) /\ Reaches(n, mounted)'
    BY <1>1, <1>2, <2>1 DEF GameIInv, OwnGame
  <2>4. Reaches(Len(requests), mounted)'
    BY <1>1, <1>2, <2>3 DEF Reaches, StartAt
  <2> QED BY <1>1, <1>2, <1>3, <2>1, <2>2, <2>3, <2>4 DEF GameIInv, OwnGame
<1>7. StartOnce' /\ OwnersKnown' /\ StopsAreLate'
  BY <1>1, <1>2, <1>3
  DEF GameIInv, StartOnce, OwnersKnown, StopsAreLate, StartAt, StopAt
<1>8. Undisturbed' /\ Accounted'
  BY <1>1, <1>2, <1>3
  DEF GameIInv, Undisturbed, MountedViewKeepsSession, Accounted, StopAt
<1>9. ButtonIsLast'
  BY <1>1, <1>2, <1>3 DEF ButtonIsLast, PauseAt
<1> QED BY <1>4, <1>5, <1>6, <1>7, <1>8, <1>9

(* A start that succeeded: the mounted view takes the session; one that has  *)
(* gone asks for it to be stopped.                                           *)
LEMMA StartResolvesKeeps ==
  ASSUME GameIInv, StartResolves
  PROVE  /\ Bounds' /\ QueueOrder' /\ OwnGame' /\ StartOnce' /\ OwnersKnown'
         /\ StopsAreLate' /\ Undisturbed' /\ Accounted' /\ ButtonIsLast'
<1>1. PICK r \in results :
        /\ r.id # None /\ results' = results \ {r} /\ TakeResult(r.view, r.id)
        /\ UNCHANGED <<mounted, born, uiPaused, host>>
  BY DEF StartResolves
<1>2. /\ mounted' = mounted /\ born' = born /\ uiPaused' = uiPaused /\ slot' = slot
      /\ slotPaused' = slotPaused /\ nextId' = nextId /\ owner' = owner
      /\ UNCHANGED <<born, host>> /\ results' \subseteq results
  BY <1>1 DEF host
<1>3. /\ r.view \in Views /\ r.id \in Views /\ r.id < nextId /\ r.view <= born
      /\ None \notin Views /\ owner[r.id] = r.view /\ handle[r.view] = None
  BY <1>1, Numbers DEF GameIInv, Bounds, OwnersKnown, StartOnce
<1>4. CASE mounted = r.view
  <2>1. /\ handle' = [handle EXCEPT ![r.view] = r.id] /\ requests' = requests
        /\ Places' = Places
    BY <1>1, <1>4 DEF TakeResult, Places
  <2>2. /\ handle' \in [Views -> Views \cup {None}] /\ handle'[r.view] = r.id
        /\ \A v \in Views : v # r.view => handle'[v] = handle[v]
    BY <1>3, <2>1 DEF GameIInv, TypeOK
  <2>3. Bounds'
    BY <1>2, <1>3, <2>1, <2>2 DEF GameIInv, Bounds
  <2>4. QueueOrder' /\ OwnGame' /\ StopsAreLate' /\ ButtonIsLast'
    BY <1>2, <2>1 DEF GameIInv, QueueOrder, OwnGame, Reaches, StartAt, PauseAt, StopsAreLate,
                      StopAt, ButtonIsLast
  <2>5. StartOnce'
    <3>1. \A s \in results' : s.view # r.view /\ s.view \in Views
      BY <1>1, Numbers DEF GameIInv, StartOnce
    <3>2. \A i \in Places : ~StartAt(i, r.view)
      BY <1>1 DEF GameIInv, StartOnce
    <3> QED BY <1>2, <2>1, <2>2, <3>1, <3>2 DEF GameIInv, StartOnce, StartAt
  <2>6. OwnersKnown'
    BY <1>2, <1>3, <2>2 DEF GameIInv, OwnersKnown
  <2>7. Undisturbed'
    BY <1>1, <1>2, <1>3, <1>4, <2>2
    DEF GameIInv, StartOnce, Undisturbed, MountedViewKeepsSession
  <2>8. Accounted'
    <3>1. \A i \in Places : StopAt(i, slot)' <=> StopAt(i, slot)
      BY <1>2, <2>1 DEF StopAt
    <3>2. slot # None => \/ \E s \in results : s.view = owner[slot] /\ s.id = slot
                         \/ \E i \in Places : StopAt(i, slot)
      BY <1>3, <1>4 DEF GameIInv, Accounted
    <3> QED BY <1>1, <1>2, <1>4, <2>1, <2>2, <3>1, <3>2 DEF Accounted
  <2> QED BY <2>3, <2>4, <2>5, <2>6, <2>7, <2>8
<1>5. CASE mounted # r.view
  <2>1. handle' = handle /\ Send(StopOf(r.id))
    BY <1>1, <1>5 DEF TakeResult, StopSession
  <2>2. PICK id \in Views : id = r.id /\ id < nextId /\ Send(StopOf(id))
    BY <1>3, <2>1
  <2>3. /\ QueueOrder'
        /\ \A v \in Views : Reaches(Len(requests), v) => Reaches(Len(requests), v)'
        /\ \A i \in Places', v \in Views : PauseAt(i, v)' => Reaches(i - 1, v)'
        /\ \A i \in Places' :
             /\ (requests[i].cmd = "stop" => requests[i].id < nextId)'
             /\ (requests[i].cmd # "stop" => requests[i].view <= born)'
        /\ Places \subseteq Places' /\ \E i \in Places' : StopAt(i, id)'
        /\ \A i \in Places' : \/ i \in Places /\ requests'[i] = requests[i]
                              \/ StopAt(i, id)'
        /\ \A i \in Places : requests'[i] = requests[i]
    BY <1>2, <2>2, StopSent
  <2>4. Bounds'
    BY <1>2, <2>1, <2>3 DEF GameIInv, Bounds
  <2>5. OwnGame'
    <3>1. mounted # None => Reaches(Len(requests), mounted)'
      <4> SUFFICES ASSUME mounted # None PROVE Reaches(Len(requests), mounted)'
        OBVIOUS
      <4>1. PICK v \in Views : v = mounted
        BY Numbers DEF GameIInv
      <4>2. Reaches(Len(requests), v)'
        BY <2>3, <4>1 DEF GameIInv, OwnGame
      <4> QED BY <1>2, <4>1, <4>2 DEF Reaches
    <3> QED BY <1>2, <2>3, <3>1 DEF OwnGame
  <2>6. StartOnce' /\ OwnersKnown'
    BY <1>2, <2>1, <2>3 DEF GameIInv, StartOnce, OwnersKnown, StartAt, StopAt
  <2>7. StopsAreLate'
    BY <1>2, <1>3, <1>5, <2>2, <2>3 DEF GameIInv, StopsAreLate, StopAt
  <2>8. Undisturbed'
    BY <1>2, <2>1 DEF GameIInv, Undisturbed, MountedViewKeepsSession
  <2>9. Accounted'
    <3>1. CASE \E s \in results : s.view = owner[slot] /\ s.id = slot /\ s # r
      BY <1>1, <1>2, <3>1 DEF Accounted
    <3>2. CASE r.id = slot
      BY <1>2, <2>2, <2>3, <3>2 DEF Accounted, StopAt
    <3>3. CASE \E i \in Places : StopAt(i, slot)
      BY <1>2, <2>3, <3>3 DEF Accounted, StopAt
    <3>4. CASE mounted = owner[slot] /\ handle[mounted] = slot
      BY <1>2, <2>1, <3>4 DEF Accounted
    <3> QED BY <1>2, <3>1, <3>2, <3>3, <3>4 DEF GameIInv, Accounted
  <2>10. ButtonIsLast'
    <3> SUFFICES ASSUME mounted # None PROVE ButtonIsLast'
      BY <1>2 DEF ButtonIsLast
    <3>1. \A i \in Places' : PauseAt(i, mounted)' <=> i \in Places /\ PauseAt(i, mounted)
      BY <1>2, <2>3 DEF PauseAt, StopAt
    <3>2. \A i \in Places' : StartAt(i, mounted)' <=> i \in Places /\ StartAt(i, mounted)
      BY <1>2, <2>3 DEF StartAt, StopAt
    <3> QED BY <1>2, <2>3, <3>1, <3>2 DEF GameIInv, ButtonIsLast
  <2> QED BY <2>3, <2>4, <2>5, <2>6, <2>7, <2>8, <2>9, <2>10
<1> QED BY <1>4, <1>5

(* A start that failed takes its view from the page, which held no session. *)
LEMMA StartRejectsKeeps ==
  ASSUME GameIInv, StartRejects
  PROVE  /\ Bounds' /\ QueueOrder' /\ OwnGame' /\ StartOnce' /\ OwnersKnown'
         /\ StopsAreLate' /\ Undisturbed' /\ Accounted' /\ ButtonIsLast'
<1>1. PICK r \in results :
        /\ r.id = None /\ results' = results \ {r}
        /\ mounted' = IF mounted = r.view THEN None ELSE mounted
        /\ UNCHANGED <<born, handle, uiPaused, requests, host>>
  BY DEF StartRejects
<1>2. /\ born' = born /\ handle' = handle /\ uiPaused' = uiPaused /\ requests' = requests
      /\ slot' = slot /\ slotPaused' = slotPaused /\ nextId' = nextId /\ owner' = owner
      /\ Places' = Places /\ results' \subseteq results
      /\ mounted' \in {None, mounted}
  BY <1>1 DEF host, Places
<1>3. Bounds' /\ QueueOrder' /\ OwnGame' /\ StartOnce' /\ OwnersKnown'
  BY <1>2 DEF GameIInv, Bounds, QueueOrder, OwnGame, Reaches, StartAt, PauseAt, StartOnce,
              OwnersKnown
<1>4. StopsAreLate'
  <2>1. \A i \in Places, id \in Views : StopAt(i, id) => owner[id] # None
    BY Numbers DEF GameIInv, Bounds, StopAt
  <2> QED BY <1>2, <2>1 DEF GameIInv, StopsAreLate, StopAt
<1>5. Undisturbed' /\ ButtonIsLast'
  <2>1. \A s \in results : s.view # None
    BY Numbers DEF GameIInv
  <2> QED BY <1>2, <2>1 DEF GameIInv, Undisturbed, MountedViewKeepsSession, ButtonIsLast,
                            PauseAt, StartAt
<1>6. Accounted'
  <2>1. handle[r.view] = None
    BY <1>1 DEF GameIInv, StartOnce
  <2>2. slot # None /\ mounted = owner[slot] /\ handle[mounted] = slot => mounted' = mounted
    BY <1>1, <2>1
  <2> QED BY <1>1, <1>2, <2>2 DEF GameIInv, Accounted, StopAt
<1> QED BY <1>3, <1>4, <1>5, <1>6

(* What every served request does to the queue, the page standing still.     *)
LEMMA ServedPlaces ==
  ASSUME GameIInv, NEW cmd, Serve(cmd), UNCHANGED page
  PROVE  /\ 1 \in Places /\ requests[1].cmd = cmd /\ Head(requests) = requests[1]
         /\ \A i \in Places' : i + 1 \in Places /\ requests'[i] = requests[i + 1]
         /\ \A i \in Places : i # 1 => i - 1 \in Places' /\ requests'[i - 1] = requests[i]
         /\ Len(requests) \in Nat \ {0} /\ Len(requests') = Len(requests) - 1
         /\ Places \subseteq Nat \ {0} /\ Places' \subseteq Nat \ {0}
<1>1. PICK n \in Nat :
        /\ Len(requests) = n + 1 /\ Len(requests') = n
        /\ requests[1].cmd = cmd /\ Head(requests) = requests[1]
        /\ \A i \in 1 .. n : requests'[i] = requests[i + 1]
  <2>1. Len(requests) - 1 \in Nat /\ Len(requests) = (Len(requests) - 1) + 1
    BY ServeEffect DEF GameIInv
  <2> QED BY <2>1, ServeEffect DEF GameIInv
<1>2. Places = 1 .. n + 1 /\ Places' = 1 .. n
  BY <1>1 DEF Places
<1> QED
  BY <1>1, <1>2

(* The requests left in the queue are in order, and later than the one that  *)
(* was served.                                                               *)
LEMMA ServedOrder ==
  ASSUME GameIInv, NEW cmd, Serve(cmd), UNCHANGED page
  PROVE  /\ \A i, j \in Places' :
              i < j /\ requests'[i].cmd # "stop" /\ requests'[j].cmd # "stop" =>
                /\ requests'[i].view <= requests'[j].view
                /\ requests'[j].cmd = "start" => requests'[i].view < requests'[j].view
         /\ \A i \in Places' :
              /\ requests'[i].cmd = "start" =>
                   /\ nextId <= requests'[i].view
                   /\ cmd # "stop" => requests[1].view < requests'[i].view
              /\ requests'[i].cmd = "stop" => requests'[i].id < nextId
              /\ requests'[i].cmd # "stop" => requests'[i].view <= born
<1>1. \A i, j \in Places' :
        i < j => /\ i + 1 \in Places /\ j + 1 \in Places /\ i + 1 < j + 1
                 /\ requests'[i] = requests[i + 1] /\ requests'[j] = requests[j + 1]
  BY ServedPlaces
<1>2. \A i \in Places' : /\ 1 \in Places /\ i + 1 \in Places /\ 1 < i + 1
                         /\ requests[1].cmd = cmd /\ requests'[i] = requests[i + 1]
  BY ServedPlaces
<1> QED BY <1>1, <1>2 DEF GameIInv, QueueOrder, Bounds

(* What a game is reached by, it is still reached by: a start that has just  *)
(* been served has made the game that is active, or has failed.              *)
LEMMA ServedOwnGame ==
  ASSUME GameIInv, NEW cmd, Serve(cmd), UNCHANGED page,
         cmd = "start" => slot' = None \/ owner'[slot'] = requests[1].view,
         cmd # "start" => slot' = None \/ (slot' = slot /\ owner' = owner)
  PROVE  OwnGame'
<1> USE DEF StartAt
<1>1. \A i \in 0 .. Len(requests) - 1, v \in Views :
        /\ Reaches(i + 1, v)
        /\ \A k \in 1 .. i + 1 : requests[k].cmd = "start" => requests[k].view <= v
        => Reaches(i, v)'
  <2> SUFFICES ASSUME NEW i \in 0 .. Len(requests) - 1, NEW v \in Views, Reaches(i + 1, v),
                      \A k \in 1 .. i + 1 :
                        requests[k].cmd = "start" => requests[k].view <= v
               PROVE  Reaches(i, v)'
    OBVIOUS
  <2>1. /\ \A k \in 1 .. i : k \in Places' /\ requests'[k] = requests[k + 1]
        /\ 1 \in Places /\ requests[1].cmd = cmd /\ Len(requests) \in Nat
    BY ServedPlaces DEF Places
  <2>2. CASE \E k \in 2 .. i + 1 : StartAt(k, v)
    <3>1. PICK k \in 2 .. i + 1 : StartAt(k, v)
      BY <2>2
    <3>2. k - 1 \in 1 .. i /\ requests'[k - 1] = requests[k]
      BY <2>1, <3>1
    <3> QED BY <3>1, <3>2 DEF Reaches
  <2>3. CASE StartAt(1, v)
    <3>1. \A k \in 1 .. i : requests'[k].cmd # "start"
      <4> SUFFICES ASSUME NEW k \in 1 .. i, requests'[k].cmd = "start" PROVE FALSE
        OBVIOUS
      <4>1. requests[1].view < requests'[k].view
        BY <2>1, <2>3, ServedOrder
      <4>2. requests'[k] = requests[k + 1] /\ k + 1 \in 1 .. i + 1 /\ k + 1 \in Places
        BY <2>1, ServedPlaces
      <4>3. requests[k + 1].view <= v /\ requests[k + 1].view \in Nat
        BY <4>2, RequestFields, Numbers DEF GameIInv
      <4> QED BY <2>3, <4>1, <4>2, <4>3, Numbers DEF GameIInv
    <3> QED BY <2>1, <2>3, <3>1 DEF Reaches
  <2>4. CASE /\ \A k \in 1 .. i + 1 : requests[k].cmd # "start"
             /\ slot # None => owner[slot] = v
    <3>1. /\ \A k \in 1 .. i : k + 1 \in 1 .. i + 1
          /\ 1 \in 1 .. i + 1
      OBVIOUS
    <3>2. cmd # "start" /\ \A k \in 1 .. i : requests'[k].cmd # "start"
      BY <2>1, <2>4, <3>1
    <3> QED BY <2>4, <3>2 DEF Reaches
  <2>5. \A k \in 1 .. i + 1 : k = 1 \/ k \in 2 .. i + 1
    OBVIOUS
  <2> QED BY <2>2, <2>3, <2>4, <2>5 DEF Reaches
<1>2. \A i \in Places', v \in Views : PauseAt(i, v)' => Reaches(i - 1, v)'
  <2> SUFFICES ASSUME NEW i \in Places', NEW v \in Views, PauseAt(i, v)'
               PROVE  Reaches(i - 1, v)'
    OBVIOUS
  <2>1. i + 1 \in Places /\ PauseAt(i + 1, v) /\ i \in 1 .. Len(requests) - 1
        /\ Len(requests) \in Nat
    BY ServedPlaces DEF PauseAt, Places
  <2>2. i - 1 \in 0 .. Len(requests) - 1 /\ (i - 1) + 1 = i /\ (i + 1) - 1 = i
    BY <2>1
  <2>3. Reaches(i, v)
    BY <2>1, <2>2 DEF GameIInv, OwnGame
  <2>4. \A k \in 1 .. i : requests[k].cmd = "start" => requests[k].view <= v
    BY <2>1 DEF GameIInv, QueueOrder, PauseAt, Places
  <2> QED BY <1>1, <2>2, <2>3, <2>4
<1>3. mounted' # None => Reaches(Len(requests), mounted)'
  <2> SUFFICES ASSUME mounted # None PROVE Reaches(Len(requests), mounted)'
    BY DEF page
  <2>1. PICK v \in Views : v = mounted /\ v = born
    BY Numbers DEF GameIInv, Bounds
  <2>2. /\ Len(requests) \in Nat \ {0} /\ Len(requests') = Len(requests) - 1
        /\ mounted' = v
    BY <2>1, ServedPlaces DEF page
  <2>3. PICK n \in Nat : n = Len(requests') /\ n + 1 = Len(requests)
    BY <2>2
  <2>4. Reaches(n + 1, v)
    BY <2>1, <2>3 DEF GameIInv, OwnGame
  <2>5. \A k \in 1 .. n + 1 : requests[k].cmd = "start" => requests[k].view <= v
    BY <2>1, <2>3 DEF GameIInv, Bounds, Places
  <2>6. Reaches(n, v)'
    BY <1>1, <2>2, <2>3, <2>4, <2>5
  <2> QED BY <2>2, <2>3, <2>6 DEF Reaches
<1> QED BY <1>2, <1>3 DEF OwnGame

(* The mounted view knows its session only after its start is served, and    *)
(* then no start is in the queue at all.                                     *)
LEMMA NoStartWaits ==
  ASSUME GameIInv, mounted # None,
         \/ handle[mounted] # None
         \/ \E r \in results : r.view = mounted
  PROVE  \A i \in Places : requests[i].cmd # "start"
<1>1. mounted \in Views
  BY Numbers DEF GameIInv
<1>2. \A i \in Places : ~StartAt(i, mounted)
  BY <1>1 DEF GameIInv, StartOnce
<1> QED BY <1>2 DEF GameIInv, OwnGame, Reaches, Places

(* A start that is served, whether it makes a session or fails: the queue,   *)
(* the order and the results after it.                                       *)
LEMMA StartServed ==
  ASSUME GameIInv, Serve("start"), UNCHANGED page,
         NEW x \in Views \cup {None}, x \in {None, nextId},
         results' = results \cup {[view |-> requests[1].view, id |-> x]},
         slot' = x,
         \/ x # None /\ nextId' = nextId + 1 /\ owner' = Append(owner, requests[1].view)
         \/ x = None /\ nextId' = nextId /\ owner' = owner
  PROVE  /\ Bounds' /\ QueueOrder' /\ OwnGame' /\ StartOnce' /\ OwnersKnown'
         /\ StopsAreLate' /\ Undisturbed' /\ Accounted'
<1>1. /\ mounted' = mounted /\ born' = born /\ handle' = handle
  BY DEF page
<1>2. PICK v \in Views : /\ v = requests[1].view /\ StartAt(1, v) /\ 1 \in Places
                         /\ nextId <= v /\ v <= born
  BY ServedPlaces, RequestFields DEF GameIInv, StartAt, QueueOrder, Bounds
<1>3. PICK new \in results' : /\ new.view = v /\ new.id = x
                              /\ \A r \in results' : r \in results \/ r = new
  BY <1>2
<1>4. /\ Len(owner) = nextId - 1 /\ owner \in Seq(Views)
      /\ born \in Nat /\ nextId \in Nat /\ Len(owner) \in Nat /\ None \notin Nat
      /\ Views \subseteq Nat /\ 0 \notin Views
  BY Numbers DEF GameIInv, Bounds, TypeOK
<1>5. /\ Len(owner') = nextId' - 1 /\ nextId <= nextId' /\ nextId' \in Nat
      /\ \A s \in 1 .. Len(owner) : owner'[s] = owner[s]
      /\ x # None => x = nextId /\ x < nextId' /\ owner'[x] = v /\ Len(owner') = Len(owner) + 1
      /\ x = None => owner' = owner
      /\ nextId' <= born + 1
  <2>1. CASE x # None
    <3>1. /\ x = nextId /\ nextId' = nextId + 1 /\ owner' = Append(owner, v)
      BY <1>2, <2>1
    <3>2. /\ Len(owner') = Len(owner) + 1 /\ owner'[Len(owner) + 1] = v
          /\ \A s \in 1 .. Len(owner) : owner'[s] = owner[s]
      BY <1>2, <1>4, <3>1, AppendProperties
    <3> QED BY <1>2, <1>4, <2>1, <3>1, <3>2
  <2>2. CASE x = None
    BY <1>2, <1>4, <2>2 DEF GameIInv, Bounds
  <2> QED BY <2>1, <2>2
<1>6. \A s \in Views : s < nextId => s \in 1 .. Len(owner) /\ owner'[s] = owner[s]
  <2> SUFFICES ASSUME NEW s \in Views, s < nextId
               PROVE  s \in 1 .. Len(owner) /\ owner'[s] = owner[s]
    OBVIOUS
  <2>1. s \in Nat /\ s # 0
    BY <1>4
  <2>2. s \in 1 .. Len(owner)
    BY <1>4, <2>1
  <2> QED BY <1>5, <2>2
<1>7. Bounds'
  <2>1. \A s \in 1 .. Len(owner') : owner'[s] <= born
    <3>1. \A s \in 1 .. Len(owner) : owner[s] <= born /\ owner'[s] = owner[s]
      BY <1>5 DEF GameIInv, Bounds
    <3>2. CASE x = None
      BY <1>5, <3>1, <3>2
    <3>3. CASE x # None
      <4>1. /\ Len(owner') = Len(owner) + 1 /\ owner'[Len(owner) + 1] = v
        <5>1. x = nextId /\ nextId = Len(owner) + 1
          BY <1>4, <1>5, <3>3
        <5> QED BY <1>5, <3>3, <5>1
      <4>2. \A s \in 1 .. Len(owner') : s \in 1 .. Len(owner) \/ s = Len(owner) + 1
        BY <1>4, <4>1
      <4> QED BY <1>2, <3>1, <4>1, <4>2
    <3> QED BY <3>2, <3>3
  <2>2. slot' # None => slot' < nextId'
    BY <1>5
  <2>0. \A s \in Nat : s < nextId => s < nextId'
    BY <1>4, <1>5
  <2>3. \A w \in Views : handle[w] # None => handle[w] < nextId' /\ w <= born
    BY <2>0, Numbers DEF GameIInv, Bounds
  <2>4. \A r \in results' : r.view <= born /\ (r.id # None => r.id < nextId')
    <3>1. \A r \in results : r.view <= born /\ (r.id # None => r.id < nextId')
      BY <2>0, Numbers DEF GameIInv, Bounds
    <3> QED BY <1>2, <1>3, <1>5, <3>1
  <2>5. \A i \in Places' : /\ requests'[i].cmd = "stop" => requests'[i].id < nextId'
                           /\ requests'[i].cmd # "stop" => requests'[i].view <= born
    <3>1. \A i \in Places' : requests'[i].cmd = "stop" => requests'[i].id \in Nat
      <4> SUFFICES ASSUME NEW i \in Places', requests'[i].cmd = "stop"
                   PROVE  requests'[i].id \in Nat
        OBVIOUS
      <4>1. i + 1 \in Places /\ requests'[i] = requests[i + 1]
        BY ServedPlaces
      <4> QED BY <4>1, RequestFields, Numbers DEF GameIInv
    <3> QED BY <1>4, <1>5, <3>1, ServedOrder
  <2> QED BY <1>1, <1>5, <2>1, <2>2, <2>3, <2>4, <2>5 DEF GameIInv, Bounds
<1>8. QueueOrder'
  <2>1. \A i \in Places' : requests'[i].cmd = "start" =>
          v < requests'[i].view /\ requests'[i].view \in Nat
    <3> SUFFICES ASSUME NEW i \in Places', requests'[i].cmd = "start"
                 PROVE  v < requests'[i].view /\ requests'[i].view \in Nat
      OBVIOUS
    <3>1. i + 1 \in Places /\ requests'[i] = requests[i + 1]
      BY ServedPlaces
    <3>2. requests'[i].view \in Nat
      BY <3>1, RequestFields, Numbers DEF GameIInv
    <3> QED BY <1>2, <3>2, ServedOrder
  <2>2. nextId' <= v + 1
    BY <1>2, <1>4, <1>5
  <2>3. \A i \in Places' : requests'[i].cmd = "start" => nextId' <= requests'[i].view
    BY <1>4, <1>5, <2>1, <2>2
  <2> QED BY <2>3, ServedOrder DEF QueueOrder
<1>9. OwnGame'
  BY <1>2, <1>5, ServedOwnGame
<1>10. StartOnce'
  <2>1. \A i \in Places' : ~StartAt(i, v)'
    BY <1>2, <1>4, ServedOrder DEF StartAt
  <2>2. \A i \in Places', w \in Views : StartAt(i, w)' => \E j \in Places : StartAt(j, w)
    BY ServedPlaces DEF StartAt
  <2>3. \A r \in results : r.view # v /\ r.view \in Views
    BY <1>2, Numbers DEF GameIInv, StartOnce
  <2>4. handle[v] = None
    BY <1>2 DEF GameIInv, StartOnce
  <2>5. \A r, s \in results' : r.view = s.view => r = s
    BY <1>3, <2>3 DEF GameIInv, StartOnce
  <2>6. \A r \in results' : handle[r.view] = None /\ \A i \in Places' : ~StartAt(i, r.view)'
    BY <1>3, <2>1, <2>2, <2>3, <2>4 DEF GameIInv, StartOnce
  <2>7. \A w \in Views : handle[w] # None => \A i \in Places' : ~StartAt(i, w)'
    BY <2>2 DEF GameIInv, StartOnce
  <2> QED BY <1>1, <2>5, <2>6, <2>7 DEF StartOnce, StartAt
<1>11. OwnersKnown'
  <2>1. \A r \in results : r.id # None => r.id \in Views /\ r.id < nextId
    BY Numbers DEF GameIInv, Bounds
  <2>2. \A w \in Views : handle[w] # None => handle[w] \in Views /\ handle[w] < nextId
    BY Numbers DEF GameIInv, Bounds
  <2> QED BY <1>1, <1>3, <1>5, <1>6, <2>1, <2>2 DEF GameIInv, OwnersKnown
<1>12. StopsAreLate'
  <2>1. \A i \in Places', id \in Views : StopAt(i, id)' => i + 1 \in Places /\ StopAt(i + 1, id)
    BY ServedPlaces DEF StopAt
  <2>2. \A i \in Places', id \in Views : StopAt(i, id)' => owner'[id] = owner[id]
    BY <1>6, <2>1 DEF GameIInv, Bounds, StopAt
  <2> QED BY <1>1, <2>1, <2>2 DEF GameIInv, StopsAreLate
<1>13. Undisturbed'
  <2>1. mounted # None => handle[mounted] = None /\ \A r \in results : r.view # mounted
    BY <1>2, NoStartWaits DEF StartAt
  <2> QED BY <1>1, <1>3, <2>1, Numbers DEF GameIInv, Undisturbed, MountedViewKeepsSession
<1>14. Accounted'
  BY <1>3, <1>5 DEF Accounted
<1> QED BY <1>7, <1>8, <1>9, <1>10, <1>11, <1>12, <1>13, <1>14

(* A served request that is no pause of the mounted view leaves the button   *)
(* telling the truth, if the flag of the view's game stays as it was or      *)
(* starts at FALSE with its start.                                           *)
LEMMA ButtonShifts ==
  ASSUME GameIInv, NEW cmd, Serve(cmd), UNCHANGED page, mounted # None, ~PauseAt(1, mounted),
         slot' # None /\ owner'[slot'] = mounted =>
           \/ StartAt(1, mounted) /\ slotPaused' = FALSE
           \/ slot # None /\ owner[slot] = mounted /\ slotPaused' = slotPaused
  PROVE  ButtonIsLast'
<1>1. mounted' = mounted /\ uiPaused' = uiPaused
  BY DEF page
<1>2. \A i \in Places' : i + 1 \in Places /\ requests'[i] = requests[i + 1] /\ i \in Nat
  BY ServedPlaces
<1>3. \A i \in Places : PauseAt(i, mounted) => i - 1 \in Places' /\ PauseAt(i - 1, mounted)'
  BY <1>1, ServedPlaces DEF PauseAt
<1>4. \A i \in Places' :
        PauseAt(i, mounted)' /\ (\A j \in Places' : j > i => ~PauseAt(j, mounted)')
          => requests'[i].on = uiPaused
  <2> SUFFICES ASSUME NEW i \in Places', PauseAt(i, mounted)',
                      \A j \in Places' : j > i => ~PauseAt(j, mounted)'
               PROVE  requests'[i].on = uiPaused
    OBVIOUS
  <2>1. i + 1 \in Places /\ PauseAt(i + 1, mounted)
    BY <1>1, <1>2 DEF PauseAt
  <2>2. \A j \in Places : j > i + 1 => ~PauseAt(j, mounted)
    BY <1>2, <1>3, ServedPlaces
  <2> QED BY <1>2, <2>1, <2>2 DEF GameIInv, ButtonIsLast
<1>5. ASSUME \A i \in Places' : ~PauseAt(i, mounted)'
      PROVE  /\ (\E i \in Places' : StartAt(i, mounted)') => uiPaused = FALSE
             /\ slot' # None /\ owner'[slot'] = mounted => slotPaused' = uiPaused
  <2>1. \A i \in Places : ~PauseAt(i, mounted)
    BY <1>3, <1>5
  <2>2. /\ (\E i \in Places : StartAt(i, mounted)) => uiPaused = FALSE
        /\ slot # None /\ owner[slot] = mounted => slotPaused = uiPaused
    BY <2>1 DEF GameIInv, ButtonIsLast
  <2>3. 1 \in Places
    BY ServedPlaces
  <2> QED BY <1>1, <1>2, <2>2, <2>3 DEF StartAt
<1> QED BY <1>1, <1>4, <1>5 DEF ButtonIsLast, PauseAt, StartAt

(* A start served makes the session of its view active. *)
LEMMA ServeStartKeeps ==
  ASSUME GameIInv, ServeStart
  PROVE  /\ Bounds' /\ QueueOrder' /\ OwnGame' /\ StartOnce' /\ OwnersKnown'
         /\ StopsAreLate' /\ Undisturbed' /\ Accounted' /\ ButtonIsLast'
<1>1. /\ Serve("start") /\ UNCHANGED page /\ Head(requests) = requests[1]
      /\ 1 \in Places /\ requests[1].cmd = "start"
  BY ServedPlaces DEF ServeStart
<1>2. PICK v \in Views : v = requests[1].view /\ nextId <= v
  BY <1>1, RequestFields DEF GameIInv, QueueOrder
<1>3. nextId \in Views /\ None \notin Views
  BY <1>2, Numbers, ViewsAssumption DEF GameIInv, TypeOK, Views
<1>4. /\ Bounds' /\ QueueOrder' /\ OwnGame' /\ StartOnce' /\ OwnersKnown'
      /\ StopsAreLate' /\ Undisturbed' /\ Accounted'
  BY <1>1, <1>3, StartServed DEF ServeStart
<1>5. ButtonIsLast'
  <2>1. slotPaused' = FALSE /\ owner'[slot'] = v
    <3>1. owner \in Seq(Views) /\ slot' = Len(owner) + 1
      BY <1>1, Numbers DEF GameIInv, TypeOK, Bounds, ServeStart
    <3> QED BY <1>1, <1>2, <3>1, AppendProperties DEF ServeStart
  <2>2. ~PauseAt(1, mounted) /\ (v = mounted => StartAt(1, mounted))
    BY <1>1, <1>2 DEF PauseAt, StartAt
  <2>3. CASE mounted = None
    BY <1>1, <2>3 DEF ButtonIsLast, page
  <2>4. CASE mounted # None
    BY <1>1, <2>1, <2>2, <2>4, ButtonShifts
  <2> QED BY <2>3, <2>4
<1> QED BY <1>4, <1>5

(* A start that fails leaves no session, and its view an answer to handle.   *)
LEMMA ServeStartFailsKeeps ==
  ASSUME GameIInv, ServeStartFails
  PROVE  /\ Bounds' /\ QueueOrder' /\ OwnGame' /\ StartOnce' /\ OwnersKnown'
         /\ StopsAreLate' /\ Undisturbed' /\ Accounted' /\ ButtonIsLast'
<1>1. /\ Serve("start") /\ UNCHANGED page /\ Head(requests) = requests[1]
      /\ 1 \in Places /\ requests[1].cmd = "start"
  BY ServedPlaces DEF ServeStartFails
<1>2. /\ Bounds' /\ QueueOrder' /\ OwnGame' /\ StartOnce' /\ OwnersKnown'
      /\ StopsAreLate' /\ Undisturbed' /\ Accounted'
  BY <1>1, StartServed DEF ServeStartFails
<1>3. ButtonIsLast'
  <2>1. slot' = None /\ ~PauseAt(1, mounted)
    BY <1>1 DEF ServeStartFails, PauseAt
  <2>2. CASE mounted = None
    BY <1>1, <2>2 DEF ButtonIsLast, page
  <2>3. CASE mounted # None
    BY <1>1, <2>1, <2>3, ButtonShifts
  <2> QED BY <2>2, <2>3
<1> QED BY <1>2, <1>3

(* Serving anything but a start: ids, views and results stay as they are,    *)
(* and the queue only loses its head.                                        *)
LEMMA OthersServed ==
  ASSUME GameIInv, NEW cmd, cmd # "start", Serve(cmd), UNCHANGED <<page, results>>,
         UNCHANGED <<nextId, owner>>, slot' \in {None, slot}
  PROVE  /\ Bounds' /\ QueueOrder' /\ OwnGame' /\ StartOnce' /\ OwnersKnown'
         /\ StopsAreLate'
<1>1. /\ mounted' = mounted /\ born' = born /\ handle' = handle /\ results' = results
      /\ nextId' = nextId /\ owner' = owner
  BY DEF page
<1>2. Bounds'
  BY <1>1, ServedOrder DEF GameIInv, Bounds
<1>3. QueueOrder'
  BY <1>1, ServedOrder DEF QueueOrder
<1>4. OwnGame'
  BY <1>1, ServedOwnGame
<1>5. \A i \in Places' : i + 1 \in Places /\ requests'[i] = requests[i + 1]
  BY ServedPlaces
<1>6. StartOnce' /\ OwnersKnown'
  BY <1>1, <1>5 DEF GameIInv, StartOnce, OwnersKnown, StartAt
<1>7. StopsAreLate'
  BY <1>1, <1>5 DEF GameIInv, StopsAreLate, StopAt
<1> QED BY <1>2, <1>3, <1>4, <1>6, <1>7

(* A stop request names a session of a view that has gone: the mounted       *)
(* view's stays.                                                             *)
LEMMA ServeStopKeeps ==
  ASSUME GameIInv, ServeStop
  PROVE  /\ Bounds' /\ QueueOrder' /\ OwnGame' /\ StartOnce' /\ OwnersKnown'
         /\ StopsAreLate' /\ Undisturbed' /\ Accounted' /\ ButtonIsLast'
<1>1. PICK id \in Views :
        /\ Serve("stop") /\ UNCHANGED <<page, results>> /\ UNCHANGED <<nextId, owner>>
        /\ StopAt(1, id) /\ 1 \in Places /\ slotPaused' = slotPaused
        /\ slot' = IF slot # None /\ id = slot THEN None ELSE slot
  BY ServedPlaces, RequestFields DEF GameIInv, ServeStop, StopMatches, StopAt
<1>2. /\ mounted' = mounted /\ handle' = handle /\ results' = results /\ owner' = owner
      /\ slot' \in {None, slot} /\ (slot' = None \/ slot # id) /\ owner[id] # mounted
  BY <1>1 DEF GameIInv, StopsAreLate, page
<1>3. /\ Bounds' /\ QueueOrder' /\ OwnGame' /\ StartOnce' /\ OwnersKnown'
      /\ StopsAreLate'
  BY <1>1, <1>2, OthersServed
<1>4. Undisturbed'
  <2>1. mounted # None /\ handle[mounted] # None => handle[mounted] # id
    BY <1>2, Numbers DEF GameIInv, OwnersKnown
  <2>2. \A r \in results : r.id # None /\ r.view = mounted => r.id # id
    BY <1>2 DEF GameIInv, OwnersKnown
  <2> QED BY <1>1, <1>2, <2>1, <2>2 DEF GameIInv, Undisturbed, MountedViewKeepsSession
<1>5. Accounted'
  <2> SUFFICES ASSUME slot' # None PROVE Accounted'
    BY DEF Accounted
  <2>1. slot' = slot /\ slot # id
    BY <1>2
  <2>2. \A i \in Places : StopAt(i, slot) => i - 1 \in Places' /\ StopAt(i - 1, slot)'
    BY <1>1, <2>1, ServedPlaces DEF StopAt
  <2> QED BY <1>2, <2>1, <2>2 DEF GameIInv, Accounted
<1>6. ButtonIsLast'
  <2>1. ~PauseAt(1, mounted)
    BY <1>1 DEF PauseAt, StopAt
  <2>2. CASE mounted = None
    BY <1>2, <2>2 DEF ButtonIsLast
  <2>3. CASE mounted # None
    BY <1>1, <1>2, <2>1, <2>3, ButtonShifts
  <2> QED BY <2>2, <2>3
<1> QED BY <1>3, <1>4, <1>5, <1>6

(* A pause request reaches the game of its own view, or none.                *)
LEMMA ServePauseKeeps ==
  ASSUME GameIInv, ServePause
  PROVE  /\ Bounds' /\ QueueOrder' /\ OwnGame' /\ StartOnce' /\ OwnersKnown'
         /\ StopsAreLate' /\ Undisturbed' /\ Accounted' /\ ButtonIsLast'
<1>1. PICK w \in Views :
        /\ Serve("pause") /\ UNCHANGED <<page, results>> /\ UNCHANGED <<nextId, owner>>
        /\ PauseAt(1, w) /\ 1 \in Places /\ slot' = slot
        /\ slotPaused' = IF slot = None THEN slotPaused ELSE requests[1].on
  BY ServedPlaces, RequestFields DEF GameIInv, ServePause, PauseAt
<1>2. /\ mounted' = mounted /\ handle' = handle /\ results' = results /\ owner' = owner
      /\ uiPaused' = uiPaused
  BY <1>1 DEF page
<1>3. /\ Bounds' /\ QueueOrder' /\ OwnGame' /\ StartOnce' /\ OwnersKnown'
      /\ StopsAreLate'
  BY <1>1, OthersServed
<1>4. slot # None => owner[slot] = w
  BY <1>1 DEF GameIInv, OwnGame, Reaches
<1>5. Undisturbed'
  BY <1>1, <1>2 DEF GameIInv, Undisturbed, MountedViewKeepsSession
<1>6. Accounted'
  <2>1. \A i \in Places : StopAt(i, slot) => i - 1 \in Places' /\ StopAt(i - 1, slot)'
    BY <1>1, ServedPlaces DEF StopAt, PauseAt
  <2> QED BY <1>1, <1>2, <2>1 DEF GameIInv, Accounted
<1>7. ButtonIsLast'
  <2>1. CASE mounted = None
    BY <1>2, <2>1 DEF ButtonIsLast
  <2>2. CASE mounted # None /\ w # mounted
    <3>1. ~PauseAt(1, mounted) /\ (slot # None => owner[slot] # mounted)
      BY <1>1, <1>4, <2>2 DEF PauseAt
    <3> QED BY <1>1, <1>2, <2>2, <3>1, ButtonShifts
  <2>3. CASE mounted # None /\ w = mounted
    <3>1. \A i \in Places' : i + 1 \in Places /\ requests'[i] = requests[i + 1] /\ i \in Nat
      BY <1>1, ServedPlaces
    <3>2. \A i \in Places : PauseAt(i, mounted) /\ i # 1 =>
            i - 1 \in Places' /\ PauseAt(i - 1, mounted)'
      BY <1>1, <1>2, ServedPlaces DEF PauseAt
    <3>3. \A i \in Places' :
            PauseAt(i, mounted)' /\ (\A j \in Places' : j > i => ~PauseAt(j, mounted)')
              => requests'[i].on = uiPaused
      <4> SUFFICES ASSUME NEW i \in Places', PauseAt(i, mounted)',
                          \A j \in Places' : j > i => ~PauseAt(j, mounted)'
                   PROVE  requests'[i].on = uiPaused
        OBVIOUS
      <4>1. i + 1 \in Places /\ PauseAt(i + 1, mounted)
        BY <1>2, <3>1 DEF PauseAt
      <4>2. \A j \in Places : j > i + 1 => ~PauseAt(j, mounted)
        BY <1>1, <3>1, <3>2, ServedPlaces
      <4> QED BY <2>3, <3>1, <4>1, <4>2 DEF GameIInv, ButtonIsLast
    <3>4. ASSUME \A i \in Places' : ~PauseAt(i, mounted)'
          PROVE  /\ \A i \in Places' : ~StartAt(i, mounted)'
                 /\ slot # None => slotPaused' = uiPaused
      <4>1. \A i \in Places : i # 1 => ~PauseAt(i, mounted)
        BY <3>2, <3>4
      <4>2. requests[1].on = uiPaused
        BY <1>1, <2>3, <4>1, ServedPlaces DEF GameIInv, ButtonIsLast
      <4>3. \A i \in Places' : ~StartAt(i, mounted)'
        <5>1. \A i \in Places' : requests'[i].cmd = "start" =>
                w < requests'[i].view /\ requests'[i].view \in Nat /\ w \in Nat
          BY <1>1, ServedOrder, ServedPlaces, RequestFields, Numbers DEF GameIInv, PauseAt
        <5> QED BY <1>2, <2>3, <5>1 DEF StartAt
      <4> QED BY <1>1, <4>2, <4>3
    <3> QED BY <1>1, <1>2, <3>3, <3>4 DEF ButtonIsLast, PauseAt, StartAt
  <2> QED BY <2>1, <2>2, <2>3
<1> QED BY <1>3, <1>5, <1>6, <1>7

-----------------------------------------------------------------------------
(* The page and the host keep agreeing about which game runs, through any    *)
(* number of views: the inductive invariant of the view's life, with the     *)
(* order of the queue it rests on (GameView's effect, mountGameSession,      *)
(* start_session, stop_session, set_paused).                                 *)
THEOREM GameInvariantHolds == Spec => []GameIInv
<1>1. Init => GameIInv
  <2> SUFFICES ASSUME Init PROVE GameIInv
    OBVIOUS
  <2>1. TypeOK
    <3>1. 0 \in 0 .. MaxViews /\ 1 \in 1 .. MaxViews + 1
      BY ViewsAssumption
    <3>2. <<>> \in Seq(Requests) /\ <<>> \in Seq(Views)
      BY EmptySeq
    <3> QED BY <3>1, <3>2 DEF Init, TypeOK
  <2>2. /\ Len(requests) = 0 /\ Places = {} /\ Len(owner) = 0 /\ mounted = None
        /\ slot = None /\ results = {} /\ \A v \in Views : handle[v] = None
    BY DEF Init, Places
  <2>3. Bounds
    BY <2>2 DEF Init, Bounds
  <2> QED BY <2>1, <2>2, <2>3
          DEF GameIInv, QueueOrder, OwnGame, StartOnce, OwnersKnown, StopsAreLate,
              Undisturbed, MountedViewKeepsSession, Accounted, ButtonIsLast
<1>2. GameIInv /\ [Next]_vars => GameIInv'
  <2> SUFFICES ASSUME GameIInv, [Next]_vars PROVE GameIInv'
    OBVIOUS
  <2>1. TypeOK'
    BY TypeKept
  <2>2. CASE UNCHANGED vars
    <3>1. /\ UNCHANGED <<mounted, born, handle, uiPaused, requests, results, slot>>
          /\ UNCHANGED <<slotPaused, nextId, owner>> /\ Places' = Places
      BY <2>2 DEF vars, page, host, Places
    <3>2. Bounds' /\ QueueOrder' /\ OwnGame' /\ StartOnce' /\ OwnersKnown'
      BY <3>1 DEF GameIInv, Bounds, QueueOrder, OwnGame, Reaches, StartAt, PauseAt,
                  StartOnce, OwnersKnown
    <3>3. StopsAreLate' /\ Undisturbed' /\ Accounted' /\ ButtonIsLast'
      BY <3>1 DEF GameIInv, StopsAreLate, StopAt, Undisturbed, MountedViewKeepsSession,
                  Accounted, ButtonIsLast, PauseAt, StartAt
    <3> QED BY <2>1, <3>2, <3>3 DEF GameIInv
  <2>3. CASE Mount
    BY <2>1, <2>3, MountKeeps DEF GameIInv
  <2>4. CASE MountFails
    BY <2>1, <2>4, MountFailsKeeps DEF GameIInv
  <2>5. CASE Unmount
    BY <2>1, <2>5, UnmountKeeps DEF GameIInv
  <2>6. CASE TogglePause
    BY <2>1, <2>6, TogglePauseKeeps DEF GameIInv
  <2>7. CASE StartResolves
    BY <2>1, <2>7, StartResolvesKeeps DEF GameIInv
  <2>8. CASE StartRejects
    BY <2>1, <2>8, StartRejectsKeeps DEF GameIInv
  <2>9. CASE ServeStart
    BY <2>1, <2>9, ServeStartKeeps DEF GameIInv
  <2>10. CASE ServeStartFails
    BY <2>1, <2>10, ServeStartFailsKeeps DEF GameIInv
  <2>11. CASE ServeStop
    BY <2>1, <2>11, ServeStopKeeps DEF GameIInv
  <2>12. CASE ServePause
    BY <2>1, <2>12, ServePauseKeeps DEF GameIInv
  <2> QED
    BY <2>2, <2>3, <2>4, <2>5, <2>6, <2>7, <2>8, <2>9, <2>10, <2>11, <2>12
    DEF Next, HostStep, PageStep
<1> QED BY <1>1, <1>2, PTL DEF Spec

(* A pause request is served while its own view's game is active, or none:   *)
(* the view's start stands before it and the next view's start behind it.    *)
THEOREM PauseReachesItsView == Spec => []PauseHitsItsOwnGame
<1>1. GameIInv => PauseHitsItsOwnGame
  <2> SUFFICES ASSUME GameIInv, requests # <<>>, Head(requests).cmd = "pause", slot # None
               PROVE  owner[slot] = Head(requests).view
    BY DEF PauseHitsItsOwnGame
  <2>1. requests \in Seq(Requests) /\ Len(requests) \in Nat /\ Len(requests) >= 1
        /\ Head(requests) = requests[1]
    BY EmptySeq, HeadTailProperties DEF GameIInv, TypeOK
  <2>2. 1 \in Places /\ PauseAt(1, requests[1].view) /\ requests[1].view \in Views
    BY <2>1, RequestFields DEF GameIInv, Places, PauseAt
  <2>3. Reaches(1 - 1, requests[1].view)
    BY <2>2 DEF GameIInv, OwnGame
  <2> QED BY <2>1, <2>3 DEF Reaches
<1> QED BY <1>1, GameInvariantHolds, PTL

(* The page and the host agree, however the requests and results of earlier  *)
(* views arrive late: the mounted view keeps its session, and when all has   *)
(* settled there is a game exactly if a view shows it, paused exactly if the *)
(* view says so.                                                             *)
THEOREM PageAndHostAgree == Spec => []ViewInvariant
<1>1. GameIInv => SettledAgrees
  <2> SUFFICES ASSUME GameIInv, requests = <<>>, results = {} PROVE SettledAgrees
    BY DEF SettledAgrees
  <2>1. Len(requests) = 0 /\ Places = {}
    BY DEF Places
  <2>2. CASE slot # None
    <3>1. mounted = owner[slot] /\ handle[mounted] = slot /\ owner[slot] \in Views
      BY <2>1, <2>2, Numbers DEF GameIInv, Accounted, Bounds
    <3>2. mounted # None /\ slotPaused = uiPaused
      BY <2>1, <2>2, <3>1, Numbers DEF GameIInv, ButtonIsLast
    <3> QED BY <2>2, <3>1, <3>2 DEF SettledAgrees
  <2>3. CASE slot = None
    BY <2>3 DEF GameIInv, Undisturbed, MountedViewKeepsSession, SettledAgrees
  <2> QED BY <2>2, <2>3
<1>2. GameIInv => ViewInvariant
  BY <1>1 DEF GameIInv, Undisturbed, ViewInvariant
<1> QED BY <1>2, GameInvariantHolds, PTL

-----------------------------------------------------------------------------
(***************************************************************************)
(* The keys of a game (InputPath).                                         *)
(*                                                                         *)
(* A press or release takes four hops, and each may lag.  The invariant    *)
(* looks ahead: WillBe says of each button's bit that the last request on  *)
(* its way for it, or the bit itself when none is, agrees with the key.    *)
(***************************************************************************)
ButtonRequests == [player : Players, button : Buttons, down : BOOLEAN]
Registers == [1 .. ButtonCount -> {0, 1}]
Counts == 0 .. ButtonCount
Latches == [held : SUBSET Buttons, reads : Counts]
Pads == [state : SUBSET Buttons, shift : Registers, strobe : BOOLEAN]

InputTypes ==
  /\ layout \in Layouts /\ pressed \subseteq Keys /\ attached \in BOOLEAN
  /\ sent \in Seq(ButtonRequests)
  /\ bitmap \in [Players -> SUBSET Buttons] /\ polled \in [Players -> SUBSET Buttons]
  /\ pads \in [Players -> Pads]
  /\ latched \in [Players -> Latches]
  /\ rebound \in BOOLEAN

(* Is the button one of a key that is down?                                  *)
IsHeld(p, b) == \E k \in pressed : b \in InvertMap(layout, p, k)

(* The requests on their way for a button, by their place in the queue.      *)
AsksFor(r, p, b) == r.player = p /\ r.button = b
Asked(p, b) == {i \in DOMAIN sent : AsksFor(sent[i], p, b)}

(* The bit will be as the key is: by the last request on its way for it, and *)
(* with none on its way it is.                                               *)
WillBe(p, b, held) ==
  /\ Asked(p, b) = {} => (b \in bitmap[p] <=> held)
  /\ \A i \in Asked(p, b) : (\A j \in Asked(p, b) : j <= i) => (sent[i].down <=> held)

BitsWillFollow == \A p \in Players, b \in Buttons : WillBe(p, b, IsHeld(p, b))

InputIInv ==
  /\ InputTypes
  /\ ~attached => pressed = {}
  /\ ~rebound => BitsWillFollow
  /\ \A p \in Players : pads[p].state = polled[p]
  /\ ReadsAreOneMoment

(* A player's key stands for one button at most.                             *)
LEMMA OneButton ==
  ASSUME NEW p, NEW k, NEW a \in InvertMap(layout, p, k), NEW b \in InvertMap(layout, p, k)
  PROVE  a = b
BY InputAssumption DEF InvertMap, ButtonsOf, Buttons

(* What a key fires: a request for each player it is bound for, of its button. *)
LEMMA FireEffect ==
  ASSUME InputTypes, NEW k, NEW down \in BOOLEAN
  PROVE  /\ Fire(k, down) \in Seq(ButtonRequests)
         /\ \A i \in DOMAIN Fire(k, down) :
              /\ Fire(k, down)[i].down = down
              /\ Fire(k, down)[i].button \in InvertMap(layout, Fire(k, down)[i].player, k)
         /\ \A p \in Players : \A b \in InvertMap(layout, p, k) :
              \E i \in DOMAIN Fire(k, down) : AsksFor(Fire(k, down)[i], p, b)
<1> DEFINE Request(p) == [player |-> p, button |-> CHOOSE b \in InvertMap(layout, p, k) : TRUE,
                          down |-> down]
           Bound(p) == p \in Players /\ InvertMap(layout, p, k) # {}
           First == IF Bound(1) THEN <<Request(1)>> ELSE << >>
           Second == IF Bound(2) THEN <<Request(2)>> ELSE << >>
<1>1. ASSUME NEW p, Bound(p)
      PROVE  /\ Request(p) \in ButtonRequests /\ Request(p).down = down
             /\ Request(p).player = p /\ Request(p).button \in InvertMap(layout, p, k)
  <2>1. (CHOOSE b \in InvertMap(layout, p, k) : TRUE) \in InvertMap(layout, p, k)
    BY <1>1
  <2>2. InvertMap(layout, p, k) \subseteq Buttons
    BY DEF InvertMap, ButtonsOf
  <2> QED BY <1>1, <2>1, <2>2 DEF ButtonRequests
<1>2. ASSUME NEW p, NEW b \in InvertMap(layout, p, k), Bound(p)
      PROVE  AsksFor(Request(p), p, b)
  BY <1>1, <1>2, OneButton DEF AsksFor
<1>3. Fire(k, down) = First \o Second
  BY DEF Fire
<1>4. \A p \in Players : p = 1 \/ p = 2
  BY InputAssumption
<1>5. \A p \in Players : \A b \in InvertMap(layout, p, k) : Bound(p)
  OBVIOUS
<1>6. ASSUME NEW x, NEW y
       PROVE  /\ <<x>> \o <<y>> = <<x, y>> /\ <<x>> \o << >> = <<x>>
              /\ << >> \o <<y>> = <<y>> /\ << >> \o << >> = << >>
  <2>1. <<x>> \in Seq({x, y}) /\ <<y>> \in Seq({x, y}) /\ << >> \in Seq({x, y})
        /\ <<x, y>> \in Seq({x, y})
    OBVIOUS
  <2>2. PICK s : s = <<x>> \o <<y>>
    OBVIOUS
  <2>3. s \in Seq({x, y}) /\ Len(s) = 2 /\ s[1] = x /\ s[2] = y
    BY <2>1, <2>2, ConcatProperties
  <2>4. s = <<x, y>>
    BY <2>1, <2>3, SeqEqual
  <2> QED BY <2>1, <2>2, <2>4, ConcatEmptySeq
<1>7. PICK f : f = Fire(k, down)
  OBVIOUS
<1>8. CASE Bound(1) /\ Bound(2)
  <2>1. First = <<Request(1)>> /\ Second = <<Request(2)>>
    BY <1>8
  <2>2. f = <<Request(1), Request(2)>>
    BY <1>3, <1>7, <1>6, <2>1, Zenon
  <2> HIDE DEF Request, Bound
  <2> QED BY <1>1, <1>2, <1>4, <1>5, <1>7, <1>8, <2>2
<1>9. CASE Bound(1) /\ ~Bound(2)
  <2>1. First = <<Request(1)>> /\ Second = << >>
    BY <1>9
  <2>2. f = <<Request(1)>>
    BY <1>3, <1>7, <1>6, <2>1, Zenon
  <2> HIDE DEF Request, Bound
  <2> QED BY <1>1, <1>2, <1>4, <1>5, <1>7, <1>9, <2>2
<1>10. CASE ~Bound(1) /\ Bound(2)
  <2>1. First = << >> /\ Second = <<Request(2)>>
    BY <1>10
  <2>2. f = <<Request(2)>>
    BY <1>3, <1>7, <1>6, <2>1, Zenon
  <2> HIDE DEF Request, Bound
  <2> QED BY <1>1, <1>2, <1>4, <1>5, <1>7, <1>10, <2>2
<1>11. CASE ~Bound(1) /\ ~Bound(2)
  <2>1. f = << >>
    BY <1>3, <1>7, <1>11
  <2> HIDE DEF Request, Bound
  <2> QED BY <1>1, <1>2, <1>4, <1>5, <1>7, <1>11, <2>1
<1> HIDE DEF Request, Bound
<1> QED BY <1>8, <1>9, <1>10, <1>11

(* The requests of detach, in any order: one for each button of a key that is down. *)
LEMMA ReleasesAreFinite ==
  InputTypes => Cardinality(Releases) \in Nat /\ Releases \subseteq ButtonRequests
<1> SUFFICES ASSUME InputTypes
             PROVE  Cardinality(Releases) \in Nat /\ Releases \subseteq ButtonRequests
  OBVIOUS
<1> DEFINE Place(r) == IF r.player = 1 THEN r.button ELSE r.button + ButtonCount
           f == [r \in Releases |-> Place(r)]
<1>1. Releases \subseteq [player : Players, button : Buttons, down : {FALSE}]
  BY DEF Releases
<1>2. \A r \in Releases : /\ r.player \in {1, 2} /\ r.button \in Nat /\ r.button < ButtonCount
                          /\ r = [player |-> r.player, button |-> r.button, down |-> FALSE]
  <2> SUFFICES ASSUME NEW r \in Releases
               PROVE  /\ r.player \in {1, 2} /\ r.button \in Nat /\ r.button < ButtonCount
                      /\ r = [player |-> r.player, button |-> r.button, down |-> FALSE]
    OBVIOUS
  <2>1. r \in [player : Players, button : Buttons, down : {FALSE}]
    BY <1>1
  <2>2. r.player \in Players /\ r.button \in Buttons
        /\ r = [player |-> r.player, button |-> r.button, down |-> FALSE]
    BY <2>1
  <2> QED BY <2>2, InputAssumption DEF Buttons
<1>3. ButtonCount \in Nat
  BY InputAssumption
<1>4. \A r \in Releases : Place(r) \in 0 .. 2 * ButtonCount
  BY <1>2, <1>3
<1>5. ASSUME NEW r \in Releases, NEW s \in Releases, Place(r) = Place(s) PROVE r = s
  <2>1. r.player = s.player /\ r.button = s.button
    BY <1>2, <1>3, <1>5
  <2> QED BY <1>2, <2>1
<1>6. f \in Injection(Releases, 0 .. 2 * ButtonCount)
  BY <1>4, <1>5 DEF Injection, IsInjective
<1>7. IsFiniteSet(0 .. 2 * ButtonCount)
  BY <1>3, FS_Interval
<1>8. IsFiniteSet(Releases)
  BY <1>6, <1>7, FS_Injection
<1> QED BY <1>1, <1>8, FS_CardinalityType DEF ButtonRequests

(* What detach and the key handlers do to a button: its last request, if it  *)
(* has one, says how its key is now; if it has none, the key is as it was.   *)
LEMMA WillBeAsSent ==
  ASSUME InputTypes, NEW more \in Seq(ButtonRequests), sent' = sent \o more, bitmap' = bitmap,
         NEW p, NEW b, NEW was \in BOOLEAN, NEW is \in BOOLEAN, WillBe(p, b, was),
         \A i \in DOMAIN more : AsksFor(more[i], p, b) => more[i].down = is,
         (\E i \in DOMAIN more : AsksFor(more[i], p, b)) \/ is = was
  PROVE  WillBe(p, b, is)'
<1>1. PICK n \in Nat, m \in Nat : n = Len(sent) /\ m = Len(more)
  BY LenProperties DEF InputTypes
<1>2. sent \in Seq(ButtonRequests) /\ DOMAIN sent = 1 .. n /\ DOMAIN more = 1 .. m
  BY <1>1, LenProperties DEF InputTypes
<1>3. DOMAIN sent' = 1 .. n + m
  BY <1>1, <1>2, ConcatProperties, LenProperties
<1>4. /\ \A i \in 1 .. n + m : i <= n => sent'[i] = sent[i]
      /\ \A i \in 1 .. n + m : i > n => sent'[i] = more[i - n]
  BY <1>1, <1>2, ConcatProperties
<1>5. CASE \E i \in DOMAIN more : AsksFor(more[i], p, b)
  <2>1. PICK i \in 1 .. m : AsksFor(more[i], p, b)
    BY <1>2, <1>5
  <2>2. n + i \in 1 .. n + m /\ n + i > n /\ (n + i) - n = i
    OBVIOUS
  <2>3. n + i \in Asked(p, b)'
    BY <1>3, <1>4, <2>1, <2>2 DEF Asked
  <2>4. ASSUME NEW k \in Asked(p, b)', \A j \in Asked(p, b)' : j <= k
        PROVE  sent'[k].down = is
    <3>1. n + i <= k /\ k \in 1 .. n + m /\ AsksFor(sent'[k], p, b)
      BY <1>3, <2>3, <2>4 DEF Asked
    <3>2. k > n /\ k - n \in 1 .. m
      BY <3>1
    <3> QED BY <1>2, <1>4, <3>1, <3>2
  <2> QED BY <2>3, <2>4 DEF WillBe
<1>6. CASE ~(\E i \in DOMAIN more : AsksFor(more[i], p, b))
  <2>1. \A i \in 1 .. n + m : i > n => i - n \in 1 .. m
    OBVIOUS
  <2>2. \A i \in 1 .. n + m : AsksFor(sent'[i], p, b) <=> i <= n /\ AsksFor(sent[i], p, b)
    <3> SUFFICES ASSUME NEW i \in 1 .. n + m
                 PROVE  AsksFor(sent'[i], p, b) <=> i <= n /\ AsksFor(sent[i], p, b)
      OBVIOUS
    <3>1. CASE i <= n
      BY <1>4, <3>1
    <3>2. CASE i > n
      <4>1. sent'[i] = more[i - n] /\ i - n \in DOMAIN more
        BY <1>2, <1>4, <2>1, <3>2
      <4>2. ~AsksFor(sent'[i], p, b)
        BY <1>6, <4>1
      <4>3. ~(i <= n)
        BY <3>2
      <4> QED BY <4>2, <4>3 DEF AsksFor
    <3>3. i <= n \/ i > n
      OBVIOUS
    <3> QED BY <3>1, <3>2, <3>3, Zenon
  <2>3. Asked(p, b)' = Asked(p, b)
    BY <1>2, <1>3, <2>2 DEF Asked
  <2>4. \A i \in Asked(p, b) : sent'[i] = sent[i]
    BY <1>2, <1>4 DEF Asked
  <2> QED BY <1>6, <2>3, <2>4 DEF WillBe
<1> QED BY <1>5, <1>6

(* Serving the oldest request leaves every bit on its way to the same. *)
LEMMA WillBeAsServed ==
  ASSUME InputTypes, SetButtonState, NEW p \in Players, NEW b, NEW held \in BOOLEAN,
         WillBe(p, b, held)
  PROVE  WillBe(p, b, held)'
<1>1. PICK n \in Nat : n = Len(sent) /\ n >= 1 /\ DOMAIN sent = 1 .. n /\ Head(sent) = sent[1]
  BY Removed DEF InputTypes, SetButtonState
<1>2. DOMAIN sent' = 1 .. n - 1 /\ \A i \in 1 .. n - 1 : sent'[i] = sent[i + 1]
  BY <1>1, Removed DEF InputTypes, SetButtonState
<1>3. PICK r : r = sent[1]
  OBVIOUS
<1>4. r \in ButtonRequests
  BY <1>1, <1>3, ElementOfSeq DEF InputTypes
<1>5. b \in bitmap'[p] <=> IF AsksFor(r, p, b) THEN r.down ELSE b \in bitmap[p]
  BY <1>1, <1>3, <1>4 DEF InputTypes, SetButtonState, AsksFor, ButtonRequests
<1>6. \A i \in 1 .. n - 1 : i \in Asked(p, b)' <=> i + 1 \in Asked(p, b)
  <2>1. \A i \in 1 .. n - 1 : i + 1 \in 1 .. n
    OBVIOUS
  <2> QED BY <1>1, <1>2, <2>1 DEF Asked
<1>7. \A j \in Asked(p, b) : j = 1 \/ (j - 1 \in 1 .. n - 1 /\ (j - 1) + 1 = j)
  BY <1>1 DEF Asked
<1>8. Asked(p, b)' \subseteq 1 .. n - 1 /\ Asked(p, b) \subseteq 1 .. n
  BY <1>1, <1>2 DEF Asked
<1>9. 1 \in Asked(p, b) <=> AsksFor(r, p, b)
  BY <1>1, <1>3 DEF Asked
<1>10. ASSUME Asked(p, b)' = {} PROVE b \in bitmap'[p] <=> held
  <2>1. \A j \in Asked(p, b) : j = 1
    BY <1>6, <1>7, <1>10
  <2>2. CASE AsksFor(r, p, b)
    <3>1. r.down <=> held
      BY <1>3, <1>9, <2>1, <2>2 DEF WillBe
    <3> QED BY <1>5, <2>2, <3>1
  <2>3. CASE ~AsksFor(r, p, b)
    <3>1. Asked(p, b) = {}
      BY <1>9, <2>1, <2>3
    <3> QED BY <1>5, <2>3, <3>1 DEF WillBe
  <2> QED BY <2>2, <2>3
<1>11. ASSUME NEW i \in Asked(p, b)', \A j \in Asked(p, b)' : j <= i
       PROVE  sent'[i].down <=> held
  <2>1. i \in 1 .. n - 1 /\ i + 1 \in Asked(p, b) /\ sent'[i] = sent[i + 1]
    BY <1>2, <1>6, <1>8, <1>11
  <2>2. ASSUME NEW j \in Asked(p, b) PROVE j <= i + 1
    <3>1. j = 1 \/ (j - 1 \in Asked(p, b)' /\ j \in Nat)
      BY <1>6, <1>7, <1>8, <2>2
    <3> QED BY <1>8, <1>11, <2>1, <3>1
  <2> QED BY <2>1, <2>2 DEF WillBe
<1> QED BY <1>10, <1>11 DEF WillBe

(* A read shifts: the bits move down, and a 1 comes in. *)
LEMMA ShiftedRegister ==
  ASSUME NEW reg \in Registers
  PROVE  /\ Append(Tail(reg), 1) \in Registers
         /\ \A i \in 1 .. ButtonCount :
              Append(Tail(reg), 1)[i] = IF i < ButtonCount THEN reg[i + 1] ELSE 1
<1>1. ButtonCount \in Nat /\ ButtonCount > 0
  BY InputAssumption
<1>2. PICK n \in Nat : n = ButtonCount /\ n > 0
  BY <1>1
<1>3. reg \in Seq({0, 1}) /\ Len(reg) = n /\ reg # << >>
  BY <1>2 DEF Registers
<1>4. PICK rest : rest = Tail(reg)
  OBVIOUS
<1>5. rest \in Seq({0, 1}) /\ Len(rest) = n - 1 /\ \A i \in 1 .. n - 1 : rest[i] = reg[i + 1]
  BY <1>3, <1>4, Removed
<1>6. PICK full : full = Append(rest, 1)
  OBVIOUS
<1>7. /\ full \in Seq({0, 1}) /\ Len(full) = n /\ full[n] = 1
      /\ \A i \in 1 .. n - 1 : full[i] = rest[i]
  BY <1>2, <1>5, <1>6, AppendProperties
<1>8. full \in Registers
  BY <1>2, <1>7, LenProperties DEF Registers
<1> QED BY <1>2, <1>4, <1>5, <1>6, <1>7, <1>8

(* The types hold at each step. *)
LEMMA InputTypesKept ==
  ASSUME InputTypes, [InputNext]_inputVars
  PROVE  InputTypes'
<1>1. ButtonCount \in Nat /\ ButtonCount > 0
  BY InputAssumption
<1>2. \A held \in SUBSET Buttons : Bits(held) \in Registers
  BY DEF Bits, Registers
<1>3. NewPad \in Pads
  BY DEF NewPad, Pads, Registers
<1>4. 0 \in Counts /\ \A n \in Counts : (IF n < ButtonCount THEN n + 1 ELSE n) \in Counts
  BY <1>1 DEF Counts
<1>5. CASE Attach
  <2>1. [p \in Players |-> NewPad] \in [Players -> Pads]
    BY <1>3
  <2>2. [p \in Players |-> [held |-> {}, reads |-> 0]] \in [Players -> Latches]
    BY <1>4 DEF Latches
  <2> QED BY <1>5, <2>1, <2>2 DEF Attach, InputTypes
<1>6. ASSUME NEW key \in Keys, KeyDown(key) \/ KeyUp(key) PROVE InputTypes'
  <2>1. PICK down \in BOOLEAN : sent' = sent \o Fire(key, down)
    BY <1>6 DEF KeyDown, KeyUp, SendButtons
  <2>2. sent' \in Seq(ButtonRequests)
    BY <2>1, FireEffect, ConcatProperties DEF InputTypes
  <2>3. pressed' \subseteq Keys
    BY <1>6 DEF KeyDown, KeyUp, InputTypes
  <2> QED BY <1>6, <2>2, <2>3 DEF KeyDown, KeyUp, InputTypes, portState
<1>7. CASE UpdateBindings
  BY <1>7 DEF UpdateBindings, InputTypes, portState
<1>8. CASE Detach
  <2>1. PICK order \in [1 .. Cardinality(Releases) -> Releases] : sent' = sent \o order
    BY <1>8 DEF Detach
  <2>2. order \in Seq(ButtonRequests)
    BY ReleasesAreFinite
  <2>3. sent' \in Seq(ButtonRequests)
    BY <2>1, <2>2, ConcatProperties DEF InputTypes
  <2> QED BY <1>8, <2>3 DEF Detach, InputTypes, portState
<1>9. CASE SetButtonState
  <2>1. Head(sent) \in ButtonRequests /\ sent' \in Seq(ButtonRequests)
    BY <1>9, HeadTailProperties DEF SetButtonState, InputTypes
  <2>2. bitmap' \in [Players -> SUBSET Buttons]
    BY <1>9, <2>1 DEF SetButtonState, InputTypes, ButtonRequests
  <2> QED BY <1>9, <2>1, <2>2 DEF SetButtonState, InputTypes, pageInput, portState
<1>10. ASSUME NEW p \in Players, ApplyInputsTo(p) PROVE InputTypes'
  <2>1. PICK pad : pad = SetButtons(pads[p], bitmap[p] \ polled[p], polled[p] \ bitmap[p])
    OBVIOUS
  <2>2. pad \in Pads
    BY <1>2, <2>1 DEF SetButtons, InputTypes, Pads
  <2>3. pads' \in [Players -> Pads]
    BY <1>10, <2>1, <2>2 DEF ApplyInputsTo, InputTypes
  <2>4. latched' \in [Players -> Latches]
    <3>1. pad.state \in SUBSET Buttons
      BY <2>2 DEF Pads
    <3>2. [held |-> pad.state, reads |-> 0] \in Latches
      BY <1>4, <3>1 DEF Latches
    <3> QED BY <1>10, <2>1, <3>2 DEF ApplyInputsTo, Strobed, InputTypes
  <2>5. polled' \in [Players -> SUBSET Buttons]
    BY <1>10 DEF ApplyInputsTo, InputTypes
  <2> QED BY <1>10, <2>3, <2>4, <2>5 DEF ApplyInputsTo, InputTypes, pageInput
<1>11. CASE WriteStrobe
  <2>1. pads' \in [Players -> Pads]
    <3>1. PICK on \in BOOLEAN :
            pads' = [p \in Players |->
              [pads[p] EXCEPT !.strobe = on, !.shift = IF on THEN Bits(pads[p].state) ELSE @]]
      BY <1>11 DEF WriteStrobe
    <3>2. ASSUME NEW p \in Players
          PROVE  [pads[p] EXCEPT !.strobe = on, !.shift = IF on THEN Bits(pads[p].state) ELSE @]
                   \in Pads
      <4>1. pads[p] \in Pads /\ Bits(pads[p].state) \in Registers
        BY <1>2 DEF InputTypes, Pads
      <4> QED BY <4>1 DEF Pads
    <3> QED BY <3>1, <3>2
  <2>2. latched' \in [Players -> Latches]
    <3>1. \A p \in Players : [held |-> pads[p].state, reads |-> 0] \in Latches
      BY <1>4 DEF InputTypes, Latches, Pads
    <3>2. PICK on \in BOOLEAN :
            latched' = [p \in Players |->
              IF on THEN [held |-> pads[p].state, reads |-> 0] ELSE latched[p]]
      BY <1>11 DEF WriteStrobe
    <3>3. \A p \in Players : latched[p] \in Latches
      BY DEF InputTypes
    <3> QED BY <3>1, <3>2, <3>3
  <2> QED BY <1>11, <2>1, <2>2 DEF WriteStrobe, InputTypes, pageInput
<1>12. ASSUME NEW p \in Players, ReadPort(p) PROVE InputTypes'
  <2>1. Append(Tail(pads[p].shift), 1) \in Registers
    BY <1>1, ShiftedRegister DEF InputTypes, Pads
  <2>2. pads' \in [Players -> Pads]
    BY <1>12, <2>1 DEF ReadPort, InputTypes, Pads
  <2>3. latched' \in [Players -> Latches]
    <3>1. ASSUME NEW l \in Latches
          PROVE  [l EXCEPT !.reads = IF @ < ButtonCount THEN @ + 1 ELSE @] \in Latches
      <4>1. PICK n : n = IF l.reads < ButtonCount THEN l.reads + 1 ELSE l.reads
        OBVIOUS
      <4>2. n \in Counts
        BY <1>4, <4>1 DEF Latches
      <4> QED BY <4>1, <4>2 DEF Latches
    <3>2. PICK l \in Latches : l = latched[p]
      BY DEF InputTypes
    <3>3. latched' = [latched EXCEPT ![p] =
                        [l EXCEPT !.reads = IF @ < ButtonCount THEN @ + 1 ELSE @]]
      BY <1>12, <3>2 DEF ReadPort
    <3> QED BY <3>1, <3>3 DEF InputTypes
  <2> QED BY <1>12, <2>2, <2>3 DEF ReadPort, InputTypes, pageInput
<1>13. CASE UNCHANGED inputVars
  BY <1>13 DEF inputVars, InputTypes, pageInput, portState
<1> QED BY <1>5, <1>6, <1>7, <1>8, <1>9, <1>10, <1>11, <1>12, <1>13 DEF InputNext

(* Nothing is on its way at first, and no key is down. *)
LEMMA InputBegins == InputInit => InputIInv
<1> SUFFICES ASSUME InputInit PROVE InputIInv
  OBVIOUS
<1>1. ButtonCount \in Nat /\ ButtonCount > 0 /\ 0 \in Counts
  BY InputAssumption DEF Counts
<1>2. NewPad \in Pads /\ NewPad.state = {}
  BY DEF NewPad, Pads, Registers
<1>3. [held |-> {}, reads |-> 0] \in Latches
  BY <1>1 DEF Latches
<1>4. sent \in Seq(ButtonRequests) /\ \A p, b : Asked(p, b) = {}
  BY EmptySeq DEF InputInit, Asked
<1>5. InputTypes
  BY <1>2, <1>3, <1>4 DEF InputInit, InputTypes
<1>6. BitsWillFollow
  BY <1>4 DEF InputInit, BitsWillFollow, WillBe, IsHeld
<1>7. ReadsAreOneMoment
  BY <1>1 DEF InputInit, ReadsAreOneMoment, NewPad, Bits
<1> QED BY <1>2, <1>5, <1>6, <1>7 DEF InputInit, InputIInv

(* Every step keeps each bit on its way to where its key is: a key event and *)
(* detach ask for what they change, the host serves in order, and a binding  *)
(* that changes under a key that is down is told by "rebound".               *)
LEMMA BitsFollow ==
  ASSUME InputIInv, [InputNext]_inputVars, ~rebound'
  PROVE  BitsWillFollow'
<1>1. InputTypes /\ pressed \subseteq Keys
  BY DEF InputIInv, InputTypes
<1>2. \A p, k : InvertMap(layout, p, k) \subseteq Buttons
  BY DEF InvertMap, ButtonsOf
<1>3. CASE Attach
  <2>1. \A p, b : Asked(p, b)' = {}
    BY <1>3, EmptySeq DEF Attach, Asked
  <2> QED BY <1>3, <2>1 DEF Attach, BitsWillFollow, WillBe, IsHeld
<1>4. ASSUME ~rebound, BitsWillFollow, NEW p \in Players, NEW b \in Buttons,
             NEW key \in Keys, KeyDown(key) \/ KeyUp(key)
      PROVE  WillBe(p, b, IsHeld(p, b))'
  <2>1. PICK down \in BOOLEAN :
          /\ sent' = sent \o Fire(key, down) /\ bitmap' = bitmap /\ layout' = layout
          /\ pressed' = IF down THEN pressed \cup {key} ELSE pressed \ {key}
    BY <1>4 DEF KeyDown, KeyUp, SendButtons
  <2>2. PICK more : more = Fire(key, down)
    OBVIOUS
  <2>3. /\ more \in Seq(ButtonRequests)
        /\ \A i \in DOMAIN more : /\ more[i].down = down
                                  /\ more[i].button \in InvertMap(layout, more[i].player, key)
        /\ b \in InvertMap(layout, p, key) => \E i \in DOMAIN more : AsksFor(more[i], p, b)
    BY <1>1, <1>4, <2>2, FireEffect
  <2>4. PICK was \in BOOLEAN, is \in BOOLEAN : was = IsHeld(p, b) /\ is = IsHeld(p, b)'
    BY DEF IsHeld
  <2>5. WillBe(p, b, was)
    BY <1>4, <2>4 DEF BitsWillFollow
  <2>6. CASE b \in InvertMap(layout, p, key)
    <3>1. \A k \in Keys : b \in InvertMap(layout, p, k) => k = key
      BY <2>6 DEF InvertMap, ButtonsOf
    <3>2. is = down
      BY <1>1, <2>1, <2>4, <2>6, <3>1 DEF IsHeld
    <3> QED BY <1>1, <2>1, <2>2, <2>3, <2>4, <2>5, <2>6, <3>2, WillBeAsSent
  <2>7. CASE b \notin InvertMap(layout, p, key)
    <3>1. is = was
      BY <2>1, <2>4, <2>7 DEF IsHeld
    <3>2. \A i \in DOMAIN more : ~AsksFor(more[i], p, b)
      BY <2>3, <2>7 DEF AsksFor
    <3> QED BY <1>1, <2>1, <2>2, <2>3, <2>4, <2>5, <3>1, <3>2, WillBeAsSent
  <2> QED BY <2>6, <2>7
<1>5. ASSUME ~rebound, BitsWillFollow, UpdateBindings PROVE BitsWillFollow'
  <2>1. \A p \in Players, k \in pressed : InvertMap(layout', p, k) = InvertMap(layout, p, k)
    BY <1>5 DEF UpdateBindings
  <2>4. \A p \in Players : \A b : IsHeld(p, b)' <=> IsHeld(p, b)
    BY <1>5, <2>1 DEF UpdateBindings, IsHeld
  <2>2. \A p, b : Asked(p, b)' = Asked(p, b)
    BY <1>5 DEF UpdateBindings, Asked
  <2> QED BY <1>5, <2>2, <2>4 DEF UpdateBindings, BitsWillFollow, WillBe
<1>6. ASSUME ~rebound, BitsWillFollow, Detach, NEW p \in Players, NEW b \in Buttons
      PROVE  WillBe(p, b, IsHeld(p, b))'
  <2>1. PICK more \in [1 .. Cardinality(Releases) -> Releases] :
          /\ \A r \in Releases : \E i \in DOMAIN more : more[i] = r
          /\ sent' = sent \o more
    BY <1>6 DEF Detach
  <2>2. more \in Seq(ButtonRequests) /\ \A i \in DOMAIN more : more[i] \in Releases
    <3>1. more \in Seq(ButtonRequests)
      BY <1>1, ReleasesAreFinite
    <3> QED BY <2>1, <3>1
  <2>3. PICK was \in BOOLEAN : was = IsHeld(p, b)
    BY DEF IsHeld
  <2>4. WillBe(p, b, was) /\ bitmap' = bitmap /\ IsHeld(p, b)' = FALSE
    BY <1>6, <2>3 DEF BitsWillFollow, Detach, IsHeld
  <2>5. \A i \in DOMAIN more : AsksFor(more[i], p, b) => more[i].down = FALSE /\ was = TRUE
    BY <2>2, <2>3 DEF Releases, AsksFor, IsHeld
  <2>6. was = TRUE => \E i \in DOMAIN more : AsksFor(more[i], p, b)
    <3> SUFFICES ASSUME was = TRUE PROVE \E i \in DOMAIN more : AsksFor(more[i], p, b)
      OBVIOUS
    <3>1. PICK r : r = [player |-> p, button |-> b, down |-> FALSE]
      OBVIOUS
    <3>2. r \in Releases /\ AsksFor(r, p, b)
      BY <2>3, <3>1 DEF Releases, IsHeld, AsksFor
    <3> QED BY <2>1, <3>2
  <2>7. PICK is \in BOOLEAN : is = FALSE /\ is = IsHeld(p, b)'
    BY <2>4
  <2> QED BY <1>1, <2>1, <2>2, <2>4, <2>5, <2>6, <2>7, WillBeAsSent
<1>7. ASSUME ~rebound, BitsWillFollow, SetButtonState, NEW p \in Players, NEW b \in Buttons
      PROVE  WillBe(p, b, IsHeld(p, b))'
  <2>1. PICK held \in BOOLEAN : held = IsHeld(p, b) /\ held = IsHeld(p, b)'
    BY <1>7 DEF SetButtonState, IsHeld, pageInput
  <2> QED BY <1>1, <1>7, <2>1, WillBeAsServed DEF BitsWillFollow
<1>8. ASSUME ~rebound, BitsWillFollow, UNCHANGED <<pageInput, sent, bitmap>>
      PROVE  BitsWillFollow'
  BY <1>8 DEF BitsWillFollow, WillBe, Asked, IsHeld, pageInput
<1>9. rebound' = rebound \/ Attach \/ UpdateBindings
  BY DEF InputNext, inputVars, Attach, KeyDown, KeyUp, UpdateBindings, Detach, SetButtonState,
         ApplyInputsTo, ReadPort, WriteStrobe
<1>10. Attach \/ (~rebound /\ BitsWillFollow)
  BY <1>9 DEF InputIInv, UpdateBindings
<1>11. (\E p \in Players : ApplyInputsTo(p) \/ ReadPort(p)) \/ WriteStrobe \/ UNCHANGED inputVars
         => UNCHANGED <<pageInput, sent, bitmap>>
  BY DEF ApplyInputsTo, ReadPort, WriteStrobe, inputVars
<1> QED BY <1>3, <1>4, <1>5, <1>6, <1>7, <1>8, <1>10, <1>11 DEF InputNext, BitsWillFollow

(* What the game reads is the strobe's moment: under the strobe the register *)
(* follows the buttons, without it only reads move it.                       *)
LEMMA PortsKept ==
  ASSUME InputIInv, [InputNext]_inputVars
  PROVE  (\A p \in Players : pads[p].state = polled[p])' /\ ReadsAreOneMoment'
<1>1. ButtonCount \in Nat /\ ButtonCount > 0
  BY InputAssumption
<1>2. InputTypes /\ ReadsAreOneMoment /\ \A p \in Players : pads[p].state = polled[p]
  BY DEF InputIInv
<1> DEFINE Shows(reg, l) == \A i \in 1 .. ButtonCount :
             reg[i] = IF i + l.reads <= ButtonCount THEN Bits(l.held)[i + l.reads] ELSE 1
<1>3. ReadsAreOneMoment <=> \A p \in Players : Shows(pads[p].shift, latched[p])
  BY DEF ReadsAreOneMoment
<1>4. ReadsAreOneMoment' <=> \A p \in Players : Shows(pads'[p].shift, latched'[p])
  BY DEF ReadsAreOneMoment
<1>5. \A held : Shows(Bits(held), [held |-> held, reads |-> 0])
  BY <1>1
<1>6. CASE UNCHANGED portState
  BY <1>2, <1>3, <1>4, <1>6 DEF portState
<1>7. CASE Attach
  <2>1. Shows(NewPad.shift, [held |-> {}, reads |-> 0]) /\ NewPad.state = {}
    BY <1>1 DEF NewPad, Bits
  <2> HIDE DEF Shows
  <2> QED BY <1>4, <1>7, <2>1 DEF Attach
<1>8. ASSUME NEW p \in Players, ApplyInputsTo(p)
      PROVE  (\A q \in Players : pads[q].state = polled[q])' /\ ReadsAreOneMoment'
  <2>1. PICK pad : pad = SetButtons(pads[p], bitmap[p] \ polled[p], polled[p] \ bitmap[p])
    OBVIOUS
  <2>2. pads[p] \in Pads /\ pads[p].state = polled[p]
    BY <1>2 DEF InputTypes
  <2>3. /\ pad.state = bitmap[p] /\ pad.strobe = pads[p].strobe
        /\ pad.shift = IF pads[p].strobe THEN Bits(pad.state) ELSE pads[p].shift
    BY <2>1, <2>2 DEF SetButtons, Pads
  <2>4. /\ polled' = [polled EXCEPT ![p] = bitmap[p]] /\ pads' = [pads EXCEPT ![p] = pad]
        /\ latched' = [latched EXCEPT ![p] =
             IF pad.strobe THEN [held |-> pad.state, reads |-> 0] ELSE @]
    BY <1>8, <2>1 DEF ApplyInputsTo, Strobed
  <2> HIDE DEF Shows
  <2>5. Shows(pads'[p].shift, latched'[p])
    BY <1>2, <1>3, <1>5, <2>3, <2>4 DEF InputTypes
  <2>6. \A q \in Players : q # p => Shows(pads'[q].shift, latched'[q])
    BY <1>2, <1>3, <2>4 DEF InputTypes
  <2>7. \A q \in Players : pads'[q].state = polled'[q]
    BY <1>2, <2>3, <2>4 DEF InputTypes
  <2> QED BY <1>4, <2>5, <2>6, <2>7
<1>9. CASE WriteStrobe
  <2>1. PICK on \in BOOLEAN :
          /\ pads' = [p \in Players |->
               [pads[p] EXCEPT !.strobe = on, !.shift = IF on THEN Bits(pads[p].state) ELSE @]]
          /\ latched' = [p \in Players |->
               IF on THEN [held |-> pads[p].state, reads |-> 0] ELSE latched[p]]
          /\ polled' = polled
    BY <1>9 DEF WriteStrobe
  <2> HIDE DEF Shows
  <2>2. ASSUME NEW p \in Players
        PROVE  pads'[p].state = polled'[p] /\ Shows(pads'[p].shift, latched'[p])
    <3>1. pads[p] \in Pads /\ pads[p].state = polled[p] /\ Shows(pads[p].shift, latched[p])
      BY <1>2, <1>3 DEF InputTypes
    <3>2. /\ pads'[p].state = pads[p].state
          /\ pads'[p].shift = IF on THEN Bits(pads[p].state) ELSE pads[p].shift
          /\ latched'[p] = IF on THEN [held |-> pads[p].state, reads |-> 0] ELSE latched[p]
      BY <2>1, <3>1 DEF Pads
    <3> QED BY <1>5, <2>1, <3>1, <3>2
  <2> QED BY <1>4, <2>2
<1>10. ASSUME NEW p \in Players, ReadPort(p)
       PROVE  (\A q \in Players : pads[q].state = polled[q])' /\ ReadsAreOneMoment'
  <2>1. PICK reg \in Registers : reg = pads[p].shift
    BY <1>2 DEF InputTypes, Pads
  <2>2. PICK l \in Latches : l = latched[p]
    BY <1>2 DEF InputTypes
  <2>3. PICK shifted : shifted = Append(Tail(reg), 1)
    OBVIOUS
  <2>4. PICK n : n = IF l.reads < ButtonCount THEN l.reads + 1 ELSE l.reads
    OBVIOUS
  <2>5. pads' = [pads EXCEPT ![p] = [pads[p] EXCEPT !.shift = shifted]]
        /\ latched' = [latched EXCEPT ![p] = [l EXCEPT !.reads = n]] /\ polled' = polled
    BY <1>10, <2>1, <2>2, <2>3, <2>4 DEF ReadPort
  <2>6. Shows(shifted, [l EXCEPT !.reads = n])
    <3>1. PICK reads \in Nat : reads = l.reads /\ reads <= ButtonCount
      BY <1>1 DEF Latches, Counts
    <3> PICK held : held = l.held
      OBVIOUS
    <3>2. [l EXCEPT !.reads = n].reads = n /\ [l EXCEPT !.reads = n].held = held
      BY <3>1 DEF Latches
    <3>3. \A i \in 1 .. ButtonCount :
            reg[i] = IF i + reads <= ButtonCount THEN Bits(held)[i + reads] ELSE 1
      BY <1>2, <1>3, <2>1, <2>2, <3>1
    <3>4. \A i \in 1 .. ButtonCount : shifted[i] = IF i < ButtonCount THEN reg[i + 1] ELSE 1
      BY <2>3, ShiftedRegister
    <3>5. ASSUME NEW i \in 1 .. ButtonCount
          PROVE  shifted[i] = IF i + n <= ButtonCount THEN Bits(held)[i + n] ELSE 1
      <4>1. CASE i < ButtonCount
        <5>1. i + 1 \in 1 .. ButtonCount
          BY <1>1, <4>1
        <5>2. shifted[i] = IF (i + 1) + reads <= ButtonCount
                           THEN Bits(held)[(i + 1) + reads] ELSE 1
          BY <3>3, <3>4, <4>1, <5>1
        <5>3. CASE reads < ButtonCount
          <6>1. (i + 1) + reads = i + n
            BY <1>1, <2>4, <3>1, <5>3
          <6> QED BY <5>2, <6>1
        <5>4. CASE reads = ButtonCount
          <6>1. ~((i + 1) + reads <= ButtonCount) /\ ~(i + n <= ButtonCount)
            BY <1>1, <2>4, <3>1, <5>4
          <6> QED BY <5>2, <6>1
        <5> QED BY <1>1, <3>1, <5>3, <5>4
      <4>2. CASE i = ButtonCount
        <5>1. ~(i + n <= ButtonCount)
          BY <1>1, <2>4, <3>1, <4>2
        <5> QED BY <1>1, <3>4, <4>2, <5>1
      <4> QED BY <1>1, <4>1, <4>2
    <3> QED BY <3>2, <3>5
  <2> HIDE DEF Shows
  <2>7. pads[p] \in Pads
    BY <1>2 DEF InputTypes
  <2>8. pads'[p].shift = shifted /\ pads'[p].state = pads[p].state
    BY <1>2, <2>5, <2>7 DEF InputTypes, Pads
  <2>9. Shows(pads'[p].shift, latched'[p])
    BY <1>2, <2>5, <2>6, <2>8 DEF InputTypes
  <2>10. \A q \in Players : q # p => Shows(pads'[q].shift, latched'[q])
    BY <1>2, <1>3, <2>5 DEF InputTypes
  <2>11. \A q \in Players : pads'[q].state = polled'[q]
    BY <1>2, <2>5, <2>8 DEF InputTypes
  <2> QED BY <1>4, <2>9, <2>10, <2>11
<1>11. \/ UNCHANGED portState \/ Attach \/ WriteStrobe
       \/ \E p \in Players : ApplyInputsTo(p) \/ ReadPort(p)
  BY DEF InputNext, inputVars, KeyDown, KeyUp, UpdateBindings, Detach, SetButtonState, portState
<1> HIDE DEF Shows
<1> QED BY <1>6, <1>7, <1>8, <1>9, <1>10, <1>11

(* Together; and a page that has left the game has no key down. *)
LEMMA InputKept ==
  ASSUME InputIInv, [InputNext]_inputVars PROVE InputIInv'
<1>1. InputTypes'
  BY InputTypesKept DEF InputIInv
<1>2. ~attached' => pressed' = {}
  <2>1. ~attached => pressed = {}
    BY DEF InputIInv
  <2>2. attached' = TRUE \/ pressed' = {} \/ UNCHANGED <<attached, pressed>>
    BY DEF InputNext, inputVars, pageInput, Attach, KeyDown, KeyUp, UpdateBindings,
           Detach, SetButtonState, ApplyInputsTo, ReadPort, WriteStrobe
  <2> QED BY <2>1, <2>2
<1> QED BY <1>1, <1>2, BitsFollow, PortsKept DEF InputIInv

(* From the key to the port: once the host has served what was sent, exactly *)
(* the buttons of the keys that are down are set, unless a key was bound     *)
(* anew while it was down, and a game's reads show the buttons of one        *)
(* moment, for any bindings, keys and number of buttons.                     *)
THEOREM InputInvariantHolds == InputSpec => []InputInvariant
<1>1. InputIInv => InputInvariant
  <2> SUFFICES ASSUME InputIInv PROVE ButtonsFollowKeys
    BY DEF InputInvariant, InputIInv
  <2> SUFFICES ASSUME sent = << >>, ~rebound, NEW p \in Players
               PROVE  bitmap[p] = UNION {InvertMap(layout, p, k) : k \in pressed}
    BY DEF InputIInv, ButtonsFollowKeys
  <2>1. \A b \in Buttons : b \in bitmap[p] <=> IsHeld(p, b)
    <3>1. \A b : Asked(p, b) = {}
      BY EmptySeq DEF Asked
    <3> QED BY <3>1 DEF InputIInv, BitsWillFollow, WillBe
  <2>2. bitmap[p] \subseteq Buttons /\ \A k : InvertMap(layout, p, k) \subseteq Buttons
    BY DEF InputIInv, InputTypes, InvertMap, ButtonsOf
  <2> QED BY <2>1, <2>2 DEF IsHeld
<1> QED BY <1>1, InputBegins, InputKept, PTL DEF InputSpec
=============================================================================
