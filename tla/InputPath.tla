------------------------------ MODULE InputPath ------------------------------
(***************************************************************************)
(* A key on its way to a game: the page's InputController                  *)
(* (app/src/emu/inputController.ts) turns key events into button requests, *)
(* the host's main thread sets bits of the session's bitmaps               *)
(* (commands/emulator.rs, session.rs), the emulation thread copies changed *)
(* bits into the controllers between frames (nessie-runtime/session.rs),   *)
(* and the game strobes and reads the ports (nessie-core/controller.rs).   *)
(*                                                                         *)
(* The keyboard may send any events: repeats, and releases that never came *)
(* because the window had lost the focus, are among them.                  *)
(***************************************************************************)
EXTENDS Integers, Sequences, FiniteSets

CONSTANTS
    Players,      \* the ports
    ButtonCount,  \* buttons of a controller; Button::bit numbers them from 0
    Layouts,      \* bindings: per player, the key of each button
    Keys,         \* the codes of the keys on the keyboard
    MaxSent       \* bound: requests the host has yet to serve

Buttons == 0 .. ButtonCount - 1

ASSUME InputAssumption ==
    /\ Players \subseteq {1, 2} /\ ButtonCount \in Nat \ {0} /\ MaxSent \in Nat
    /\ Layouts \subseteq [Players -> [Buttons -> Keys]]

VARIABLES
    layout,   \* the bindings the controller was given last
    pressed,  \* the keys it takes to be down
    attached, \* does it listen?
    sent,     \* set_button_state requests on their way, oldest first
    bitmap,   \* per player: the buttons set in the session's bitmap
    polled,   \* per player: the bitmap at the emulation thread's last look
    pads,     \* per player: the controller
    latched,  \* history, per player: the buttons at the last strobe, and the reads since
    rebound   \* history: bindings of a key changed while it was down

pageInput == <<layout, pressed, attached>>
portState == <<polled, pads, latched>>
inputVars == <<pageInput, sent, bitmap, portState, rebound>>

NewPad == [state |-> {}, shift |-> [i \in 1 .. ButtonCount |-> 0], strobe |-> FALSE]

Bits(held) == [i \in 1 .. ButtonCount |-> IF i - 1 \in held THEN 1 ELSE 0]

InputInit ==
    /\ layout \in Layouts /\ pressed = {} /\ attached = FALSE
    /\ sent = << >>
    /\ bitmap = [p \in Players |-> {}] /\ polled = [p \in Players |-> {}]
    /\ pads = [p \in Players |-> NewPad]
    /\ latched = [p \in Players |-> [held |-> {}, reads |-> 0]]
    /\ rebound = FALSE

-----------------------------------------------------------------------------
(* The page. *)

(* invertMap: the button a key stands for.  A key that two buttons share     *)
(* keeps the last of them.                                                   *)
ButtonsOf(map, player, key) == {b \in Buttons : map[player][b] = key}
InvertMap(map, player, key) ==
    LET all == ButtonsOf(map, player, key)
    IN  {b \in all : \A other \in all : other <= b}

BindsToAny(key) == \E p \in Players : InvertMap(layout, p, key) # {}

(* fire: one request for each player the key is bound for, in their order. *)
Fire(key, down) ==
    LET request(p) == [player |-> p, button |-> CHOOSE b \in InvertMap(layout, p, key) : TRUE,
                       down |-> down]
        bound(p) == p \in Players /\ InvertMap(layout, p, key) # {}
    IN  (IF bound(1) THEN <<request(1)>> ELSE << >>)
            \o (IF bound(2) THEN <<request(2)>> ELSE << >>)

SendButtons(requests) == /\ sent' = sent \o requests
                  /\ Len(sent') <= MaxSent

(* A session has started: a new controller attaches to the window, and       *)
(* bitmaps and pads are new.  The requests of an earlier view were served    *)
(* before this session's start was.                                          *)
Attach ==
    /\ ~attached /\ sent = << >>
    /\ attached' = TRUE /\ pressed' = {} /\ rebound' = FALSE
    /\ layout' \in Layouts
    /\ bitmap' = [p \in Players |-> {}] /\ polled' = [p \in Players |-> {}]
    /\ pads' = [p \in Players |-> NewPad]
    /\ latched' = [p \in Players |-> [held |-> {}, reads |-> 0]]
    /\ UNCHANGED sent

KeyDown(key) ==
    /\ attached /\ BindsToAny(key)
    /\ key \notin pressed           \* otherwise a repeat, and dropped
    /\ pressed' = pressed \cup {key}
    /\ SendButtons(Fire(key, TRUE))
    /\ UNCHANGED <<layout, attached, bitmap, portState, rebound>>

(* A slip: the release is sent, but the key is still taken to be down. *)
KeyUpStillPressed(key) ==
    /\ attached /\ BindsToAny(key) /\ key \in pressed
    /\ SendButtons(Fire(key, FALSE))
    /\ UNCHANGED <<pageInput, bitmap, portState, rebound>>

KeyUp(key) ==
    /\ attached /\ BindsToAny(key) /\ key \in pressed
    /\ pressed' = pressed \ {key}
    /\ SendButtons(Fire(key, FALSE))
    /\ UNCHANGED <<layout, attached, bitmap, portState, rebound>>

(* The settings' bindings changed while the view is on the page: an answer   *)
(* to a save that was sent before the game began.                            *)
UpdateBindings ==
    /\ attached
    /\ \E map \in Layouts :
        /\ layout' = map
        /\ rebound' = (rebound \/ \E p \in Players, k \in pressed :
                                    InvertMap(map, p, k) # InvertMap(layout, p, k))
    /\ UNCHANGED <<pressed, attached, sent, bitmap, portState>>

(* The releases of the keys that are down. *)
Releases ==
    {r \in [player : Players, button : Buttons, down : {FALSE}] :
        \E key \in pressed : r.button \in InvertMap(layout, r.player, key)}

(* detach: every key still down is released, in whatever order they had gone *)
(* down, and a key for both players fires for the first, then the second.    *)
Detach ==
    /\ attached
    /\ \E order \in [1 .. Cardinality(Releases) -> Releases] :
        /\ \A r \in Releases : \E i \in DOMAIN order : order[i] = r
        /\ LET key(i) == layout[order[i].player][order[i].button]
           IN  \A i, j \in DOMAIN order :
                 i < j /\ key(i) = key(j) => j = i + 1 /\ order[i].player < order[j].player
        /\ sent' = sent \o order
    /\ attached' = FALSE /\ pressed' = {}
    /\ UNCHANGED <<layout, bitmap, portState, rebound>>

-----------------------------------------------------------------------------
(* The host and the emulation thread. *)

(* set_button_state: the button's bit is set or cleared in one step. *)
SetButtonState ==
    /\ sent # << >>
    /\ LET r == Head(sent)
       IN  bitmap' = [bitmap EXCEPT ![r.player] =
                        IF r.down THEN @ \cup {r.button} ELSE @ \ {r.button}]
    /\ sent' = Tail(sent)
    /\ UNCHANGED <<pageInput, portState, rebound>>

(* Controller::set_button, for each button that went down and each that came *)
(* up: a bit each, so their order shows in nothing.  The shift register only *)
(* follows under the strobe.                                                 *)
SetButtons(pad, downs, ups) ==
    LET state == (pad.state \cup downs) \ ups
    IN  [pad EXCEPT !.state = state, !.shift = IF pad.strobe THEN Bits(state) ELSE @]

Strobed(p, pad) ==
    latched' = [latched EXCEPT ![p] = IF pad.strobe THEN [held |-> pad.state, reads |-> 0] ELSE @]

(* apply_inputs, one player: only bits that differ from those of the last    *)
(* look are passed on.                                                       *)
ApplyInputsTo(p) ==
    /\ bitmap[p] # polled[p]
    /\ polled' = [polled EXCEPT ![p] = bitmap[p]]
    /\ LET pad == SetButtons(pads[p], bitmap[p] \ polled[p], polled[p] \ bitmap[p])
       IN  pads' = [pads EXCEPT ![p] = pad] /\ Strobed(p, pad)
    /\ UNCHANGED <<pageInput, sent, bitmap, rebound>>

-----------------------------------------------------------------------------
(* The game. *)

(* A write to $4016 strobes both controllers. *)
WriteStrobe ==
    \E on \in BOOLEAN :
        /\ pads' = [p \in Players |->
             [pads[p] EXCEPT !.strobe = on, !.shift = IF on THEN Bits(pads[p].state) ELSE @]]
        /\ latched' = [p \in Players |->
             IF on THEN [held |-> pads[p].state, reads |-> 0] ELSE latched[p]]
        /\ UNCHANGED <<pageInput, sent, bitmap, polled, rebound>>

(* A read of $4016 or $4017: the lowest bit is given out, and a 1 moves in   *)
(* from above.  Under the strobe nothing moves.                              *)
ReadPort(p) ==
    /\ ~pads[p].strobe
    /\ pads' = [pads EXCEPT ![p].shift = Append(Tail(@), 1)]
    /\ latched' = [latched EXCEPT ![p].reads = IF @ < ButtonCount THEN @ + 1 ELSE @]
    /\ UNCHANGED <<pageInput, sent, bitmap, polled, rebound>>

InputNext ==
    \/ Attach \/ Detach \/ UpdateBindings
    \/ \E key \in Keys : KeyDown(key) \/ KeyUp(key)
    \/ SetButtonState
    \/ \E p \in Players : ApplyInputsTo(p) \/ ReadPort(p)
    \/ WriteStrobe

InputSpec == InputInit /\ [][InputNext]_inputVars

-----------------------------------------------------------------------------
(* Once the host has served what was sent, exactly the buttons of the keys    *)
(* that are down are set, for both players, and the controller has what the   *)
(* emulation thread saw last; with no key down, and after the view was left,  *)
(* nothing is stuck.  The one exception is a key that was bound anew while it *)
(* was down (inputController.ts handleKeyUp looks the release up in the new   *)
(* map).                                                                      *)
ButtonsFollowKeys ==
    /\ sent = << >> /\ ~rebound =>
        \A p \in Players : bitmap[p] = UNION {InvertMap(layout, p, k) : k \in pressed}
    /\ \A p \in Players : pads[p].state = polled[p]

(* What a game reads after a strobe are the buttons of one moment: a press or *)
(* release that arrives between two of its reads shows in none of them, and   *)
(* every read after the last button is a 1.                                   *)
ReadsAreOneMoment ==
    \A p \in Players :
        \A i \in 1 .. ButtonCount :
            pads[p].shift[i] =
                IF i + latched[p].reads <= ButtonCount
                THEN Bits(latched[p].held)[i + latched[p].reads] ELSE 1

(* From the key to the port. *)
InputInvariant == ButtonsFollowKeys /\ ReadsAreOneMoment
=============================================================================
