------------------------------ MODULE GameView ------------------------------
(***************************************************************************)
(* The game view of the frontend (app/src/routes/GameView.tsx, with        *)
(* mountGameSession of app/src/emu/session.ts) against the host's session  *)
(* slot (app/src-tauri/src/commands/emulator.rs).  A view's effect starts  *)
(* a session when it is mounted and stops it when it is unmounted; both    *)
(* are requests the host's main thread serves in the order they were sent, *)
(* while their results come back to the page in any order.  The user may   *)
(* leave a view while its start is still in flight.                        *)
(*                                                                         *)
(* Here a command of the host is one step; HostSession has its parts.      *)
(***************************************************************************)
EXTENDS Integers, Sequences, FiniteSets

CONSTANTS
  MaxViews,    \* bound on the times the effect runs
  MaxToggles,  \* bound on the pause requests in flight
  None         \* no view, no session

ASSUME ViewsAssumption ==
  MaxViews \in Nat \ {0} /\ MaxToggles \in Nat /\ None \notin Nat

Views == 1 .. MaxViews

VARIABLES
  mounted,    \* the view on the page, or None
  born,       \* views whose effect has run so far
  handle,     \* per view: the id of the session its start resolved to, or None
  uiPaused,   \* what the mounted view shows on its pause button
  requests,   \* IPC requests the host has yet to serve, oldest first
  results,    \* results of starts the page has yet to handle
  slot,       \* the host's active session: its id, or None
  slotPaused, \* the active session's pause flag
  nextId,     \* AppState.next_session_id
  owner       \* history: the view whose request started session id

page == <<mounted, born, handle, uiPaused>>
host == <<slot, slotPaused, nextId, owner>>
vars == <<page, requests, results, host>>

Init ==
  /\ mounted = None /\ born = 0
  /\ handle = [v \in Views |-> None]
  /\ uiPaused = FALSE /\ requests = <<>> /\ results = {}
  /\ slot = None /\ slotPaused = FALSE /\ nextId = 1 /\ owner = <<>>

Send(request) == requests' = Append(requests, request)

Start(v) == [cmd |-> "start", view |-> v]
StopOf(id) == [cmd |-> "stop", id |-> id]
Pause(v, b) == [cmd |-> "pause", view |-> v, on |-> b]

-----------------------------------------------------------------------------
(* The page. *)

(* The effect runs: mountGameSession sends start_session. *)
Mount ==
  /\ mounted = None /\ born < MaxViews
  /\ born' = born + 1 /\ mounted' = born + 1
  /\ uiPaused' = FALSE
  /\ Send(Start(born + 1))
  /\ UNCHANGED <<handle, results, host>>

(* The renderer cannot be set up: mountGameSession rejects at once, before   *)
(* the user can do anything, nothing is sent and the view goes back.         *)
MountFails ==
  /\ mounted = None /\ born < MaxViews
  /\ born' = born + 1 /\ uiPaused' = FALSE
  /\ UNCHANGED <<mounted, handle, requests, results, host>>

(* session.stop() names its own session.                                     *)
StopSession(id) == Send(StopOf(id))

(* The effect's cleanup: cancelled is set, and a session that has arrived is *)
(* stopped.  One that is still being started is left to StartResolves.       *)
Unmount ==
  /\ mounted # None
  /\ mounted' = None
  /\ IF handle[mounted] # None
     THEN StopSession(handle[mounted])
     ELSE UNCHANGED requests
  /\ UNCHANGED <<born, handle, uiPaused, results, host>>

(* A slip: a start that resolves too late is ignored. *)
LateResultIgnored(v, id) ==
  /\ handle' = [handle EXCEPT ![v] = id]
  /\ UNCHANGED requests

(* mountGameSession resolves.  A view that has gone meanwhile stops its      *)
(* session at once; the mounted one keeps it.                                *)
TakeResult(v, id) ==
  IF mounted = v
  THEN /\ handle' = [handle EXCEPT ![v] = id]
       /\ UNCHANGED requests
  ELSE StopSession(id) /\ UNCHANGED handle

StartResolves ==
  \E r \in results :
    /\ r.id # None
    /\ results' = results \ {r}
    /\ TakeResult(r.view, r.id)
    /\ UNCHANGED <<mounted, born, uiPaused, host>>

(* mountGameSession rejects: the mounted view goes back to the library.      *)
StartRejects ==
  \E r \in results :
    /\ r.id = None
    /\ results' = results \ {r}
    /\ mounted' = IF mounted = r.view THEN None ELSE mounted
    /\ UNCHANGED <<born, handle, uiPaused, requests, host>>

(* The pause button, which the view offers before its session has started.   *)
TogglePause ==
  /\ mounted # None
  /\ Cardinality({i \in DOMAIN requests : requests[i].cmd = "pause"}) < MaxToggles
  /\ uiPaused' = ~uiPaused
  /\ Send(Pause(mounted, ~uiPaused))
  /\ UNCHANGED <<mounted, born, handle, results, host>>

-----------------------------------------------------------------------------
(* The host's main thread serves the oldest request. *)

Serve(cmd) ==
  /\ requests # <<>> /\ Head(requests).cmd = cmd
  /\ requests' = Tail(requests)

(* start_session: whatever was active is stopped; the new session gets the   *)
(* next id, is not paused, and replaces it.                                  *)
ServeStart ==
  /\ Serve("start")
  /\ LET v == Head(requests).view IN
       /\ slot' = nextId /\ slotPaused' = FALSE /\ nextId' = nextId + 1
       /\ owner' = Append(owner, v)
       /\ results' = results \cup {[view |-> v, id |-> nextId]}
  /\ UNCHANGED page

(* A slip: the active session is only stopped by a start that succeeds. *)
ServeStartFailsFirst ==
  /\ Serve("start")
  /\ results' = results \cup {[view |-> Head(requests).view, id |-> None]}
  /\ UNCHANGED <<page, host>>

(* start_session fails after stopping what was active. *)
ServeStartFails ==
  /\ Serve("start")
  /\ slot' = None
  /\ results' = results \cup {[view |-> Head(requests).view, id |-> None]}
  /\ UNCHANGED <<page, slotPaused, nextId, owner>>

(* A slip: any stop request stops the active session. *)
StopMatchesAny(id) == slot # None

(* stop_session_matching's test. *)
StopMatches(id) == slot # None /\ id = slot

ServeStop ==
  /\ Serve("stop")
  /\ slot' = IF StopMatches(Head(requests).id) THEN None ELSE slot
  /\ UNCHANGED <<page, results, slotPaused, nextId, owner>>

(* set_paused reaches the active session, whichever view sent it.            *)
ServePause ==
  /\ Serve("pause")
  /\ slotPaused' = IF slot = None THEN slotPaused ELSE Head(requests).on
  /\ UNCHANGED <<page, results, slot, nextId, owner>>

HostStep == ServeStart \/ ServeStartFails \/ ServeStop \/ ServePause
PageStep == StartResolves \/ StartRejects

Next == Mount \/ MountFails \/ Unmount \/ TogglePause \/ HostStep \/ PageStep

(* The main thread serves what was sent, and promises settle. *)
Spec == Init /\ [][Next]_vars /\ WF_vars(HostStep) /\ WF_vars(PageStep)

-----------------------------------------------------------------------------
Requests ==
  [cmd : {"start"}, view : Views] \cup [cmd : {"stop"}, id : Views]
    \cup [cmd : {"pause"}, view : Views, on : BOOLEAN]

TypeOK ==
  /\ mounted \in Views \cup {None} /\ born \in 0 .. MaxViews
  /\ handle \in [Views -> Views \cup {None}]
  /\ uiPaused \in BOOLEAN /\ requests \in Seq(Requests)
  /\ results \subseteq [view : Views, id : Views \cup {None}]
  /\ slot \in Views \cup {None} /\ slotPaused \in BOOLEAN
  /\ nextId \in 1 .. MaxViews + 1 /\ owner \in Seq(Views)

(* The session of the view on the page is never stopped or replaced behind   *)
(* its back: not by the late stop of an earlier view, and not by the late    *)
(* result of an earlier start.                                               *)
MountedViewKeepsSession ==
  mounted # None /\ handle[mounted] # None => slot = handle[mounted]

(* A pause request is always served while the session of the view that sent  *)
(* it is active, or while none is: it never freezes another view's game,     *)
(* although it does not say which session it means.                          *)
PauseHitsItsOwnGame ==
  requests # <<>> /\ Head(requests).cmd = "pause" /\ slot # None
    => owner[slot] = Head(requests).view

(* When nothing is in flight, the host runs a game exactly if a view shows   *)
(* it, and pauses it exactly if the view says so.                            *)
SettledAgrees ==
  requests = <<>> /\ results = {} =>
    /\ slot = IF mounted = None THEN None ELSE handle[mounted]
    /\ slot # None => slotPaused = uiPaused

(* The page and the host agree, while requests and results are in flight and *)
(* when they have settled (GameView's effect, mountGameSession).             *)
ViewInvariant == TypeOK /\ MountedViewKeepsSession /\ SettledAgrees

(* A game whose view has gone is always stopped or replaced in the end.      *)
NoOrphan ==
  \A i \in Views :
    (slot = i /\ mounted # owner[i]) ~> (slot # i)
=============================================================================
