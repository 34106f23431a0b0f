------------------------------ MODULE MCFrontend ------------------------------
(***************************************************************************)
(* One instance of the four conversations between the page and its host:   *)
(* the game view's sessions, the keys on their way to a game, the library  *)
(* and collection views, and the settings.  A behaviour is a behaviour of  *)
(* the conversation in focus; the others have not begun.  They meet in the *)
(* host's main thread, which serves one command at a time and holds no     *)
(* state in common between them but the settings' running session, which   *)
(* SettingsPage models itself.                                             *)
(***************************************************************************)
EXTENDS GameView, InputPath, LibraryPage, SettingsPage, TLC

VARIABLE focus      \* the conversation this behaviour is of

frontendVars == <<focus, vars, inputVars, libraryPageVars, settingsVars>>

FrontendInit ==
    /\ focus \in {"views", "input", "library", "settings"}
    /\ Init
    /\ InputInit /\ (focus # "input" => layout = CHOOSE l \in Layouts : TRUE)
    /\ LibraryPageInit
    /\ SettingsInit /\ (focus # "settings" => saved = Nothing)

FrontendNext ==
    /\ \/ focus = "views" /\ Next /\ UNCHANGED <<inputVars, libraryPageVars, settingsVars>>
       \/ focus = "input" /\ InputNext /\ UNCHANGED <<vars, libraryPageVars, settingsVars>>
       \/ focus = "library" /\ LibraryPageNext /\ UNCHANGED <<vars, inputVars, settingsVars>>
       \/ focus = "settings" /\ SettingsNext /\ UNCHANGED <<vars, inputVars, libraryPageVars>>
    /\ UNCHANGED focus

(* The game view's fairness. *)
FrontendSpec ==
    FrontendInit /\ [][FrontendNext]_frontendVars /\ WF_vars(HostStep) /\ WF_vars(PageStep)

-----------------------------------------------------------------------------
(* Values of the constants. *)

(* The same key for a button of both players, and layouts that move a key. *)
MCLayouts ==
    { << (0 :> "k1") @@ (1 :> "k2"), (0 :> "k2") @@ (1 :> "k2") >>,
      << (0 :> "k2") @@ (1 :> "k2"), (0 :> "k2") @@ (1 :> "k2") >> }

MCDefaultMaps == << ("a" :> "k1") @@ ("b" :> "k2"), ("a" :> "k2") @@ ("b" :> "k1") >>
=============================================================================
