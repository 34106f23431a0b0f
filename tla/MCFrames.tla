------------------------------- MODULE MCFrames -------------------------------
(***************************************************************************)
(* One instance of what a frame has to do with time and with sound: the    *)
(* pacer, which decides when the next one is due, the core, which decides  *)
(* when one is done, the APU, which makes a frame's samples, and the ring, *)
(* which takes them to the device.  A behaviour is a behaviour of the part *)
(* in focus; the others have not begun.  They share no variable: to the    *)
(* pacer a frame is one step, however the core got through it, and to the  *)
(* ring a sample is a number, for which the APU never waits.               *)
(***************************************************************************)
EXTENDS FramePacer, FrameTiming, AudioRing, Apu

VARIABLE focus      \* the part this behaviour is of

framesVars == <<focus, pacerVars, frameVars, vars, apuVars>>

FramesInit ==
    /\ focus \in {"pacer", "core", "ring", "apu"}
    /\ PacerInit /\ FrameInit /\ Init
    /\ ApuInit /\ (focus # "apu" => unit = "frame")

FramesNext ==
    /\ \/ focus = "pacer" /\ PacerNext /\ UNCHANGED <<frameVars, vars, apuVars>>
       \/ focus = "core" /\ FrameNext /\ UNCHANGED <<pacerVars, vars, apuVars>>
       \/ focus = "ring" /\ Next /\ UNCHANGED <<pacerVars, frameVars, apuVars>>
       \/ focus = "apu" /\ ApuNext /\ UNCHANGED <<pacerVars, frameVars, vars>>
    /\ UNCHANGED focus

FramesSpec == FramesInit /\ [][FramesNext]_framesVars

-----------------------------------------------------------------------------
(* The frame counter's events, in cycles; in the source they are thousands   *)
(* apart.                                                                    *)
MCEvents == <<2, 4, 6, 9, 12>>
=============================================================================
