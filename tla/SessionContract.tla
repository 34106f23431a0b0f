-------------------------- MODULE SessionContract ---------------------------
(***************************************************************************)
(* What a runtime Session promises to the host that owns it, whatever the  *)
(* threads inside do (crates/nessie-runtime/src/session.rs): one game      *)
(* plays until it ends; an orderly end leaves the game's final battery     *)
(* RAM in the slot, a panic leaves the slot empty; a stop, wait or drop    *)
(* returns only after the end, and nothing changes after that.             *)
(***************************************************************************)
CONSTANTS Contents, HasBattery, None

VARIABLES
  alive,     \* the emulation thread runs
  ram,       \* the game's battery RAM
  slot,      \* the battery slot the host reads
  returned   \* the call that joined the thread has returned

contractVars == <<alive, ram, slot, returned>>

Init ==
  /\ alive = TRUE /\ returned = FALSE
  /\ ram \in Contents /\ slot = None

(* The game plays, and may write its RAM. *)
Play ==
  /\ alive /\ ram' \in Contents
  /\ UNCHANGED <<alive, slot, returned>>

(* The thread leaves its loop: the slot holds the last RAM. *)
End ==
  /\ alive /\ alive' = FALSE
  /\ slot' = IF HasBattery THEN ram ELSE None
  /\ UNCHANGED <<ram, returned>>

(* The thread unwinds: no snapshot is taken. *)
Fail ==
  /\ alive /\ alive' = FALSE
  /\ UNCHANGED <<ram, slot, returned>>

(* The joining call returns. *)
Return ==
  /\ ~alive /\ ~returned /\ returned' = TRUE
  /\ UNCHANGED <<alive, ram, slot>>

Next == Play \/ End \/ Fail \/ Return

ContractSpec == Init /\ [][Next]_contractVars
=============================================================================
