----------------------------- MODULE FrameTiming ----------------------------
(***************************************************************************)
(* How the core runs one frame (nessie-core/src/nes.rs): instructions of   *)
(* the CPU, each access of which runs the PPU's clock by three dots        *)
(* (bus.rs), the vertical blank and its NMI (ppu/mod.rs), and a program    *)
(* that reads and writes the PPU's registers at any of its accesses        *)
(* (cpu/mod.rs polls the NMI before each instruction).                     *)
(*                                                                         *)
(* The picture is smaller than 262 lines of 341 dots.  A program is any    *)
(* sequence of accesses; what it computes is left out, and so are the      *)
(* fetches, which ScanlineIrq models, and the IRQ.                         *)
(***************************************************************************)
EXTENDS Integers

CONSTANTS
  DotsPerScanline, ScanlinesPerFrame, VblankStart,  \* ppu/mod.rs:51-57
  Instructions,  \* how many cycles an instruction may take
  DmaStall,      \* cycles an OAM DMA takes, 513 in the code
  DmcStall,      \* cycles of the DMC fetches within one instruction
  SafetyLimit    \* cycles after which step_frame gives up, 200 000 in the code

PreRender       == ScanlinesPerFrame - 1
ResetCycles     == 5
InterruptCycles == 7

\* As in the code, the longest step is shorter than what follows the picture
\* and than what precedes it, and a frame is shorter than the limit.
ASSUME FrameAssumption ==
  /\ {DotsPerScanline, ScanlinesPerFrame, VblankStart, SafetyLimit} \subseteq Nat
  /\ {DmaStall, DmcStall} \subseteq Nat /\ Instructions \subseteq 1 .. 8
  /\ DotsPerScanline > 3 /\ VblankStart < PreRender
  /\ 3 * (8 + 2 * DmaStall + DmcStall) <= VblankStart * DotsPerScanline
  /\ 3 * SafetyLimit >= ScanlinesPerFrame * DotsPerScanline

VARIABLES
  ppu,        \* the PPU's clock and interrupt line; .frames and .pictures count
              \* frames done and pictures published since step_frame was called
  latched,    \* Nes.nmi_pending
  accesses,   \* accesses the instruction still makes
  stall,      \* cycles still to run after them
  canAccess,  \* what this cycle's access does to the PPU is still to come
  pc,         \* "host", in "frame" (step_frame) or in "reset"
  spent,      \* safety_cycles
  owed,       \* history: the NMI line has risen, a cycle has passed, no NMI yet
  fresh       \* history: it has risen by an access, no cycle has passed yet

cpu  == <<accesses, stall, canAccess>>
frameVars == <<ppu, latched, cpu, pc, spent, owed, fresh>>

(* from_ines: everything is new, and the reset sequence begins.              *)
FrameInit ==
  /\ ppu = [scanline |-> 0, cycle |-> 0, odd |-> FALSE, vblank |-> FALSE,
            enable |-> FALSE, rendering |-> FALSE, previous |-> FALSE, edge |-> FALSE,
            frames |-> 0, pictures |-> 0]
  /\ latched = FALSE
  /\ accesses = 0 /\ stall = ResetCycles /\ canAccess = FALSE
  /\ pc = "reset" /\ spent = 0 /\ owed = FALSE /\ fresh = FALSE

-----------------------------------------------------------------------------
(* The PPU, dot by dot. *)

NmiLine(p) == p.enable /\ p.vblank

RefreshNmiEdge(p) ==
  [p EXCEPT !.edge = @ \/ (NmiLine(p) /\ ~p.previous), !.previous = NmiLine(p)]

(* tick_one's first half: the flags *)
Flags(p) ==
  IF p.cycle # 1 THEN p
  ELSE IF p.scanline = PreRender THEN RefreshNmiEdge([p EXCEPT !.vblank = FALSE])
  ELSE IF p.scanline = VblankStart
       THEN RefreshNmiEdge([p EXCEPT !.vblank = TRUE, !.pictures = @ + 1])
  ELSE p

(* tick_one's second half: an odd frame's last dot is skipped.               *)
Advance(p) ==
  LET next == p.cycle + 1
      skip == /\ p.scanline = PreRender /\ next = DotsPerScanline - 1
              /\ p.odd /\ p.rendering IN
  IF next < DotsPerScanline /\ ~skip THEN [p EXCEPT !.cycle = next]
  ELSE IF p.scanline < PreRender THEN [p EXCEPT !.cycle = 0, !.scanline = @ + 1]
  ELSE [p EXCEPT !.cycle = 0, !.scanline = 0, !.odd = ~@, !.frames = @ + 1]

TickOne(p) == Advance(Flags(p))

Rises == NmiLine(ppu') /\ ~NmiLine(ppu)

-----------------------------------------------------------------------------
(* The bus and the CPU. *)

(* A slip: the edge is taken before the PPU has run, not after. *)
RunTakesFirst ==
  /\ ppu' = TickOne(TickOne(TickOne([ppu EXCEPT !.edge = FALSE])))
  /\ latched' = (latched \/ ppu.edge)

(* Three dots, and the PPU's edge is latched. *)
RunPpu ==
  LET ran == TickOne(TickOne(TickOne(ppu))) IN
  ppu' = [ran EXCEPT !.edge = FALSE] /\ latched' = (latched \/ ran.edge)

(* NesBus::tick, which each access begins with and each stalled cycle is.    *)
Tick ==
  /\ accesses + stall > 0
  /\ RunPpu
  /\ spent' = IF pc = "frame" THEN spent + 1 ELSE spent
  /\ canAccess' = (accesses > 0)
  /\ IF accesses > 0 THEN accesses' = accesses - 1 /\ UNCHANGED stall
                     ELSE stall' = stall - 1 /\ UNCHANGED accesses
  /\ owed' = (owed \/ fresh \/ Rises) /\ fresh' = FALSE
  /\ UNCHANGED pc

(* An access to one of the PPU's registers, after its tick. *)
Access ==
  /\ canAccess /\ canAccess' = FALSE
  /\ UNCHANGED <<accesses, latched, pc, spent, owed>>

(* PPUSTATUS *)
ReadStatus ==
  /\ Access /\ ppu' = RefreshNmiEdge([ppu EXCEPT !.vblank = FALSE])
  /\ fresh' = (fresh \/ Rises) /\ UNCHANGED stall

(* PPUCTRL *)
WriteCtrl ==
  /\ Access /\ \E e \in BOOLEAN : ppu' = RefreshNmiEdge([ppu EXCEPT !.enable = e])
  /\ fresh' = (fresh \/ Rises) /\ UNCHANGED stall

(* PPUMASK *)
WriteMask ==
  /\ Access /\ ppu' = [ppu EXCEPT !.rendering = ~@]
  /\ UNCHANGED <<stall, fresh>>

(* $4014: the copy needs no cycles of its own, the stall follows; a           *)
(* read-modify-write instruction may ask for two.                            *)
OamDma ==
  /\ Access /\ stall <= DmcStall + DmaStall /\ stall' = stall + DmaStall
  /\ UNCHANGED <<ppu, fresh>>

(* step_frame's loop condition, with no instruction running *)
Idle     == accesses = 0 /\ stall = 0
LoopsOn  == pc = "frame" /\ Idle /\ ppu.frames = 0 /\ spent < SafetyLimit

(* Cpu::step with an NMI latched: the interrupt sequence, which touches no   *)
(* register of the PPU.                                                      *)
ServiceNmi ==
  /\ LoopsOn /\ latched /\ latched' = FALSE
  /\ stall' \in {InterruptCycles, InterruptCycles + DmcStall}
  /\ canAccess' = FALSE /\ owed' = FALSE
  /\ UNCHANGED <<ppu, accesses, pc, spent, fresh>>

(* Cpu::step without: the next instruction. *)
BeginInstruction ==
  /\ LoopsOn /\ ~latched
  /\ accesses' \in Instructions /\ stall' \in {0, DmcStall}
  /\ canAccess' = FALSE
  /\ UNCHANGED <<ppu, latched, pc, spent, owed, fresh>>

-----------------------------------------------------------------------------
(* The host. *)

(* A slip: the cycles of all frames so far count against the limit. *)
BeginFrameStillSpent ==
  /\ pc = "host" /\ pc' = "frame"
  /\ ppu' = [ppu EXCEPT !.frames = 0, !.pictures = 0]
  /\ UNCHANGED <<latched, cpu, spent, owed, fresh>>

(* step_frame is called *)
BeginFrame ==
  /\ pc = "host" /\ pc' = "frame"
  /\ ppu' = [ppu EXCEPT !.frames = 0, !.pictures = 0] /\ spent' = 0
  /\ UNCHANGED <<latched, cpu, owed, fresh>>

(* ... and returns *)
EndFrame ==
  /\ pc = "frame" /\ Idle /\ ~LoopsOn /\ pc' = "host"
  /\ canAccess' = FALSE
  /\ UNCHANGED <<ppu, latched, accesses, stall, spent, owed, fresh>>

(* reset: PPUSTATUS survives it *)
Reset ==
  /\ pc = "host" /\ pc' = "reset"
  /\ ppu' = [ppu EXCEPT !.scanline = 0, !.cycle = 0, !.odd = FALSE, !.enable = FALSE,
                        !.rendering = FALSE, !.previous = FALSE, !.edge = FALSE]
  /\ latched' = FALSE /\ stall' = ResetCycles /\ owed' = FALSE /\ fresh' = FALSE
  /\ UNCHANGED <<accesses, canAccess, spent>>

EndReset ==
  /\ pc = "reset" /\ Idle /\ pc' = "host"
  /\ UNCHANGED <<ppu, latched, cpu, spent, owed, fresh>>

FrameNext ==
  \/ Tick
  \/ ReadStatus \/ WriteCtrl \/ WriteMask \/ OamDma
  \/ ServiceNmi \/ BeginInstruction
  \/ BeginFrame \/ EndFrame \/ Reset \/ EndReset

FrameSpec == FrameInit /\ [][FrameNext]_frameVars

-----------------------------------------------------------------------------
(* However long the instructions and stalls at its ends are, and whatever    *)
(* the program does, every call of step_frame completes one frame, publishes *)
(* exactly one picture and returns while the next one is still being drawn:  *)
(* the host never shows a picture twice, nor misses one, and the limit on    *)
(* cycles is never what ends the loop.                                       *)
OnePicturePerFrame ==
  [][EndFrame => /\ ppu.frames = 1 /\ ppu.pictures = 1
                 /\ ppu.scanline < VblankStart]_frameVars

(* Whenever the CPU is between two instructions it takes the NMI if and only *)
(* if the line has risen since it took the last one: also when the program   *)
(* reads PPUSTATUS on the very cycle, switches the NMI off again, or is held *)
(* up by a DMA.  Only a rise caused by the instruction's very last access    *)
(* waits for one more instruction, and it does wait.                         *)
NmiOnTime ==
  [][(ServiceNmi => owed) /\ (BeginInstruction => ~owed)]_frameVars

=============================================================================
