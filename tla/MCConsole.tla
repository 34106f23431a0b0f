------------------------------- MODULE MCConsole -------------------------------
(***************************************************************************)
(* One instance of the console's parts that are checked by themselves: the *)
(* decoder, the arithmetic and the interrupts of the CPU, the PPU's        *)
(* scrolling, its memories and its sprites, and the cartridge. A behaviour *)
(* is a behaviour of one of them, the part in focus; the others stay as    *)
(* the console powers on. None of these modules reads a variable of        *)
(* another, so nothing is lost.                                            *)
(***************************************************************************)
EXTENDS CpuDecode, CpuAlu, CpuInterrupts, PpuScroll, PpuMemory, PpuSprites, Cartridge

VARIABLE focus      \* the part this behaviour is of

consoleVars == <<focus, decode, alu, cpuVars, scrollVars, memoryVars,
                 spriteVars, cartVars>>

Parts == {"decode", "alu", "interrupts", "scroll", "memory", "sprites", "cartridge"}

(* A part out of focus stays in the first of its initial states. *)
AtRest(part, is) == focus # part => is

ConsoleInit ==
    /\ focus \in Parts
    /\ DecodeInit /\ AtRest("decode", decode.at = CHOOSE s \in Situations : TRUE)
    /\ AluInit /\ AtRest("alu", alu.v = 0 /\ alu.was.a = 0 /\ alu.was.x = 0
                                /\ alu.was.p = {"U"})
    /\ CpuInit
    /\ ScrollInit /\ AtRest("scroll", asked.fine = 7 /\ asked.table = 0 /\ ~asked.second)
    /\ MemoryInit /\ AtRest("memory", /\ wiring.mirroring = "Vertical" /\ ~wiring.patternRam
                                      /\ wiring.banks = CHOOSE b \in PatternMaps : TRUE)
    /\ SpritesInit /\ AtRest("sprites", /\ sprites = CHOOSE l \in SpriteLists : TRUE
                                        /\ ~tall /\ mask.bgLeft)
    /\ IF focus = "cartridge" THEN CartInit
       ELSE /\ cart = Refused /\ bits = << >> /\ writes = 0
            /\ loaded = [ctrl |-> 12, chr0 |-> 0, chr1 |-> 0, prg |-> 0]

Still(part, v) == IF focus = part THEN TRUE ELSE UNCHANGED v

ConsoleNext ==
    /\ \/ focus = "decode" /\ DecodeNext
       \/ focus = "alu" /\ AluNext
       \/ focus = "interrupts" /\ CpuNext
       \/ focus = "scroll" /\ ScrollNext
       \/ focus = "memory" /\ MemoryNext
       \/ focus = "sprites" /\ SpritesNext
       \/ focus = "cartridge" /\ CartNext
    /\ Still("decode", decode) /\ Still("alu", alu) /\ Still("interrupts", cpuVars)
    /\ Still("scroll", scrollVars) /\ Still("memory", memoryVars)
    /\ Still("sprites", spriteVars) /\ Still("cartridge", cartVars)
    /\ UNCHANGED focus

ConsoleSpec == ConsoleInit /\ [][ConsoleNext]_consoleVars

-----------------------------------------------------------------------------
(* Values of the constants. *)

Sprite(y, x, tile, front, colour, flip, upside) ==
    [y |-> y, x |-> x, tile |-> tile, front |-> front, colour |-> colour,
     flip |-> flip, upside |-> upside, zero |-> FALSE]

(* Three sprites on a line that holds two; overlaps, flips, sprite 0 behind. *)
MCSpriteLists ==
    { << Sprite(0, 0, 1, FALSE, 1, FALSE, FALSE), Sprite(0, 1, 2, TRUE, 2, TRUE, FALSE),
         Sprite(1, 1, 3, TRUE, 3, FALSE, TRUE) >>,
      << Sprite(1, 2, 2, TRUE, 1, TRUE, TRUE), Sprite(0, 0, 3, TRUE, 2, FALSE, FALSE),
         Sprite(0, 1, 0, FALSE, 3, FALSE, FALSE) >> }

MCPattern ==
    [at \in (0 .. 3) \X (0 .. 1) |->
        [c \in 0 .. 1 |-> (at[1] * (1 + c) + 3 * at[2]) % 4]]

File(mapper, prg, chr, holds, fourScreen, nes20) ==
    [full |-> TRUE, magic |-> TRUE, low |-> mapper, mid |-> 0, upper |-> 1,
     nes20 |-> nes20, prg |-> prg, chr |-> chr, holds |-> holds,
     fourScreen |-> fourScreen, vertical |-> FALSE, battery |-> TRUE]

(* Every mapper and one that is not supported; CHR RAM and four screens; a   *)
(* NES 2.0 header that selects an unknown mapper; files as long as their     *)
(* header says and one that is short; MMC1 with an odd number of 16 KB banks *)
(* beside an even one.                                                       *)
MCFiles ==
    {File(m, 2, 1, 5, FALSE, FALSE) : m \in 0 .. 5} \cup
    {File(m, 3, 0, 6, TRUE, FALSE) : m \in {1, 2, 4}} \cup
    {File(1, 1, 1, 3, FALSE, FALSE), File(4, 2, 1, 9, TRUE, TRUE),
     File(0, 1, 1, 2, FALSE, FALSE), File(3, 1, 2, 4, FALSE, FALSE)}

(* The patterns' windows: one to one; MMC3's at power-on, where most show    *)
(* its first bank; and with its halves swapped.                              *)
MCPatternMaps ==
    LET nrom == NewCart(File(0, 1, 0, 2, FALSE, FALSE))
        mmc3 == NewCart(File(4, 1, 0, 2, FALSE, FALSE))
    IN  {[w \in 0 .. 7 |-> ChrBank(c, w)] :
            c \in {nrom, mmc3, [mmc3 EXCEPT !.latch = 128, !.regs[0] = 2, !.regs[2] = 3]}}
=============================================================================
