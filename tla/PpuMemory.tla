------------------------------ MODULE PpuMemory ------------------------------
(***************************************************************************)
(* What the game reaches through the PPU's data ports (nessie-core/src/ppu *)
(* /mod.rs): the pattern tables in the cartridge, through its mapper's     *)
(* banks, the nametables as it wires them (cart) and the palette behind    *)
(* $2007, with its read buffer and the open bus, and the sprite memory     *)
(* behind $2003, $2004 and the DMA of $4014 (bus.rs).                      *)
(*                                                                         *)
(* PpuScroll models the address register; here the game may have left it   *)
(* at any address.  Cartridge says which banks there can be.  A byte never *)
(* written is Zero.                                                        *)
(***************************************************************************)
EXTENDS Integers

CONSTANTS
    VramAddresses,  \* where a game leaves the address register
    VramBytes,      \* what it writes
    PatternMaps,    \* the banks of 1 KB behind the eight windows of the patterns
    SpriteBytes,    \* the size of the sprite memory, 256
    MaxUses       \* bound on the accesses of a behaviour

ASSUME MemoryAssumption ==
    /\ \A a \in VramAddresses : a \in Nat /\ a < 16384
    /\ VramBytes \subseteq 0 .. 255
    /\ PatternMaps \subseteq [0 .. 7 -> Nat]
    /\ SpriteBytes \in Nat \ {0} /\ MaxUses \in Nat

VARIABLES
    wiring,     \* the cartridge: its mirroring, its banks, and whether they are RAM
    place,      \* the address register
    buffer,     \* what the next read below the palette returns
    openBus,    \* the last byte on the register bus
    stored,     \* every byte written, by its cell
    oam, oamAddress,
    uses      \* history: the accesses so far

memoryVars == <<wiring, place, buffer, openBus, stored, oam, oamAddress, uses>>

Mirrorings == {"Horizontal", "Vertical", "FourScreen", "OneScreenLower", "OneScreenUpper"}
Zero == 0

-----------------------------------------------------------------------------
(* Which cell an address stands for. *)

Mirroring(mode, table) ==
    CASE mode = "Horizontal" -> table \div 2
      [] mode = "Vertical" -> table % 2
      [] mode = "FourScreen" -> table
      [] mode = "OneScreenLower" -> 0
      [] mode = "OneScreenUpper" -> 1

NametableIndex(mode, a) ==
    (Mirroring(mode, (a \div 1024) % 4) % 2) * 1024 + (a % 1024)

(* A slip: the four shared entries are not folded. *)
PaletteIndexUnfolded(a) == a % 32

PaletteIndex(a) ==
    LET entry == a % 32 IN IF entry >= 16 /\ entry % 4 = 0 THEN entry - 16 ELSE entry

(* A slip: an address is its own cell. *)
PatternIndexFlat(banks, a) == a

(* A cartridge may show one bank in several windows. *)
PatternIndex(banks, a) == banks[a \div 1024] * 1024 + (a % 1024)

Cell(w, a) ==
    IF a < 8192 THEN <<"pattern", PatternIndex(w.banks, a)>>
    ELSE IF a < 16128 THEN <<"nametable", NametableIndex(w.mirroring, a)>>
    ELSE <<"palette", PaletteIndex(a)>>

ReadVram(a) ==
    LET c == Cell(wiring, a)
    IN  IF c \in DOMAIN stored THEN stored[c] ELSE Zero

(* A palette entry keeps six bits; patterns may be in ROM. *)
WriteVram(a, byte) ==
    LET c == Cell(wiring, a)
        kept == IF c[1] = "palette" THEN byte % 64 ELSE byte
    IN  IF c[1] = "pattern" /\ ~wiring.patternRam THEN stored
        ELSE [k \in DOMAIN stored \cup {c} |-> IF k = c THEN kept ELSE stored[k]]

-----------------------------------------------------------------------------
MemoryInit ==
    /\ wiring \in [mirroring : Mirrorings, banks : PatternMaps, patternRam : BOOLEAN]
    /\ place = 0 /\ buffer = Zero /\ openBus = Zero
    /\ stored = [c \in {} |-> Zero]
    /\ oam = [i \in 0 .. SpriteBytes - 1 |-> Zero] /\ oamAddress = 0
    /\ uses = 0

(* PpuScroll's registers leave the address register anywhere. *)
Aim ==
    /\ place' \in VramAddresses
    /\ UNCHANGED <<wiring, buffer, openBus, stored, oam, oamAddress, uses>>

(* A cartridge may switch banks and rewire the nametables while the game     *)
(* runs, but one with memory for four of those leaves them.                  *)
Rewire ==
    /\ \E m \in Mirrorings \ {"FourScreen"}, b \in PatternMaps :
        wiring' = [wiring EXCEPT !.banks = b,
                                 !.mirroring = IF @ = "FourScreen" THEN @ ELSE m]
    /\ UNCHANGED <<place, buffer, openBus, stored, oam, oamAddress, uses>>

Use == uses < MaxUses /\ uses' = uses + 1

Onwards(a) == {(a + 1) % 16384, (a + 32) % 16384}

(* $2007: a read below the palette is one read late; one of the palette is   *)
(* not, fills the buffer from the nametable underneath, and leaves two bits  *)
(* of the bus as they were.                                                  *)
DataRead ==
    /\ Use
    /\ LET colour == (ReadVram(place) % 64) + (openBus \div 64) * 64
       IN  /\ openBus' = IF place >= 16128 THEN colour ELSE buffer
           /\ buffer' = ReadVram(IF place >= 16128 THEN place - 4096 ELSE place)
    /\ place' \in Onwards(place)
    /\ UNCHANGED <<wiring, stored, oam, oamAddress>>

DataWrite ==
    /\ Use
    /\ \E byte \in VramBytes : stored' = WriteVram(place, byte) /\ openBus' = byte
    /\ place' \in Onwards(place)
    /\ UNCHANGED <<wiring, buffer, oam, oamAddress>>

(* $2003. *)
OamAim ==
    /\ oamAddress' \in 0 .. SpriteBytes - 1 /\ openBus' = oamAddress'
    /\ UNCHANGED <<wiring, place, buffer, stored, oam, uses>>

(* $2004: a write moves on, a read does not, and three bits of an attribute *)
(* byte read as zero.                                                       *)
OamWrite ==
    /\ Use
    /\ \E byte \in VramBytes : oam' = [oam EXCEPT ![oamAddress] = byte] /\ openBus' = byte
    /\ oamAddress' = (oamAddress + 1) % SpriteBytes
    /\ UNCHANGED <<wiring, place, buffer, stored>>

OamRead ==
    /\ LET byte == oam[oamAddress]
       IN  openBus' = IF oamAddress % 4 = 2 THEN (byte % 4) + (byte \div 32) * 32 ELSE byte
    /\ UNCHANGED <<wiring, place, buffer, stored, oam, oamAddress, uses>>

(* $4014: a page is copied from the address on, and around the end; each page *)
(* is told by its first byte, the others follow it.                           *)
OamDmaWrite ==
    /\ Use
    /\ \E first \in VramBytes :
        oam' = [a \in DOMAIN oam |-> (first + ((a - oamAddress) % SpriteBytes)) % 256]
    /\ UNCHANGED <<wiring, place, buffer, openBus, stored, oamAddress>>

MemoryNext ==
    \/ Aim \/ Rewire \/ DataRead \/ DataWrite
    \/ OamAim \/ OamWrite \/ OamRead \/ OamDmaWrite

MemorySpec == MemoryInit /\ [][MemoryNext]_memoryVars

-----------------------------------------------------------------------------
(* Properties. *)

(* What the cartridge's wiring means: which tables are one. *)
OneTable(mode, i, j) ==
    \/ i = j
    \/ mode = "Horizontal" /\ {i, j} \in {{0, 1}, {2, 3}}
    \/ mode = "Vertical" /\ {i, j} \in {{0, 2}, {1, 3}}
    \/ mode \in {"OneScreenLower", "OneScreenUpper"}

(* Which addresses name one byte. *)
InNametables(a) == a >= 8192 /\ a < 16128
InPalette(a) == a >= 16128

SameByte(w, a, b) ==
    \/ /\ a < 8192 /\ b < 8192 /\ a % 1024 = b % 1024
       /\ w.banks[a \div 1024] = w.banks[b \div 1024]
    \/ /\ InNametables(a) /\ InNametables(b) /\ a % 1024 = b % 1024
       /\ OneTable(w.mirroring, (a \div 1024) % 4, (b \div 1024) % 4)
    \/ /\ InPalette(a) /\ InPalette(b)
       /\ a % 32 = b % 32 \/ (a % 16 = b % 16 /\ a % 4 = 0)

(* The step of a write: its mirrors, as w has them, change, and nothing else. *)
WriteReaches(w) ==
    DataWrite =>
        \A a \in VramAddresses :
            IF ~SameByte(w, a, place) THEN ReadVram(a)' = ReadVram(a)
            ELSE \/ ReadVram(a)' = openBus'
                 \/ place >= 16128 /\ ReadVram(a)' = openBus' % 64
                 \/ place < 8192 /\ ~wiring.patternRam /\ ReadVram(a)' = ReadVram(a)

(* The console has memory for two nametables and no cartridge brings more:   *)
(* one made for four screens gets them wired as if it asked for "Vertical".  *)
AsWired == [wiring EXCEPT !.mirroring = IF @ = "FourScreen" THEN "Vertical" ELSE @]

(* A byte written through the data port shows at every mirror of its address *)
(* and changes nothing anywhere else, whatever banks and nametables are      *)
(* switched in before and after: windows of the patterns that show one bank, *)
(* patterns in ROM, the copies of the nametables above $3000, the palette's  *)
(* four shared entries (nametable_index, palette_index, write_vram_byte,     *)
(* chr_index).                                                               *)
DataReachesItsMirrors == [][WriteReaches(AsWired)]_memoryVars

(* cart/mod.rs says of a four-screen cartridge that all four nametables are  *)
(* distinct; nametable_index drops the upper bit of the table it asks for.   *)
FourScreensAreDistinct == [][wiring.mirroring = "FourScreen" => WriteReaches(wiring)]_memoryVars

(* The banks of a cartridge that does not switch them. *)
FlatPatterns == {[w \in 0 .. 7 |-> w]}
=============================================================================
