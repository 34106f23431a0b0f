------------------------------ MODULE Cartridge ------------------------------
(***************************************************************************)
(* The cartridge (nessie-core/src/cart): what the iNES parser makes of a   *)
(* file, and how the five mappers turn the game's register writes into the *)
(* banks behind $8000 to $FFFF and behind the pattern tables, the serial   *)
(* port of MMC1 among them, and the battery-backed RAM at $6000.           *)
(*                                                                         *)
(* The CPU's space is four windows of 8 KB, the patterns' eight of 1 KB,   *)
(* and a bank is a number of such units.  MMC3's counter is ScanlineIrq's. *)
(***************************************************************************)
EXTENDS Integers, Sequences, ByteBits

CONSTANTS
    Files,          \* the files inserted, as their headers and lengths
    RegisterBytes,  \* what a game writes to the mapper's registers
    RamBytes,       \* what it writes to the RAM, one byte of which is kept
    MaxWrites,      \* bound: register writes
    MaxSerialWrites, \* bound: register writes to an MMC1, five to a load
    Refused         \* no cartridge: the file was refused

(* A file: its mapper's number in two nibbles and the four bits NES 2.0 adds, *)
(* its sizes in units of 16 and 8 KB, and the units it really holds.          *)
ASSUME FileAssumption ==
    \A f \in Files :
        /\ f.prg \in Nat /\ f.chr \in Nat /\ f.holds \in Nat
        /\ f.low \in 0 .. 15 /\ f.mid \in 0 .. 15 /\ f.upper \in 0 .. 15

ASSUME RegisterAssumption == \A byte \in RegisterBytes : byte \in Nat /\ byte < 256

VARIABLES
    cart,       \* the cartridge: its mapper, sizes, registers and RAM
    bits,       \* history: MMC1's bits since the last load or reset
    loaded,     \* history: its four registers, as loads of five bits make them
    writes      \* bound: register writes so far

cartVars == <<cart, bits, loaded, writes>>

-----------------------------------------------------------------------------
(* parse_ines.  The body holds .holds units of 8 KB after the trainer. *)

MapperNumber(f) == f.low + 16 * f.mid + IF f.nes20 THEN 256 * f.upper ELSE 0

HeaderMirroring(f) ==
    IF f.fourScreen THEN "FourScreen" ELSE IF f.vertical THEN "Vertical" ELSE "Horizontal"

ParseError(f) ==
    IF ~f.full THEN "TooShort"
    ELSE IF ~f.magic THEN "InvalidMagic"
    ELSE IF f.prg = 0 THEN "NoPrgRom"
    ELSE IF f.holds < 2 * f.prg + f.chr THEN "TruncatedBody"
    ELSE IF MapperNumber(f) \notin 0 .. 4 THEN "UnsupportedMapper"
    ELSE "none"

(* No CHR units: 8 KB of RAM.  UxROM takes it whatever the header says. *)
NewCart(f) ==
    [mapper |-> MapperNumber(f), prgUnits |-> 2 * f.prg,
     chrUnits |-> IF f.chr = 0 \/ MapperNumber(f) = 2 THEN 8 ELSE 8 * f.chr,
     chrRam |-> f.chr = 0 \/ MapperNumber(f) = 2,
     battery |-> f.battery /\ MapperNumber(f) \in {0, 1, 4},
     mirroring |-> HeaderMirroring(f),
     select |-> 0, latch |-> 0,
     shift |-> 0, count |-> 0, ctrl |-> 12, chr0 |-> 0, chr1 |-> 0, prg |-> 0,
     regs |-> [r \in 0 .. 7 |-> 0], protect |-> 128, ram |-> 0]

-----------------------------------------------------------------------------
(* The banks.  A bank number is masked with the count of banks less one. *)

(* A slip: masked with the count itself. *)
BankMaskedWide(bank, count) == BitAnd(bank, count)

BankMasked(bank, count) == BitAnd(bank, count - 1)
Even(bank) == 2 * (bank \div 2)
Bit(n, b) == (n \div 2^b) % 2

(* MMC1: 16 KB banks, whose mode is in bits 2 and 3 of the control register. *)
PrgMode1(c) == (c.ctrl \div 4) % 4
PrgBank1(c, window) ==
    LET count == c.prgUnits \div 2
        selected == BankMasked(c.prg % 16, count)
        upper == window \div 2 = 1
        bank == CASE PrgMode1(c) \in {0, 1} -> Even(selected) + (window \div 2)
                  [] PrgMode1(c) = 2 -> IF upper THEN selected ELSE 0
                  [] PrgMode1(c) = 3 -> IF upper THEN count - 1 ELSE selected
    IN  2 * bank + (window % 2)

ChrBank1(c, window) ==
    LET count == c.chrUnits \div 4
        half == window \div 4
    IN  IF c.chrRam THEN window
        ELSE IF Bit(c.ctrl, 4) = 1
        THEN 4 * BankMasked(IF half = 0 THEN c.chr0 ELSE c.chr1, count) + (window % 4)
        ELSE 4 * BankMasked(Even(c.chr0), count) + window

Mirroring1(c) == <<"OneScreenLower", "OneScreenUpper", "Vertical", "Horizontal">>[1 + (c.ctrl % 4)]

(* MMC3: 8 KB and 1 KB banks; bits 6 and 7 of the select swap the windows. *)
PrgBank4(c, window) ==
    LET swapped == IF Bit(c.latch, 6) = 1 /\ window \in {0, 2} THEN 2 - window ELSE window
    IN  CASE swapped = 0 -> BankMasked(c.regs[6], c.prgUnits)
          [] swapped = 1 -> BankMasked(c.regs[7], c.prgUnits)
          [] swapped = 2 -> IF c.prgUnits = 1 THEN 0 ELSE c.prgUnits - 2
          [] swapped = 3 -> c.prgUnits - 1

ChrBank4(c, window) ==
    LET w == IF Bit(c.latch, 7) = 1 THEN (window + 4) % 8 ELSE window
    IN  IF w < 4 THEN BankMasked(Even(c.regs[w \div 2]), c.chrUnits) + (w % 2)
        ELSE BankMasked(c.regs[w - 2], c.chrUnits)

(* NROM and CNROM mirror 16 KB; UxROM switches the lower half. *)
PrgBank(c, window) ==
    CASE c.mapper \in {0, 3} -> IF c.prgUnits = 2 THEN window % 2 ELSE window
      [] c.mapper = 1 -> PrgBank1(c, window)
      [] c.mapper = 2 -> IF window < 2 THEN 2 * c.select + window
                         ELSE c.prgUnits - 4 + window
      [] c.mapper = 4 -> PrgBank4(c, window)

ChrBank(c, window) ==
    CASE c.mapper \in {0, 2} -> window
      [] c.mapper = 1 -> ChrBank1(c, window)
      [] c.mapper = 3 -> 8 * c.select + window
      [] c.mapper = 4 -> ChrBank4(c, window)

CartMirroring(c) == IF c.mapper = 1 THEN Mirroring1(c) ELSE c.mirroring

(* $6000: always there on NROM, behind bit 4 of the PRG register on MMC1,    *)
(* behind two bits of $A001 on MMC3.                                         *)
RamReadable(c) ==
    CASE c.mapper = 0 -> TRUE
      [] c.mapper = 1 -> Bit(c.prg, 4) = 0
      [] c.mapper = 4 -> Bit(c.protect, 7) = 1
      [] OTHER -> FALSE

RamWritable(c) == RamReadable(c) /\ (c.mapper # 4 \/ Bit(c.protect, 6) = 0)

-----------------------------------------------------------------------------
(* The registers. *)

(* A slip: the bits sent so far still count. *)
ResetKeepsCount(c) == [c EXCEPT !.shift = 0, !.ctrl = BitOr(@, 12)]

ResetShift(c) == [c EXCEPT !.shift = 0, !.count = 0, !.ctrl = BitOr(@, 12)]

(* A slip: the two CHR registers the other way round. *)
CommitCrossed(c, area, value) ==
    CASE area = 0 -> [c EXCEPT !.ctrl = value]
      [] area = 1 -> [c EXCEPT !.chr1 = value]
      [] area = 2 -> [c EXCEPT !.chr0 = value]
      [] area = 3 -> [c EXCEPT !.prg = value]

Commit(c, area, value) ==
    CASE area = 0 -> [c EXCEPT !.ctrl = value]
      [] area = 1 -> [c EXCEPT !.chr0 = value]
      [] area = 2 -> [c EXCEPT !.chr1 = value]
      [] area = 3 -> [c EXCEPT !.prg = value]

(* A serial write: bit 7 resets, otherwise bit 0 goes in from above, and the *)
(* fifth bit loads the register its own address selects.                     *)
SerialWrite(c, area, byte) ==
    LET shifted == [c EXCEPT !.shift = (@ \div 2) + 16 * (byte % 2), !.count = @ + 1]
    IN  IF Bit(byte, 7) = 1 THEN ResetShift(c)
        ELSE IF shifted.count < 5 THEN shifted
        ELSE [Commit(shifted, area, shifted.shift) EXCEPT !.shift = 0, !.count = 0]

(* MMC3's bank, mirroring and RAM registers, by area and parity. *)
Write4(c, area, odd, byte) ==
    CASE area = 0 /\ ~odd -> [c EXCEPT !.latch = byte]
      [] area = 0 /\ odd -> [c EXCEPT !.regs[c.latch % 8] = byte]
      [] area = 1 /\ ~odd ->
            [c EXCEPT !.mirroring = IF @ = "FourScreen" THEN @
                                    ELSE IF byte % 2 = 0 THEN "Vertical" ELSE "Horizontal"]
      [] area = 1 /\ odd -> [c EXCEPT !.protect = byte]
      [] OTHER -> c

WriteRom(c, area, odd, byte) ==
    CASE c.mapper = 0 -> c
      [] c.mapper = 1 -> SerialWrite(c, area, byte)
      [] c.mapper = 2 -> [c EXCEPT !.select = BankMasked(byte, c.prgUnits \div 2)]
      [] c.mapper = 3 -> [c EXCEPT !.select = BankMasked(byte, c.chrUnits \div 8)]
      [] c.mapper = 4 -> Write4(c, area, odd, byte)

-----------------------------------------------------------------------------
(* The serial port as a game sees it.  Five bits in a row, the first the      *)
(* lowest, are loaded into the register the fifth one's address selects; bit  *)
(* 7 fixes the last bank at the vectors and leaves the mirroring and the CHR  *)
(* mode.                                                                      *)
Registers == <<"ctrl", "chr0", "chr1", "prg">>

Value(five) == five[1] + 2 * five[2] + 4 * five[3] + 8 * five[4] + 16 * five[5]

PortWrite(area, byte) ==
    IF Bit(byte, 7) = 1 THEN [loaded EXCEPT !.ctrl = 16 * (@ \div 16) + 12 + (@ % 4)]
    ELSE IF Len(bits) < 4 THEN loaded
    ELSE [loaded EXCEPT ![Registers[area + 1]] = Value(Append(bits, byte % 2))]

-----------------------------------------------------------------------------
CartInit ==
    /\ \E f \in Files : cart = IF ParseError(f) = "none" THEN NewCart(f) ELSE Refused
    /\ bits = << >> /\ writes = 0
    /\ loaded = [ctrl |-> 12, chr0 |-> 0, chr1 |-> 0, prg |-> 0]

RegisterWrite ==
    /\ cart # Refused
    /\ writes < IF cart.mapper = 1 THEN MaxSerialWrites ELSE MaxWrites
    /\ writes' = writes + 1
    /\ \E area \in 0 .. 3, odd \in BOOLEAN, byte \in RegisterBytes :
        /\ cart' = WriteRom(cart, area, odd, byte)
        /\ bits' = IF cart.mapper # 1 \/ Bit(byte, 7) = 1 \/ Len(bits) = 4 THEN << >>
                   ELSE Append(bits, byte % 2)
        /\ loaded' = IF cart.mapper # 1 THEN loaded ELSE PortWrite(area, byte)

RamWrite ==
    /\ cart # Refused
    /\ \E byte \in RamBytes :
        cart' = IF RamWritable(cart) THEN [cart EXCEPT !.ram = byte] ELSE cart
    /\ UNCHANGED <<bits, loaded, writes>>

(* A battery keeps the RAM over a change of the power; load_battery fills it *)
(* whatever the registers then say.                                          *)
LoadBattery ==
    /\ cart # Refused
    /\ \E byte \in RamBytes : cart' = IF cart.battery THEN [cart EXCEPT !.ram = byte] ELSE cart
    /\ UNCHANGED <<bits, loaded, writes>>

CartNext == RegisterWrite \/ RamWrite \/ LoadBattery

CartSpec == CartInit /\ [][CartNext]_cartVars

-----------------------------------------------------------------------------
(* Properties. *)

(* MMC1's 32 KB mode shows a bank and the next, and here it is at the last: *)
(* the two upper windows have nothing to show, and read as zeros.            *)
Overhangs(c) ==
    c.mapper = 1 /\ PrgMode1(c) \in {0, 1} /\ PrgBank(c, 1) = c.prgUnits - 1

(* No sequence of register writes, complete or not, makes a window show a     *)
(* bank outside the ROM of a file the parser accepts, but for one case: a     *)
(* MMC1 file with an odd number of 16 KB banks, which the parser accepts too, *)
(* switched to the 32 KB mode at its last bank, and then only the two upper   *)
(* windows and by one bank.  The window with the CPU's vectors shows the end  *)
(* of the ROM on the mappers that fix it, and a 16 KB bank is shown whole     *)
(* (prg_index, chr_index and their like; the sizes are the parser's).         *)
BanksInRange ==
    cart # Refused =>
        /\ \A w \in 0 .. 3 :
             PrgBank(cart, w) \in IF Overhangs(cart) /\ w \in {2, 3} THEN {cart.prgUnits + w - 2}
                                 ELSE 0 .. cart.prgUnits - 1
        /\ Overhangs(cart) => cart.prgUnits % 4 = 2
        /\ \A w \in 0 .. 7 : ChrBank(cart, w) \in 0 .. cart.chrUnits - 1
        /\ cart.mapper \in {2, 4} \/ (cart.mapper = 1 /\ PrgMode1(cart) = 3) =>
                PrgBank(cart, 3) = cart.prgUnits - 1
        /\ \A w \in {0, 2} : cart.mapper # 4 => PrgBank(cart, w + 1) = PrgBank(cart, w) + 1

(* MMC1's registers hold what the writes sent them five bits at a time, each  *)
(* load in the one register its fifth write addresses: an interrupted         *)
(* sequence never loads a part, a reset discards what was sent and touches no *)
(* bank, and neither the RAM nor the battery comes near them (SerialWrite).   *)
SerialLoads ==
    cart # Refused /\ cart.mapper = 1 => \A r \in DOMAIN loaded : cart[r] = loaded[r]
=============================================================================
