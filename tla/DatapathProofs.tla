--------------------------- MODULE DatapathProofs ---------------------------
(***************************************************************************)
(* Proofs about what the console's parts do with a byte: the memories      *)
(* behind the PPU's data ports (PpuMemory), the banks and the serial port  *)
(* of the cartridges (Cartridge), the arithmetic of the CPU (CpuAlu), the  *)
(* accesses it makes on its bus (CpuDecode), the picture the scroll        *)
(* registers ask for (PpuScroll) and the sprites over it (PpuSprites), for *)
(* every set of addresses and bytes a game uses, every sprite memory and   *)
(* every size of the picture.                                              *)
(***************************************************************************)
EXTENDS PpuMemory, Cartridge, CpuAlu, CpuDecode, PpuScroll, PpuSprites, SequenceTheorems,
        FunctionTheorems, FiniteSetTheorems, WellFoundedInduction, TLAPS

(* The wirings two nametables can have. *)
TwoTables == Mirrorings \ {"FourScreen"}

Wirings == [mirroring : Mirrorings, banks : PatternMaps, patternRam : BOOLEAN]

(* What the properties of the memories rest on. *)
MemoryIInv == wiring \in Wirings /\ place \in Nat

-----------------------------------------------------------------------------
(* Of four nametables two are distinct, those that OneTable tells apart. *)
LEMMA TablesAreMirrored ==
    ASSUME NEW mode \in TwoTables, NEW i \in 0 .. 3, NEW j \in 0 .. 3
    PROVE  /\ Mirroring(mode, i) \in {0, 1}
           /\ OneTable(mode, i, j) <=> Mirroring(mode, i) = Mirroring(mode, j)
<1>1. \A k \in 0 .. 3 : k \in {0, 1, 2, 3}
    OBVIOUS
<1>2. i \in {0, 1, 2, 3} /\ j \in {0, 1, 2, 3}
    BY <1>1
<1>3. \A k \in {0, 1, 2, 3} : k \div 2 = (IF k < 2 THEN 0 ELSE 1)
                              /\ k % 2 = (IF k \in {0, 2} THEN 0 ELSE 1)
    OBVIOUS
<1>4. CASE mode = "Horizontal"
    <2>1. \A k \in {0, 1, 2, 3} : Mirroring(mode, k) = IF k < 2 THEN 0 ELSE 1
        BY <1>3, <1>4 DEF Mirroring
    <2>2. OneTable(mode, i, j) <=> (i = j \/ {i, j} \in {{0, 1}, {2, 3}})
        BY <1>4 DEF OneTable
    <2> QED BY <1>2, <2>1, <2>2
<1>5. CASE mode = "Vertical"
    <2>1. \A k \in {0, 1, 2, 3} : Mirroring(mode, k) = IF k \in {0, 2} THEN 0 ELSE 1
        BY <1>3, <1>5 DEF Mirroring
    <2>2. OneTable(mode, i, j) <=> (i = j \/ {i, j} \in {{0, 2}, {1, 3}})
        BY <1>5 DEF OneTable
    <2> QED BY <1>2, <2>1, <2>2
<1>6. CASE mode \in {"OneScreenLower", "OneScreenUpper"}
    BY <1>6 DEF OneTable, Mirroring
<1> QED BY <1>4, <1>5, <1>6 DEF TwoTables, Mirrorings

(* Two addresses name one nametable byte exactly if its place in the table   *)
(* is the same and the tables are one.                                       *)
LEMMA NametableBytes ==
    ASSUME NEW w, NEW mode \in TwoTables, w.mirroring = mode, NEW a \in Nat, NEW b \in Nat,
           InNametables(a), InNametables(b)
    PROVE  SameByte(w, a, b) <=> NametableIndex(mode, a) = NametableIndex(mode, b)
<1>1. PICK i \in 0 .. 3, j \in 0 .. 3 : i = (a \div 1024) % 4 /\ j = (b \div 1024) % 4
    OBVIOUS
<1>2. PICK x \in Nat, y \in Nat : x = a % 1024 /\ y = b % 1024 /\ x < 1024 /\ y < 1024
    OBVIOUS
<1>3. PICK m \in {0, 1}, n \in {0, 1} : m = Mirroring(mode, i) /\ n = Mirroring(mode, j)
    BY TablesAreMirrored
<1>4. NametableIndex(mode, a) = m * 1024 + x /\ NametableIndex(mode, b) = n * 1024 + y
    <2>1. m % 2 = m /\ n % 2 = n
        OBVIOUS
    <2> QED BY <1>1, <1>2, <1>3, <2>1 DEF NametableIndex
<1>5. m * 1024 + x = n * 1024 + y <=> m = n /\ x = y
    <2>1. (m = 0 \/ m = 1) /\ (n = 0 \/ n = 1)
        OBVIOUS
    <2>2. m * 1024 = (IF m = 0 THEN 0 ELSE 1024) /\ n * 1024 = (IF n = 0 THEN 0 ELSE 1024)
        BY <2>1
    <2> QED BY <1>2, <2>1, <2>2
<1>6. SameByte(w, a, b) <=> x = y /\ OneTable(mode, i, j)
    BY <1>1, <1>2 DEF SameByte, InNametables, InPalette
<1>7. OneTable(mode, i, j) <=> m = n
    BY <1>3, TablesAreMirrored
<1> QED BY <1>4, <1>5, <1>6, <1>7

(* The palette's entries: thirty-two, of which four are those sixteen lower. *)
LEMMA PaletteBytes ==
    ASSUME NEW w, NEW a \in Nat, NEW b \in Nat, InPalette(a), InPalette(b)
    PROVE  SameByte(w, a, b) <=> PaletteIndex(a) = PaletteIndex(b)
<1>1. PICK e \in 0 .. 31, f \in 0 .. 31 : e = a % 32 /\ f = b % 32
    OBVIOUS
<1>2. a % 16 = e % 16 /\ a % 4 = e % 4 /\ b % 16 = f % 16 /\ b % 4 = f % 4
    BY <1>1
<1>3. /\ PaletteIndex(a) = IF e >= 16 /\ e % 4 = 0 THEN e - 16 ELSE e
      /\ PaletteIndex(b) = IF f >= 16 /\ f % 4 = 0 THEN f - 16 ELSE f
    BY <1>1 DEF PaletteIndex
<1>4. SameByte(w, a, b) <=> (e = f \/ (e % 16 = f % 16 /\ e % 4 = 0))
    BY <1>1, <1>2 DEF SameByte, InNametables, InPalette
<1>5. /\ e % 16 = IF e < 16 THEN e ELSE e - 16
      /\ f % 16 = IF f < 16 THEN f ELSE f - 16
    OBVIOUS
<1>6. (e % 16) % 4 = e % 4 /\ (f % 16) % 4 = f % 4
    OBVIOUS
<1> QED BY <1>3, <1>4, <1>5, <1>6

(* Two addresses name one pattern byte exactly if the windows they lie in    *)
(* show the same bank, and the place in it is the same.                      *)
LEMMA PatternBytes ==
    ASSUME NEW w, w.banks \in PatternMaps, NEW a \in Nat, NEW b \in Nat, a < 8192, b < 8192
    PROVE  SameByte(w, a, b) <=> PatternIndex(w.banks, a) = PatternIndex(w.banks, b)
<1>1. PICK i \in 0 .. 7, j \in 0 .. 7 : i = a \div 1024 /\ j = b \div 1024
    OBVIOUS
<1>2. PICK x \in Nat, y \in Nat : x = a % 1024 /\ y = b % 1024 /\ x < 1024 /\ y < 1024
    OBVIOUS
<1>3. PICK m \in Nat, n \in Nat : m = w.banks[i] /\ n = w.banks[j]
    <2>1. w.banks \in [0 .. 7 -> Nat]
        BY MemoryAssumption
    <2> QED BY <2>1
<1>4. PatternIndex(w.banks, a) = m * 1024 + x /\ PatternIndex(w.banks, b) = n * 1024 + y
    BY <1>1, <1>2, <1>3 DEF PatternIndex
<1>5. m * 1024 + x = n * 1024 + y <=> m = n /\ x = y
    BY <1>2
<1>6. SameByte(w, a, b) <=> x = y /\ m = n
    BY <1>1, <1>2, <1>3 DEF SameByte, InNametables, InPalette
<1> QED BY <1>4, <1>5, <1>6

(* The three parts of the address space. *)
LEMMA CellParts ==
    ASSUME NEW w, NEW a \in Nat
    PROVE  /\ a < 8192 => Cell(w, a) = <<"pattern", PatternIndex(w.banks, a)>>
           /\ InNametables(a) => Cell(w, a) = <<"nametable", NametableIndex(w.mirroring, a)>>
           /\ InPalette(a) => Cell(w, a) = <<"palette", PaletteIndex(a)>>
           /\ a < 8192 \/ InNametables(a) \/ InPalette(a)
BY DEF Cell, InNametables, InPalette

(* Cells of different parts are different. *)
Part(a) == IF a < 8192 THEN "pattern" ELSE IF a < 16128 THEN "nametable" ELSE "palette"

(* One cell is one byte. *)
LEMMA CellsAreBytes ==
    ASSUME NEW w, w.mirroring \in TwoTables, w.banks \in PatternMaps, NEW a \in Nat, NEW b \in Nat
    PROVE  SameByte(w, a, b) <=> Cell(w, a) = Cell(w, b)
<1>1. CASE a < 8192 /\ b < 8192
    BY <1>1, CellParts, PatternBytes
<1>2. CASE InNametables(a) /\ InNametables(b)
    BY <1>2, CellParts, NametableBytes
<1>3. CASE InPalette(a) /\ InPalette(b)
    BY <1>3, CellParts, PaletteBytes
<1>4. CASE Part(a) # Part(b)
    <2>1. ~SameByte(w, a, b)
        BY <1>4 DEF SameByte, Part, InNametables, InPalette
    <2>2. Cell(w, a)[1] = Part(a) /\ Cell(w, b)[1] = Part(b)
        BY DEF Cell, Part
    <2> QED BY <1>4, <2>1, <2>2
<1>5. \A x \in Nat : /\ Part(x) = "pattern" <=> x < 8192
                     /\ Part(x) = "nametable" <=> InNametables(x)
                     /\ Part(x) = "palette" <=> InPalette(x)
    BY DEF Part, InNametables, InPalette
<1>6. CASE Part(a) = Part(b)
    <2>1. Part(a) = "pattern" \/ Part(a) = "nametable" \/ Part(a) = "palette"
        BY DEF Part
    <2> QED BY <1>1, <1>2, <1>3, <1>5, <1>6, <2>1
<1> QED BY <1>4, <1>6

(* What four screens get: of a table's number only the lower bit counts.     *)
LEMMA WiredCells ==
    ASSUME wiring \in Wirings, NEW a \in Nat
    PROVE  /\ Cell(AsWired, a) = Cell(wiring, a)
           /\ AsWired.mirroring \in TwoTables /\ AsWired.banks \in PatternMaps
<1>1. PICK v : v = AsWired
    OBVIOUS
<1>2. /\ v.banks = wiring.banks /\ wiring.banks \in PatternMaps
      /\ v.mirroring = IF wiring.mirroring = "FourScreen" THEN "Vertical" ELSE wiring.mirroring
      /\ wiring.mirroring \in Mirrorings
    BY <1>1 DEF AsWired, Wirings
<1>3. NametableIndex(v.mirroring, a) = NametableIndex(wiring.mirroring, a)
    <2>1. CASE wiring.mirroring = "FourScreen"
        <3>1. PICK t \in 0 .. 3 : t = (a \div 1024) % 4
            OBVIOUS
        <3>2. (t % 2) % 2 = t % 2
            OBVIOUS
        <3>3. Mirroring("FourScreen", t) = t /\ Mirroring("Vertical", t) = t % 2
            BY DEF Mirroring
        <3>4. /\ NametableIndex("Vertical", a) = ((t % 2) % 2) * 1024 + (a % 1024)
              /\ NametableIndex("FourScreen", a) = (t % 2) * 1024 + (a % 1024)
            BY <3>1, <3>3 DEF NametableIndex
        <3> QED BY <1>2, <2>1, <3>2, <3>4
    <2> QED BY <1>2, <2>1
<1>4. Cell(v, a) = Cell(wiring, a)
    BY <1>2, <1>3 DEF Cell
<1> QED BY <1>1, <1>2, <1>4 DEF TwoTables, Mirrorings

-----------------------------------------------------------------------------
(* A written byte is read wherever its cell is, but for patterns in ROM. *)
LEMMA WriteEffect ==
    ASSUME MemoryIInv, DataWrite, NEW a \in Nat
    PROVE  IF Cell(wiring, a) # Cell(wiring, place) \/ (place < 8192 /\ ~wiring.patternRam)
           THEN ReadVram(a)' = ReadVram(a)
           ELSE ReadVram(a)' = IF place >= 16128 THEN openBus' % 64 ELSE openBus'
<1> DEFINE c == Cell(wiring, place)
           d == Cell(wiring, a)
<1>1. PICK byte \in VramBytes : stored' = WriteVram(place, byte) /\ openBus' = byte
    BY DEF DataWrite
<1>2. wiring' = wiring
    BY DEF DataWrite
<1>3. place \in Nat
    BY DEF MemoryIInv
<1>4. /\ c[1] = "palette" <=> place >= 16128
      /\ c[1] = "pattern" <=> place < 8192
    BY <1>3 DEF Cell
<1>5. /\ ReadVram(a) = IF d \in DOMAIN stored THEN stored[d] ELSE Zero
      /\ ReadVram(a)' = IF d \in DOMAIN stored' THEN stored'[d] ELSE Zero
    BY <1>2 DEF ReadVram
<1>6. CASE place < 8192 /\ ~wiring.patternRam
    BY <1>1, <1>4, <1>5, <1>6 DEF WriteVram
<1>7. CASE ~(place < 8192 /\ ~wiring.patternRam)
    <2>1. PICK kept : kept = IF place >= 16128 THEN byte % 64 ELSE byte
        OBVIOUS
    <2>2. stored' = [k \in DOMAIN stored \cup {c} |-> IF k = c THEN kept ELSE stored[k]]
        BY <1>1, <1>4, <1>7, <2>1 DEF WriteVram
    <2> HIDE DEF c, d
    <2>3. CASE d = c
        BY <1>1, <1>5, <1>7, <2>1, <2>2, <2>3 DEF c, d
    <2>4. CASE d # c
        <3>1. ReadVram(a)' = ReadVram(a)
            BY <1>5, <2>2, <2>4
        <3> QED BY <2>4, <3>1 DEF c, d
    <2> QED BY <2>3, <2>4
<1> QED BY <1>6, <1>7

(* The address register is a number, and the wiring one of a cartridge's. *)
LEMMA MemoryTyped ==
    /\ MemoryInit => MemoryIInv
    /\ MemoryIInv /\ [MemoryNext]_memoryVars => MemoryIInv'
<1>1. MemoryInit => MemoryIInv
    BY DEF MemoryInit, MemoryIInv, Wirings
<1>2. MemoryIInv /\ [MemoryNext]_memoryVars => MemoryIInv'
    <2> SUFFICES ASSUME MemoryIInv, [MemoryNext]_memoryVars PROVE MemoryIInv'
        OBVIOUS
    <2>1. CASE Aim
        BY <2>1, MemoryAssumption DEF Aim, MemoryIInv
    <2>2. CASE Rewire
        <3>1. PICK m \in Mirrorings, b \in PatternMaps :
                wiring' = [wiring EXCEPT !.banks = b, !.mirroring = m]
            BY <2>2 DEF Rewire, MemoryIInv, Wirings
        <3> QED BY <2>2, <3>1 DEF Rewire, MemoryIInv, Wirings
    <2>3. CASE DataRead \/ DataWrite
        <3>1. wiring' = wiring /\ place' \in Onwards(place)
            BY <2>3 DEF DataRead, DataWrite
        <3>2. place' \in Nat
            BY <3>1 DEF Onwards, MemoryIInv
        <3> QED BY <3>1, <3>2 DEF MemoryIInv
    <2>4. CASE OamAim \/ OamWrite \/ OamRead \/ OamDmaWrite \/ UNCHANGED memoryVars
        BY <2>4 DEF OamAim, OamWrite, OamRead, OamDmaWrite, memoryVars, MemoryIInv
    <2> QED BY <2>1, <2>2, <2>3, <2>4 DEF MemoryNext
<1> QED BY <1>1, <1>2

(* A byte written through the data port shows at every mirror of its address *)
(* and nowhere else, for every address and byte a game may use, every        *)
(* mirroring and every arrangement of the patterns' banks.                   *)
THEOREM WritesReachTheirMirrors == MemorySpec => DataReachesItsMirrors
<1>1. MemoryIInv /\ [MemoryNext]_memoryVars => [WriteReaches(AsWired)]_memoryVars
    <2> SUFFICES ASSUME MemoryIInv, DataWrite, NEW a \in VramAddresses
                 PROVE  IF ~SameByte(AsWired, a, place)
                        THEN ReadVram(a)' = ReadVram(a)
                        ELSE \/ ReadVram(a)' = openBus'
                             \/ place >= 16128 /\ ReadVram(a)' = openBus' % 64
                             \/ place < 8192 /\ ~wiring.patternRam /\ ReadVram(a)' = ReadVram(a)
        BY DEF WriteReaches
    <2>1. a \in Nat /\ place \in Nat /\ wiring \in Wirings
        BY MemoryAssumption DEF MemoryIInv
    <2>2. SameByte(AsWired, a, place) <=> Cell(AsWired, a) = Cell(AsWired, place)
        BY <2>1, WiredCells, CellsAreBytes
    <2>3. Cell(AsWired, a) = Cell(wiring, a) /\ Cell(AsWired, place) = Cell(wiring, place)
        BY <2>1, WiredCells
    <2> QED BY <2>1, <2>2, <2>3, WriteEffect
<1> QED BY <1>1, MemoryTyped, PTL DEF MemorySpec, DataReachesItsMirrors

-----------------------------------------------------------------------------
(* The cartridge, Cartridge. *)

(* The bits of a number, one by one. *)
LEMMA Halves ==
    ASSUME NEW n \in Nat
    PROVE  /\ n \div 2 \in Nat /\ n = 2 * (n \div 2) + (n % 2) /\ n % 2 \in {0, 1}
           /\ (n \div 2) \div 2 = n \div 4 /\ (n \div 4) \div 2 = n \div 8
           /\ (n \div 8) \div 2 = n \div 16 /\ (n \div 16) \div 2 = n \div 32
           /\ (n \div 32) \div 2 = n \div 64 /\ (n \div 64) \div 2 = n \div 128
<1>1. n \div 2 \in Nat /\ n = 2 * (n \div 2) + (n % 2) /\ n % 2 \in {0, 1}
    OBVIOUS
<1>2. (n \div 2) \div 2 = n \div 4
    OBVIOUS
<1>3. (n \div 4) \div 2 = n \div 8
    OBVIOUS
<1>4. (n \div 8) \div 2 = n \div 16
    OBVIOUS
<1>5. (n \div 16) \div 2 = n \div 32
    OBVIOUS
<1>6. (n \div 32) \div 2 = n \div 64
    OBVIOUS
<1>7. (n \div 64) \div 2 = n \div 128
    OBVIOUS
<1> QED BY <1>1, <1>2, <1>3, <1>4, <1>5, <1>6, <1>7

(* A number is what its eight lowest bits give, and more. *)
LEMMA BitsOfNumber ==
    ASSUME NEW n \in Nat
    PROVE  \E rest \in Nat :
             n = OfBits(HasBit(n, 128), HasBit(n, 64), HasBit(n, 32), HasBit(n, 16),
                        HasBit(n, 8), HasBit(n, 4), HasBit(n, 2), HasBit(n, 1)) + 256 * rest
<1> DEFINE B(b) == IF b THEN 1 ELSE 0
<1>1. \A m \in Nat : m \div 2 \in Nat /\ m = 2 * (m \div 2) + B(m % 2 = 1)
    OBVIOUS
<1>2. n = 2 * (n \div 2) + B(HasBit(n, 1))
    BY <1>1 DEF HasBit
<1>3. n \div 2 = 2 * (n \div 4) + B(HasBit(n, 2)) /\ n \div 2 \in Nat
    BY <1>1, Halves DEF HasBit
<1>4. n \div 4 = 2 * (n \div 8) + B(HasBit(n, 4)) /\ n \div 4 \in Nat
    BY <1>1, Halves DEF HasBit
<1>5. n \div 8 = 2 * (n \div 16) + B(HasBit(n, 8)) /\ n \div 8 \in Nat
    BY <1>1, Halves DEF HasBit
<1>6. n \div 16 = 2 * (n \div 32) + B(HasBit(n, 16)) /\ n \div 16 \in Nat
    BY <1>1, Halves DEF HasBit
<1>7. n \div 32 = 2 * (n \div 64) + B(HasBit(n, 32)) /\ n \div 32 \in Nat
    BY <1>1, Halves DEF HasBit
<1>8. n \div 64 = 2 * (n \div 128) + B(HasBit(n, 64)) /\ n \div 64 \in Nat
    BY <1>1, Halves DEF HasBit
<1>9. n \div 128 = 2 * ((n \div 128) \div 2) + B(HasBit(n, 128)) /\ n \div 128 \in Nat
      /\ (n \div 128) \div 2 \in Nat
    BY <1>1 DEF HasBit
<1> QED
    BY <1>2, <1>3, <1>4, <1>5, <1>6, <1>7, <1>8, <1>9 DEF OfBits

(* A masked number is at most the mask; it is even if either is, and of an   *)
(* odd mask at most the number below it.                                     *)
LEMMA AndBelow ==
    ASSUME NEW m \in Nat, NEW n \in Nat
    PROVE  /\ BitAnd(m, n) \in 0 .. n
           /\ m % 2 = 0 => BitAnd(m, n) % 2 = 0
<1>1. PICK rest \in Nat :
        n = OfBits(HasBit(n, 128), HasBit(n, 64), HasBit(n, 32), HasBit(n, 16),
                   HasBit(n, 8), HasBit(n, 4), HasBit(n, 2), HasBit(n, 1)) + 256 * rest
    BY BitsOfNumber
<1>2. BitAnd(m, n) \in 0 .. n
    BY <1>1 DEF BitAnd, OfBits
<1>3. ASSUME m % 2 = 0 PROVE BitAnd(m, n) % 2 = 0
    <2>1. ~HasBit(m, 1)
        BY <1>3 DEF HasBit
    <2>2. PICK half \in Nat : BitAnd(m, n) = 2 * half
        <3> DEFINE both(w) == HasBit(m, w) /\ HasBit(n, w)
                   half == OfBits(FALSE, both(128), both(64), both(32), both(16), both(8),
                                  both(4), both(2))
        <3>1. half \in Nat /\ BitAnd(m, n) = 2 * half
            BY <2>1 DEF BitAnd, OfBits
        <3> HIDE DEF half
        <3> QED BY <3>1
    <2> QED BY <2>2
<1> QED BY <1>2, <1>3

(* A masked bank number is one of the banks, even if it was even. *)
LEMMA MaskedBank ==
    ASSUME NEW bank \in Nat, NEW count \in Nat, count > 0
    PROVE  /\ BankMasked(bank, count) \in Nat /\ BankMasked(bank, count) < count
           /\ bank % 2 = 0 => BankMasked(bank, count) % 2 = 0
<1>1. count - 1 \in Nat
    OBVIOUS
<1>2. BitAnd(bank, count - 1) \in 0 .. count - 1
    BY <1>1, AndBelow
<1>3. bank % 2 = 0 => BitAnd(bank, count - 1) % 2 = 0
    BY <1>1, AndBelow
<1> QED BY <1>2, <1>3 DEF BankMasked

(* The even number of a pair. *)
LEMMA EvenBelow ==
    ASSUME NEW n \in Nat
    PROVE  Even(n) \in Nat /\ Even(n) % 2 = 0 /\ Even(n) <= n /\ n <= Even(n) + 1
BY DEF Even

(* An even number below an even one leaves room for its pair. *)
LEMMA PairFits ==
    ASSUME NEW n \in Nat, NEW count \in Nat, n < count, n % 2 = 0, count % 2 = 0
    PROVE  n + 1 < count
OBVIOUS

-----------------------------------------------------------------------------
(* What a cartridge can be, and its banks. *)

Five == 0 .. 31

Carts ==
    [mapper : 0 .. 4, prgUnits : Nat, chrUnits : Nat, chrRam : BOOLEAN, battery : BOOLEAN,
     mirroring : {"Horizontal", "Vertical", "FourScreen"}, select : Nat, latch : Nat,
     shift : Five, count : Nat, ctrl : Five, chr0 : Five, chr1 : Five, prg : Five,
     regs : [0 .. 7 -> Nat], protect : Nat, ram : RamBytes \cup {0}]

(* The sizes are whole banks, and UxROM's and CNROM's bank is in them. *)
Fits(c) ==
    /\ c \in Carts
    /\ c.prgUnits > 0 /\ c.prgUnits % 2 = 0 /\ c.chrUnits > 0 /\ c.chrUnits % 8 = 0
    /\ c.mapper = 2 => 2 * c.select + 2 <= c.prgUnits
    /\ c.mapper = 3 => 8 * c.select + 8 <= c.chrUnits

(* The windows of a PRG and a CHR space, one by one. *)
LEMMA Windows ==
    /\ \A w \in 0 .. 3 : w \in {0, 1, 2, 3}
    /\ \A w \in 0 .. 7 : w \in {0, 1, 2, 3, 4, 5, 6, 7}
OBVIOUS

(* MMC1's PRG windows. *)
LEMMA PrgFits1 ==
    ASSUME NEW c, Fits(c), c.mapper = 1, NEW w \in 0 .. 3
    PROVE  /\ PrgBank1(c, w) \in IF Overhangs(c) /\ w \in {2, 3} THEN {c.prgUnits + w - 2}
                                 ELSE 0 .. c.prgUnits - 1
           /\ Overhangs(c) => c.prgUnits % 4 = 2
           /\ w = 3 /\ PrgMode1(c) = 3 => PrgBank1(c, w) = c.prgUnits - 1
           /\ w \in {0, 2} => PrgBank1(c, w + 1) = PrgBank1(c, w) + 1
<1>1. PICK count \in Nat : count = c.prgUnits \div 2 /\ 2 * count = c.prgUnits /\ count > 0
    BY DEF Fits, Carts, Five
<1>2. c.prg % 16 \in Nat
    BY DEF Fits, Carts, Five
<1>3. PICK s \in Nat : s = BankMasked(c.prg % 16, count) /\ s < count
    BY <1>1, <1>2, MaskedBank
<1>4. PICK e \in Nat : e = Even(s) /\ e < count /\ e % 2 = 0
    <2>1. PICK e \in Nat : e = Even(s) /\ e % 2 = 0 /\ e <= s
        BY EvenBelow
    <2> QED BY <1>3, <2>1
<1>5. PICK mode \in Nat : mode = PrgMode1(c) /\ mode < 4
    <2>1. c.ctrl \in Nat
        BY DEF Fits, Carts, Five
    <2> QED BY <2>1 DEF PrgMode1
<1>6. \A v \in {0, 1, 2, 3} :
        PrgBank1(c, v) = 2 * (IF mode \in {0, 1} THEN e + (v \div 2)
                              ELSE IF mode = 2 THEN IF v \div 2 = 1 THEN s ELSE 0
                              ELSE IF v \div 2 = 1 THEN count - 1 ELSE s) + (v % 2)
    <2>1. mode \in {0, 1} => \A v \in {0, 1, 2, 3} :
             PrgBank1(c, v) = 2 * (e + (v \div 2)) + (v % 2)
        <3> SUFFICES ASSUME mode \in {0, 1}, NEW v \in {0, 1, 2, 3}
                     PROVE  PrgBank1(c, v) = 2 * (e + (v \div 2)) + (v % 2)
            OBVIOUS
        <3>1. PrgMode1(c) \in {0, 1}
            BY <1>5
        <3>2. Even(BankMasked(c.prg % 16, c.prgUnits \div 2)) = e
            BY <1>1, <1>3, <1>4
        <3> QED BY <3>1, <3>2 DEF PrgBank1
    <2>2. mode = 2 => \A v \in {0, 1, 2, 3} :
             PrgBank1(c, v) = 2 * (IF v \div 2 = 1 THEN s ELSE 0) + (v % 2)
        BY <1>1, <1>3, <1>4, <1>5 DEF PrgBank1
    <2>3. mode = 3 => \A v \in {0, 1, 2, 3} :
             PrgBank1(c, v) = 2 * (IF v \div 2 = 1 THEN count - 1 ELSE s) + (v % 2)
        BY <1>1, <1>3, <1>4, <1>5 DEF PrgBank1
    <2>4. mode \in {0, 1} \/ mode = 2 \/ mode = 3
        BY <1>5
    <2> QED BY <2>1, <2>2, <2>3, <2>4
<1>7. /\ 0 \div 2 = 0 /\ 1 \div 2 = 0 /\ 2 \div 2 = 1 /\ 3 \div 2 = 1
      /\ 0 % 2 = 0 /\ 1 % 2 = 1 /\ 2 % 2 = 0 /\ 3 % 2 = 1
    OBVIOUS
<1>8. PrgBank(c, 1) = PrgBank1(c, 1)
    BY DEF PrgBank
<1> HIDE DEF Fits
<1>9. w \in {0, 1, 2, 3} /\ (w \in {0, 2} => w + 1 \in {0, 1, 2, 3})
    BY Windows
<1>10. PICK u \in Nat : u = c.prgUnits /\ 2 * count = u
    BY <1>1
<1>11. Overhangs(c) <=> mode \in {0, 1} /\ e + 1 = count
    <2>1. mode \in {0, 1} => PrgBank1(c, 1) = 2 * e + 1
        BY <1>6, <1>7
    <2> QED BY <1>5, <1>8, <1>10, <2>1 DEF Overhangs
<1>12. PrgBank1(c, w) \in IF Overhangs(c) /\ w \in {2, 3} THEN {c.prgUnits + w - 2}
                          ELSE 0 .. c.prgUnits - 1
    <2>1. PICK q : q = PrgBank1(c, w)
        OBVIOUS
    <2>2. CASE mode \in {0, 1}
        <3>1. w \in {0, 1} => q = 2 * e + w
            BY <1>6, <1>7, <2>1, <2>2
        <3>2. w \in {2, 3} => q = 2 * (e + 1) + w - 2
            BY <1>6, <1>7, <2>1, <2>2
        <3>3. CASE w \in {0, 1}
            BY <1>4, <1>10, <2>1, <3>1, <3>3
        <3>4. CASE w \in {2, 3} /\ e + 1 = count
            BY <1>10, <1>11, <2>1, <2>2, <3>2, <3>4
        <3>5. CASE w \in {2, 3} /\ e + 1 # count
            BY <1>4, <1>10, <1>11, <2>1, <3>2, <3>5
        <3> QED BY <1>9, <3>3, <3>4, <3>5
    <2>3. CASE mode \notin {0, 1}
        <3>1. q \in Nat /\ q < u
            <4>1. CASE w = 0
                BY <1>3, <1>6, <1>7, <1>10, <2>1, <2>3, <4>1
            <4>2. CASE w = 1
                BY <1>3, <1>6, <1>7, <1>10, <2>1, <2>3, <4>2
            <4>3. CASE w = 2
                BY <1>1, <1>3, <1>6, <1>7, <1>10, <2>1, <2>3, <4>3
            <4>4. CASE w = 3
                BY <1>1, <1>3, <1>6, <1>7, <1>10, <2>1, <2>3, <4>4
            <4> QED BY <1>9, <4>1, <4>2, <4>3, <4>4
        <3>2. q \in 0 .. c.prgUnits - 1
            BY <1>10, <3>1
        <3> QED BY <1>11, <2>1, <2>3, <3>2
    <2> QED BY <2>2, <2>3
<1>13. Overhangs(c) => c.prgUnits % 4 = 2
    <2>1. PICK h \in Nat : e = 2 * h
        BY <1>4
    <2> QED BY <1>10, <1>11, <2>1
<1>14. w = 3 /\ PrgMode1(c) = 3 => PrgBank1(c, w) = c.prgUnits - 1
    BY <1>1, <1>3, <1>4, <1>5, <1>6, <1>7, <1>9
<1>15. w \in {0, 2} => PrgBank1(c, w + 1) = PrgBank1(c, w) + 1
    BY <1>1, <1>3, <1>4, <1>6, <1>7, <1>9
<1> QED BY <1>12, <1>13, <1>14, <1>15

(* MMC1's CHR windows. *)
LEMMA ChrFits1 ==
    ASSUME NEW c, Fits(c), NEW w \in 0 .. 7
    PROVE  ChrBank1(c, w) \in 0 .. c.chrUnits - 1
<1>1. PICK units \in Nat : units = c.chrUnits /\ units % 8 = 0 /\ units > 0
    BY DEF Fits, Carts, Five
<1>2. PICK count \in Nat : count = units \div 4 /\ 4 * count = units
                           /\ count > 0 /\ count % 2 = 0
    BY <1>1
<1>3. c.chr0 \in Nat /\ c.chr1 \in Nat
    BY DEF Fits, Carts, Five
<1>4. CASE c.chrRam
    BY <1>1, <1>4 DEF ChrBank1
<1>5. CASE ~c.chrRam /\ Bit(c.ctrl, 4) = 1
    <2>1. PICK reg \in Nat : ChrBank1(c, w) = 4 * BankMasked(reg, count) + (w % 4)
        BY <1>1, <1>2, <1>3, <1>5 DEF ChrBank1
    <2>2. PICK b \in Nat : b = BankMasked(reg, count) /\ b < count
        BY <1>2, MaskedBank
    <2> QED BY <1>1, <1>2, <2>1, <2>2
<1>6. CASE ~c.chrRam /\ Bit(c.ctrl, 4) # 1
    <2>1. ChrBank1(c, w) = 4 * BankMasked(Even(c.chr0), count) + w
        BY <1>1, <1>2, <1>6 DEF ChrBank1
    <2>2. Even(c.chr0) \in Nat /\ Even(c.chr0) % 2 = 0
        BY <1>3, EvenBelow
    <2>3. PICK b \in Nat : b = BankMasked(Even(c.chr0), count) /\ b < count /\ b % 2 = 0
        BY <1>2, <2>2, MaskedBank
    <2>4. b + 1 < count
        BY <1>2, <2>3, PairFits
    <2> QED BY <1>1, <1>2, <2>1, <2>3, <2>4
<1> QED BY <1>4, <1>5, <1>6

(* MMC3's windows. *)
LEMMA PrgFits4 ==
    ASSUME NEW c, Fits(c), NEW w \in 0 .. 3
    PROVE  /\ PrgBank4(c, w) \in 0 .. c.prgUnits - 1
           /\ w = 3 => PrgBank4(c, w) = c.prgUnits - 1
<1>1. PICK units \in Nat : units = c.prgUnits /\ units > 0
    BY DEF Fits, Carts, Five
<1>2. c.regs[6] \in Nat /\ c.regs[7] \in Nat
    BY DEF Fits, Carts, Five
<1>3. PICK v : v = IF Bit(c.latch, 6) = 1 /\ w \in {0, 2} THEN 2 - w ELSE w
    OBVIOUS
<1>4. v \in {0, 1, 2, 3} /\ (w = 3 => v = 3)
    BY <1>3, Windows
<1>5. PrgBank4(c, w) = IF v = 0 THEN BankMasked(c.regs[6], units)
                       ELSE IF v = 1 THEN BankMasked(c.regs[7], units)
                       ELSE IF v = 2 THEN IF units = 1 THEN 0 ELSE units - 2
                       ELSE units - 1
    BY <1>1, <1>3, <1>4 DEF PrgBank4
<1>6. /\ BankMasked(c.regs[6], units) \in Nat /\ BankMasked(c.regs[6], units) < units
      /\ BankMasked(c.regs[7], units) \in Nat /\ BankMasked(c.regs[7], units) < units
    BY <1>1, <1>2, MaskedBank
<1> QED BY <1>1, <1>4, <1>5, <1>6

(* MMC3's CHR windows. *)
LEMMA ChrFits4 ==
    ASSUME NEW c, Fits(c), NEW w \in 0 .. 7
    PROVE  ChrBank4(c, w) \in 0 .. c.chrUnits - 1
<1>1. PICK units \in Nat : units = c.chrUnits /\ units % 2 = 0 /\ units > 0
    BY DEF Fits, Carts, Five
<1>2. PICK v \in 0 .. 7 : v = IF Bit(c.latch, 7) = 1 THEN (w + 4) % 8 ELSE w
    OBVIOUS
<1>3. CASE v < 4
    <2>1. v \div 2 \in 0 .. 7 /\ v % 2 \in {0, 1}
        BY <1>2, <1>3
    <2>2. PICK e \in Nat : e = Even(c.regs[v \div 2]) /\ e % 2 = 0
        BY <2>1, EvenBelow DEF Fits, Carts, Five
    <2>3. PICK b \in Nat : b = BankMasked(e, units) /\ b < units /\ b % 2 = 0
        BY <1>1, <2>2, MaskedBank
    <2>4. b + 1 < units
        BY <1>1, <2>3, PairFits
    <2>5. ChrBank4(c, w) = b + (v % 2)
        BY <1>1, <1>2, <1>3, <2>2, <2>3 DEF ChrBank4
    <2>6. b + (v % 2) < units /\ b + (v % 2) \in Nat
        BY <2>1, <2>3, <2>4
    <2>7. b + (v % 2) \in 0 .. units - 1
        BY <1>1, <2>6
    <2> QED BY <1>1, <2>5, <2>7
<1>4. CASE ~(v < 4)
    <2>1. v - 2 \in 0 .. 7
        BY <1>2, <1>4
    <2>2. c.regs[v - 2] \in Nat
        BY <2>1 DEF Fits, Carts, Five
    <2>3. PICK b \in Nat : b = BankMasked(c.regs[v - 2], units) /\ b < units
        BY <1>1, <2>2, MaskedBank
    <2>4. ChrBank4(c, w) = b
        BY <1>1, <1>2, <1>4, <2>3 DEF ChrBank4
    <2> QED BY <1>1, <2>3, <2>4
<1> QED BY <1>3, <1>4

(* A cartridge whose sizes and registers fit shows banks it has, but for an  *)
(* MMC1 that has an odd number of them.                                      *)
LEMMA BanksFit ==
    ASSUME NEW c, Fits(c)
    PROVE  /\ \A w \in 0 .. 3 :
                PrgBank(c, w) \in IF Overhangs(c) /\ w \in {2, 3} THEN {c.prgUnits + w - 2}
                                  ELSE 0 .. c.prgUnits - 1
           /\ Overhangs(c) => c.prgUnits % 4 = 2
           /\ \A w \in 0 .. 7 : ChrBank(c, w) \in 0 .. c.chrUnits - 1
           /\ c.mapper \in {2, 4} \/ (c.mapper = 1 /\ PrgMode1(c) = 3) =>
                PrgBank(c, 3) = c.prgUnits - 1
           /\ \A w \in {0, 2} : c.mapper # 4 => PrgBank(c, w + 1) = PrgBank(c, w) + 1
<1>1. PICK prg \in Nat, chr \in Nat :
        /\ prg = c.prgUnits /\ prg > 0 /\ prg % 2 = 0
        /\ chr = c.chrUnits /\ chr >= 8
    BY DEF Fits, Carts, Five
<1>2. c.mapper \in {0, 1, 2, 3, 4} /\ c.select \in Nat /\ (c.mapper # 1 => ~Overhangs(c))
    BY DEF Fits, Carts, Five, Overhangs
<1>3. ASSUME NEW w \in 0 .. 7
      PROVE  ChrBank(c, w) \in 0 .. c.chrUnits - 1
    <2>1. CASE c.mapper \in {0, 2}
        BY <1>1, <2>1 DEF ChrBank
    <2>2. CASE c.mapper = 1
        BY <2>2, ChrFits1 DEF ChrBank
    <2>3. CASE c.mapper = 3
        <3>1. 8 * c.select + 8 <= chr
            BY <1>1, <2>3 DEF Fits
        <3>2. ChrBank(c, w) = 8 * c.select + w
            BY <2>3 DEF ChrBank
        <3> QED BY <1>1, <1>2, <3>1, <3>2
    <2>4. CASE c.mapper = 4
        BY <2>4, ChrFits4 DEF ChrBank
    <2> QED BY <1>2, <2>1, <2>2, <2>3, <2>4
<1>4. CASE c.mapper \in {0, 3}
    <2>1. \A w \in {0, 1, 2, 3} : PrgBank(c, w) = IF prg = 2 THEN w % 2 ELSE w
        BY <1>1, <1>4 DEF PrgBank
    <2>2. prg = 2 \/ prg >= 4
        BY <1>1
    <2>3. 0 % 2 = 0 /\ 1 % 2 = 1 /\ 2 % 2 = 0 /\ 3 % 2 = 1
        OBVIOUS
    <2>4. /\ \A w \in {0, 1, 2, 3} : PrgBank(c, w) \in 0 .. c.prgUnits - 1
          /\ \A w \in {0, 2} : PrgBank(c, w + 1) = PrgBank(c, w) + 1
        BY <1>1, <2>1, <2>2, <2>3
    <2>5. c.mapper # 1 /\ c.mapper # 2 /\ c.mapper # 4 /\ ~Overhangs(c)
        BY <1>2, <1>4
    <2> QED BY <1>3, <2>4, <2>5, Windows
<1>5. CASE c.mapper = 1
    <2>1. Overhangs(c) => c.prgUnits % 4 = 2
        BY <1>5, PrgFits1
    <2>2. \A w \in {0, 1, 2, 3} : PrgBank(c, w) = PrgBank1(c, w)
        BY <1>5 DEF PrgBank
    <2>3. \A w \in {0, 1, 2, 3} :
            /\ PrgBank1(c, w) \in IF Overhangs(c) /\ w \in {2, 3} THEN {c.prgUnits + w - 2}
                                  ELSE 0 .. c.prgUnits - 1
            /\ w = 3 /\ PrgMode1(c) = 3 => PrgBank1(c, w) = c.prgUnits - 1
            /\ w \in {0, 2} => PrgBank1(c, w + 1) = PrgBank1(c, w) + 1
        BY <1>5, PrgFits1
    <2> QED BY <1>3, <1>5, <2>1, <2>2, <2>3, Windows
<1>6. CASE c.mapper = 2
    <2>1. 2 * c.select + 2 <= prg
        BY <1>1, <1>6 DEF Fits
    <2>2. \A w \in {0, 1, 2, 3} :
            PrgBank(c, w) = IF w < 2 THEN 2 * c.select + w ELSE prg - 4 + w
        BY <1>1, <1>6 DEF PrgBank
    <2>3. prg >= 2
        BY <1>1
    <2> QED BY <1>1, <1>2, <1>3, <1>6, <2>1, <2>2, <2>3, Windows
<1>7. CASE c.mapper = 4
    <2>1. \A w \in {0, 1, 2, 3} : PrgBank(c, w) = PrgBank4(c, w)
        BY <1>7 DEF PrgBank
    <2>2. \A w \in {0, 1, 2, 3} :
            PrgBank(c, w) \in 0 .. c.prgUnits - 1 /\ (w = 3 => PrgBank(c, w) = c.prgUnits - 1)
        BY <2>1, PrgFits4
    <2>3. c.mapper # 1 /\ c.mapper = 4 /\ ~Overhangs(c)
        BY <1>2, <1>7
    <2> QED BY <1>3, <2>2, <2>3, Windows
<1> QED BY <1>2, <1>4, <1>5, <1>6, <1>7

-----------------------------------------------------------------------------
(* The registers' writes. *)

(* A reset of MMC1's port fixes the last bank and leaves the mirroring.      *)
LEMMA ResetControl ==
    ASSUME NEW n \in 0 .. 31
    PROVE  /\ BitOr(n, 12) \in 0 .. 31
           /\ BitOr(n, 12) = 16 * (n \div 16) + 12 + (n % 4)
<1>1. /\ HasBit(12, 8) /\ HasBit(12, 4) /\ ~HasBit(12, 1) /\ ~HasBit(12, 2) /\ ~HasBit(12, 16)
      /\ ~HasBit(12, 32) /\ ~HasBit(12, 64) /\ ~HasBit(12, 128)
    BY DEF HasBit
<1>2. PICK b0 \in {0, 1}, b1 \in {0, 1}, b4 \in {0, 1}, middle \in 0 .. 3 :
        /\ n = 16 * b4 + 4 * middle + 2 * b1 + b0
        /\ BitOr(n, 12) = 16 * b4 + 12 + 2 * b1 + b0
    <2>1. PICK rest \in Nat :
            n = OfBits(HasBit(n, 128), HasBit(n, 64), HasBit(n, 32), HasBit(n, 16),
                       HasBit(n, 8), HasBit(n, 4), HasBit(n, 2), HasBit(n, 1)) + 256 * rest
        BY BitsOfNumber
    <2>2. rest = 0 /\ ~HasBit(n, 128) /\ ~HasBit(n, 64) /\ ~HasBit(n, 32)
        BY <2>1 DEF OfBits
    <2>3. PICK b0 \in {0, 1}, b1 \in {0, 1}, b4 \in {0, 1}, middle \in 0 .. 3 :
            /\ b0 = (IF HasBit(n, 1) THEN 1 ELSE 0) /\ b1 = (IF HasBit(n, 2) THEN 1 ELSE 0)
            /\ b4 = (IF HasBit(n, 16) THEN 1 ELSE 0)
            /\ middle = (IF HasBit(n, 8) THEN 2 ELSE 0) + (IF HasBit(n, 4) THEN 1 ELSE 0)
        OBVIOUS
    <2>4. n = 16 * b4 + 4 * middle + 2 * b1 + b0
        BY <2>1, <2>2, <2>3 DEF OfBits
    <2>5. BitOr(n, 12) = 16 * b4 + 12 + 2 * b1 + b0
        BY <1>1, <2>2, <2>3 DEF BitOr, OfBits
    <2> QED BY <2>4, <2>5
<1>3. 16 * b4 + 12 + 2 * b1 + b0 \in 0 .. 31
    OBVIOUS
<1>4. /\ (16 * b4 + 4 * middle + 2 * b1 + b0) \div 16 = b4
      /\ (16 * b4 + 4 * middle + 2 * b1 + b0) % 4 = 2 * b1 + b0
    OBVIOUS
<1> QED BY <1>2, <1>3, <1>4

(* What the bits sent so far have made of the shift register. *)
Partial(sent) ==
    IF Len(sent) = 0 THEN 0
    ELSE IF Len(sent) = 1 THEN 16 * sent[1]
    ELSE IF Len(sent) = 2 THEN 8 * sent[1] + 16 * sent[2]
    ELSE IF Len(sent) = 3 THEN 4 * sent[1] + 8 * sent[2] + 16 * sent[3]
    ELSE 2 * sent[1] + 4 * sent[2] + 8 * sent[3] + 16 * sent[4]

(* MMC1 counts the bits it was sent, and holds them. *)
Holds(c, sent) ==
    /\ sent \in Seq({0, 1})
    /\ IF c.mapper = 1
       THEN Len(sent) = c.count /\ Len(sent) <= 4 /\ c.shift = Partial(sent)
       ELSE sent = << >>

(* The next bit. *)
LEMMA NextBit ==
    ASSUME NEW sent \in Seq({0, 1}), NEW b \in {0, 1}, Len(sent) <= 4,
           NEW longer, longer = Append(sent, b),
           NEW s, s = (Partial(sent) \div 2) + 16 * b
    PROVE  /\ s \in 0 .. 31
           /\ Len(sent) < 4 => s = Partial(longer)
           /\ Len(sent) = 4 => s = Value(longer)
<1>1. PICK len \in Nat : len = Len(sent) /\ len <= 4
    OBVIOUS
<1>2. /\ Len(longer) = len + 1 /\ longer[len + 1] = b
      /\ \A i \in 1 .. len : longer[i] = sent[i] /\ sent[i] \in {0, 1}
    BY <1>1
<1>3. 16 * b = (IF b = 0 THEN 0 ELSE 16) /\ b \in Nat
    OBVIOUS
<1>4. CASE len = 0
    <2>1. Partial(sent) = 0
        BY <1>1, <1>4 DEF Partial
    <2>2. Len(longer) = 1 /\ longer[1] = b
        BY <1>2, <1>4
    <2>3. Partial(longer) = 16 * b
        BY <2>2 DEF Partial
    <2> QED BY <1>1, <1>3, <1>4, <2>1, <2>3
<1>5. CASE len = 1
    <2>1. PICK x \in {0, 1} : x = sent[1]
        BY <1>2, <1>5
    <2>2. Partial(sent) = 16 * x
        BY <1>1, <1>5, <2>1 DEF Partial
    <2>3. Len(longer) = 2 /\ longer[1] = x /\ longer[2] = b
        BY <1>2, <1>5, <2>1
    <2>4. Partial(longer) = 8 * x + 16 * b
        BY <2>3 DEF Partial
    <2> QED BY <1>1, <1>3, <1>5, <2>2, <2>4
<1>6. CASE len = 2
    <2>1. PICK x \in {0, 1}, y \in {0, 1} : x = sent[1] /\ y = sent[2]
        BY <1>2, <1>6
    <2>2. Partial(sent) = 8 * x + 16 * y
        BY <1>1, <1>6, <2>1 DEF Partial
    <2>3. Len(longer) = 3 /\ longer[1] = x /\ longer[2] = y /\ longer[3] = b
        BY <1>2, <1>6, <2>1
    <2>4. Partial(longer) = 4 * x + 8 * y + 16 * b
        BY <2>3 DEF Partial
    <2> QED BY <1>1, <1>3, <1>6, <2>2, <2>4
<1>7. CASE len = 3
    <2>1. PICK x \in {0, 1}, y \in {0, 1}, z \in {0, 1} :
            x = sent[1] /\ y = sent[2] /\ z = sent[3]
        BY <1>2, <1>7
    <2>2. Partial(sent) = 4 * x + 8 * y + 16 * z
        BY <1>1, <1>7, <2>1 DEF Partial
    <2>3. Len(longer) = 4 /\ longer[1] = x /\ longer[2] = y /\ longer[3] = z /\ longer[4] = b
        BY <1>2, <1>7, <2>1
    <2>4. Partial(longer) = 2 * x + 4 * y + 8 * z + 16 * b
        BY <2>3 DEF Partial
    <2> QED BY <1>1, <1>3, <1>7, <2>2, <2>4
<1>8. CASE len = 4
    <2>1. PICK x \in {0, 1}, y \in {0, 1}, z \in {0, 1}, u \in {0, 1} :
            x = sent[1] /\ y = sent[2] /\ z = sent[3] /\ u = sent[4]
        BY <1>2, <1>8
    <2>2. Partial(sent) = 2 * x + 4 * y + 8 * z + 16 * u
        BY <1>1, <1>8, <2>1 DEF Partial
    <2>3. /\ longer[1] = x /\ longer[2] = y /\ longer[3] = z /\ longer[4] = u
          /\ longer[5] = b
        BY <1>2, <1>8, <2>1
    <2>4. Value(longer) = x + 2 * y + 4 * z + 8 * u + 16 * b
        BY <2>3 DEF Value
    <2>5. PICK h \in Nat : h = x + 2 * y + 4 * z + 8 * u /\ h < 16
        <3>1. /\ x \in Nat /\ y \in Nat /\ z \in Nat /\ u \in Nat
              /\ x <= 1 /\ y <= 1 /\ z <= 1 /\ u <= 1
            OBVIOUS
        <3> QED BY <3>1
    <2>6. Partial(sent) = 2 * h
        BY <2>2, <2>5
    <2>7. Partial(sent) \div 2 = h
        BY <2>6
    <2>8. s = h + 16 * b
        BY <2>7
    <2>9. s = Value(longer)
        BY <2>4, <2>5, <2>8
    <2>10. s \in 0 .. 31
        <3>1. b = 0 \/ b = 1
            OBVIOUS
        <3>2. s = h \/ s = h + 16
            BY <2>8, <3>1
        <3>3. s \in Nat /\ s < 32
            BY <2>5, <3>2
        <3>4. \A n \in Nat : n < 32 => n \in 0 .. 31
            OBVIOUS
        <3> QED BY <3>3, <3>4, Zenon
    <2>11. Len(sent) = 4 /\ ~(Len(sent) < 4)
        BY <1>1, <1>8
    <2> QED BY <2>9, <2>10, <2>11, Zenon
<1>9. len = 0 \/ len = 1 \/ len = 2 \/ len = 3 \/ len = 4
    BY <1>1, SMTT(20)
<1> QED BY <1>4, <1>5, <1>6, <1>7, <1>8, <1>9, Zenon

(* Only the registers of MMC1 have changed: the sizes still fit. *)
LEMMA StillFits ==
    ASSUME NEW c, Fits(c), NEW d \in Carts, c.mapper \notin {2, 3}, d.mapper = c.mapper,
           d.prgUnits = c.prgUnits, d.chrUnits = c.chrUnits
    PROVE  Fits(d)
<1>1. d.mapper # 2 /\ d.mapper # 3
    OBVIOUS
<1> QED BY <1>1 DEF Fits

(* A write to MMC1's port makes d of c: a reset, a further bit, or the fifth. *)
SerialOutcome(c, area, byte, sent, d) ==
    /\ Fits(d) /\ d.mapper = 1
    /\ Holds(d, IF Bit(byte, 7) = 1 \/ Len(sent) = 4 THEN << >> ELSE Append(sent, byte % 2))
    /\ Bit(byte, 7) = 1 =>
         /\ d.ctrl = BitOr(c.ctrl, 12)
         /\ d.chr0 = c.chr0 /\ d.chr1 = c.chr1 /\ d.prg = c.prg
    /\ Bit(byte, 7) # 1 /\ Len(sent) = 4 =>
         /\ d.ctrl = IF area = 0 THEN Value(Append(sent, byte % 2)) ELSE c.ctrl
         /\ d.chr0 = IF area = 1 THEN Value(Append(sent, byte % 2)) ELSE c.chr0
         /\ d.chr1 = IF area = 2 THEN Value(Append(sent, byte % 2)) ELSE c.chr1
         /\ d.prg = IF area = 3 THEN Value(Append(sent, byte % 2)) ELSE c.prg
    /\ Bit(byte, 7) # 1 /\ Len(sent) # 4 =>
         d.ctrl = c.ctrl /\ d.chr0 = c.chr0 /\ d.chr1 = c.chr1 /\ d.prg = c.prg

(* A write to MMC1's serial port: the fifth loads the register it was sent to. *)
LEMMA SerialEffect ==
    ASSUME NEW c, Fits(c), c.mapper = 1, NEW area \in 0 .. 3, NEW byte \in Nat,
           NEW sent, Holds(c, sent)
    PROVE  SerialOutcome(c, area, byte, sent, SerialWrite(c, area, byte))
<1> PICK d : d = SerialWrite(c, area, byte)
    OBVIOUS
<1> PICK longer : longer = Append(sent, byte % 2)
    OBVIOUS
<1>1. PICK b \in {0, 1} : b = byte % 2
    OBVIOUS
<1>2. c \in Carts
    BY DEF Fits
<1>3. /\ sent \in Seq({0, 1}) /\ Len(sent) \in Nat /\ Len(sent) <= 4
      /\ c.shift = Partial(sent) /\ c.count = Len(sent)
    BY DEF Holds
<1>4. PICK s : s = (c.shift \div 2) + 16 * b
    OBVIOUS
<1>5. /\ s \in 0 .. 31
      /\ Len(sent) < 4 => s = Partial(longer)
      /\ Len(sent) = 4 => s = Value(longer)
    <2>1. s = (Partial(sent) \div 2) + 16 * b /\ longer = Append(sent, b)
        BY <1>1, <1>3, <1>4
    <2> QED BY <1>3, <2>1, NextBit, ZenonT(20)
<1>6. s \in Five /\ 0 \in Five /\ 0 \in Nat
    BY <1>5 DEF Five
<1>7. << >> \in Seq({0, 1}) /\ Len(<< >>) = 0 /\ Partial(<< >>) = 0 /\ Len(<< >>) <= 4
    BY DEF Partial
<1>8. CASE Bit(byte, 7) = 1
    <2>1. PICK k \in Five : k = BitOr(c.ctrl, 12)
        <3>1. c.ctrl \in 0 .. 31
            BY <1>2 DEF Carts, Five
        <3> QED BY <3>1, ResetControl DEF Five
    <2>2. d = [c EXCEPT !.shift = 0, !.count = 0, !.ctrl = k]
        BY <1>2, <1>8, <2>1 DEF SerialWrite, ResetShift, Carts
    <2>3. /\ d \in Carts /\ d.mapper = 1 /\ d.shift = 0 /\ d.count = 0
          /\ d.prgUnits = c.prgUnits /\ d.chrUnits = c.chrUnits
          /\ d.ctrl = k /\ d.chr0 = c.chr0 /\ d.chr1 = c.chr1 /\ d.prg = c.prg
        <3>1. 0 \in Five /\ 0 \in Nat /\ k \in Five
            BY <1>6, <2>1
        <3>2. d \in Carts
            BY <1>2, <2>2, <3>1 DEF Carts
        <3> QED BY <1>2, <2>2, <3>2 DEF Carts
    <2>4. Fits(d)
        BY <2>3, StillFits
    <2>5. Holds(d, << >>)
        BY <1>7, <2>3 DEF Holds
    <2> QED BY <1>8, <2>1, <2>3, <2>4, <2>5 DEF SerialOutcome
<1>9. PICK e : e = [c EXCEPT !.shift = s, !.count = c.count + 1]
    OBVIOUS
<1>10. /\ e \in Carts /\ e.mapper = 1 /\ e.shift = s /\ e.count = c.count + 1
       /\ e.prgUnits = c.prgUnits /\ e.chrUnits = c.chrUnits
       /\ e.ctrl = c.ctrl /\ e.chr0 = c.chr0 /\ e.chr1 = c.chr1 /\ e.prg = c.prg
    <2>1. c.count + 1 \in Nat
        <3>1. c.count \in Nat
            BY <1>2 DEF Carts
        <3> QED BY <3>1
    <2>2. e \in Carts
        BY <1>2, <1>6, <1>9, <2>1 DEF Carts
    <2>3. /\ e.mapper = 1 /\ e.shift = s /\ e.count = c.count + 1
          /\ e.prgUnits = c.prgUnits /\ e.chrUnits = c.chrUnits
          /\ e.ctrl = c.ctrl /\ e.chr0 = c.chr0 /\ e.chr1 = c.chr1 /\ e.prg = c.prg
        BY <1>2, <1>9 DEF Carts
    <2> QED BY <2>2, <2>3
<1>11. e = [c EXCEPT !.shift = (@ \div 2) + 16 * (byte % 2), !.count = @ + 1]
    BY <1>1, <1>2, <1>4, <1>9 DEF Carts
<1>12. CASE Bit(byte, 7) # 1 /\ Len(sent) < 4
    <2>1. d = e
        <3>1. e.count < 5
            BY <1>3, <1>10, <1>12
        <3> QED BY <1>11, <1>12, <3>1 DEF SerialWrite
    <2>2. Fits(e)
        BY <1>10, StillFits
    <2>3. longer \in Seq({0, 1}) /\ Len(longer) = Len(sent) + 1
        BY <1>1, <1>3
    <2>4. Holds(e, longer)
        BY <1>3, <1>5, <1>10, <1>12, <2>3 DEF Holds
    <2>5. Len(sent) # 4
        <3>1. \A n \in Nat : n < 4 => n # 4
            OBVIOUS
        <3> QED BY <1>3, <1>12, <3>1, Zenon
    <2> QED BY <1>10, <1>12, <2>1, <2>2, <2>4, <2>5 DEF SerialOutcome
<1>13. CASE Bit(byte, 7) # 1 /\ Len(sent) = 4
    <2>1. ~(e.count < 5)
        BY <1>3, <1>10, <1>13
    <2>2. d = [Commit(e, area, e.shift) EXCEPT !.shift = 0, !.count = 0]
        BY <1>11, <1>13, <2>1 DEF SerialWrite
    <2>3. PICK g : g = Commit(e, area, s)
        OBVIOUS
    <2>4. d = [g EXCEPT !.shift = 0, !.count = 0]
        BY <1>10, <2>2, <2>3
    <2>5. area \in {0, 1, 2, 3}
        BY Windows
    <2>6. /\ g \in Carts /\ g.mapper = 1
          /\ g.prgUnits = e.prgUnits /\ g.chrUnits = e.chrUnits
          /\ g.ctrl = IF area = 0 THEN s ELSE e.ctrl
          /\ g.chr0 = IF area = 1 THEN s ELSE e.chr0
          /\ g.chr1 = IF area = 2 THEN s ELSE e.chr1
          /\ g.prg = IF area = 3 THEN s ELSE e.prg
        <3>1. CASE area = 0
            <4>1. g = [e EXCEPT !.ctrl = s]
                BY <2>3, <3>1 DEF Commit
            <4>2. g \in Carts
                BY <1>6, <1>10, <4>1 DEF Carts
            <4>3. /\ g.mapper = 1 /\ g.prgUnits = e.prgUnits /\ g.chrUnits = e.chrUnits
                  /\ g.ctrl = s /\ g.chr0 = e.chr0
                  /\ g.chr1 = e.chr1 /\ g.prg = e.prg
                BY <1>10, <4>1 DEF Carts
            <4> QED BY <3>1, <4>2, <4>3
        <3>2. CASE area = 1
            <4>1. g = [e EXCEPT !.chr0 = s]
                BY <2>3, <3>2 DEF Commit
            <4>2. g \in Carts
                BY <1>6, <1>10, <4>1 DEF Carts
            <4>3. /\ g.mapper = 1 /\ g.prgUnits = e.prgUnits /\ g.chrUnits = e.chrUnits
                  /\ g.ctrl = e.ctrl /\ g.chr0 = s
                  /\ g.chr1 = e.chr1 /\ g.prg = e.prg
                BY <1>10, <4>1 DEF Carts
            <4> QED BY <3>2, <4>2, <4>3
        <3>3. CASE area = 2
            <4>1. g = [e EXCEPT !.chr1 = s]
                BY <2>3, <3>3 DEF Commit
            <4>2. g \in Carts
                BY <1>6, <1>10, <4>1 DEF Carts
            <4>3. /\ g.mapper = 1 /\ g.prgUnits = e.prgUnits /\ g.chrUnits = e.chrUnits
                  /\ g.ctrl = e.ctrl /\ g.chr0 = e.chr0
                  /\ g.chr1 = s /\ g.prg = e.prg
                BY <1>10, <4>1 DEF Carts
            <4> QED BY <3>3, <4>2, <4>3
        <3>4. CASE area = 3
            <4>1. g = [e EXCEPT !.prg = s]
                BY <2>3, <3>4 DEF Commit
            <4>2. g \in Carts
                BY <1>6, <1>10, <4>1 DEF Carts
            <4>3. /\ g.mapper = 1 /\ g.prgUnits = e.prgUnits /\ g.chrUnits = e.chrUnits
                  /\ g.ctrl = e.ctrl /\ g.chr0 = e.chr0
                  /\ g.chr1 = e.chr1 /\ g.prg = s
                BY <1>10, <4>1 DEF Carts
            <4> QED BY <3>4, <4>2, <4>3
        <3> QED BY <2>5, <3>1, <3>2, <3>3, <3>4
    <2>7. /\ d \in Carts /\ d.mapper = 1 /\ d.shift = 0 /\ d.count = 0
          /\ d.prgUnits = c.prgUnits /\ d.chrUnits = c.chrUnits
          /\ d.ctrl = g.ctrl /\ d.chr0 = g.chr0 /\ d.chr1 = g.chr1 /\ d.prg = g.prg
        BY <1>6, <1>10, <2>4, <2>6 DEF Carts
    <2>8. Fits(d)
        BY <2>7, StillFits
    <2>9. Holds(d, << >>)
        BY <1>7, <2>7 DEF Holds
    <2>10. s = Value(longer)
        BY <1>5, <1>13
    <2>11. /\ d.ctrl = IF area = 0 THEN Value(longer) ELSE c.ctrl
           /\ d.chr0 = IF area = 1 THEN Value(longer) ELSE c.chr0
           /\ d.chr1 = IF area = 2 THEN Value(longer) ELSE c.chr1
           /\ d.prg = IF area = 3 THEN Value(longer) ELSE c.prg
        BY <1>10, <2>6, <2>7, <2>10
    <2> QED BY <1>13, <2>7, <2>8, <2>9, <2>11 DEF SerialOutcome
<1>14. Len(sent) < 4 \/ Len(sent) = 4
    <2>1. \A n \in Nat : n <= 4 => n < 4 \/ n = 4
        OBVIOUS
    <2> QED BY <1>3, <2>1, Zenon
<1> QED BY <1>8, <1>12, <1>13, <1>14

-----------------------------------------------------------------------------
(* A cartridge that was accepted has whole banks, a bank register that fits  *)
(* and, on an MMC1, a shift register that holds the bits sent to it and      *)
(* registers that hold what they were loaded with.                           *)
LoadedTypes == loaded \in [ctrl : Five, chr0 : Five, chr1 : Five, prg : Five]

AsLoaded(c, regs) ==
    /\ c.ctrl = regs.ctrl /\ c.chr0 = regs.chr0 /\ c.chr1 = regs.chr1 /\ c.prg = regs.prg

CartIInv ==
    /\ LoadedTypes
    /\ cart # Refused =>
         /\ Fits(cart) /\ Holds(cart, bits)
         /\ cart.mapper = 1 => AsLoaded(cart, loaded)

(* What the parser accepts.                                                  *)
LEMMA NewCartFits ==
    ASSUME NEW f \in Files, ParseError(f) = "none"
    PROVE  /\ Fits(NewCart(f)) /\ Holds(NewCart(f), << >>)
           /\ NewCart(f).ctrl = 12
           /\ NewCart(f).chr0 = 0 /\ NewCart(f).chr1 = 0 /\ NewCart(f).prg = 0
<1>1. f.prg \in Nat /\ f.prg # 0 /\ f.chr \in Nat
    BY FileAssumption DEF ParseError
<1>2. MapperNumber(f) \in 0 .. 4
    BY DEF ParseError
<1>3. PICK d : d = NewCart(f)
    OBVIOUS
<1>4. PICK m \in 0 .. 4 : m = MapperNumber(f)
    BY <1>2
<1>5. PICK prg \in Nat : prg = 2 * f.prg /\ prg % 2 = 0 /\ prg >= 2
    BY <1>1
<1>6. PICK chr \in Nat : chr = (IF f.chr = 0 \/ MapperNumber(f) = 2 THEN 8 ELSE 8 * f.chr)
                         /\ chr % 8 = 0 /\ chr >= 8
    BY <1>1
<1>7. PICK mirroring \in {"Horizontal", "Vertical", "FourScreen"} : mirroring = HeaderMirroring(f)
    BY DEF HeaderMirroring
<1>8. PICK ram \in BOOLEAN : ram = (f.chr = 0 \/ MapperNumber(f) = 2)
    BY Zenon
<1>9. PICK kept \in BOOLEAN : kept = (f.battery /\ MapperNumber(f) \in {0, 1, 4})
    BY Zenon
<1>10. PICK regs \in [0 .. 7 -> Nat] : regs = [r \in 0 .. 7 |-> 0]
    OBVIOUS
<1>11. d = [mapper |-> m, prgUnits |-> prg, chrUnits |-> chr, chrRam |-> ram, battery |-> kept,
            mirroring |-> mirroring, select |-> 0, latch |-> 0,
            shift |-> 0, count |-> 0, ctrl |-> 12, chr0 |-> 0, chr1 |-> 0, prg |-> 0,
            regs |-> regs, protect |-> 128, ram |-> 0]
    BY <1>3, <1>4, <1>5, <1>6, <1>7, <1>8, <1>9, <1>10, Zenon DEF NewCart
<1>12. 0 \in Five /\ 12 \in Five /\ 0 \in RamBytes \cup {0} /\ 0 \in Nat /\ 128 \in Nat
    BY DEF Five
<1>13. d \in Carts
    BY <1>11, <1>12 DEF Carts
<1>14. /\ d.mapper = m /\ d.prgUnits = prg /\ d.chrUnits = chr /\ d.select = 0
       /\ d.count = 0 /\ d.shift = 0
       /\ d.ctrl = 12 /\ d.chr0 = 0 /\ d.chr1 = 0 /\ d.prg = 0
    BY <1>11
<1>15. Fits(d)
    BY <1>5, <1>6, <1>13, <1>14 DEF Fits
<1>16. << >> \in Seq({0, 1}) /\ Len(<< >>) = 0 /\ Partial(<< >>) = 0 /\ Len(<< >>) <= 4
    BY DEF Partial
<1>17. Holds(d, << >>)
    BY <1>14, <1>16 DEF Holds
<1> QED BY <1>3, <1>14, <1>15, <1>17

(* A write to the registers of the other mappers. *)
LEMMA OtherEffect ==
    ASSUME NEW c, Fits(c), c.mapper # 1, NEW area, NEW odd, NEW byte \in Nat,
           NEW d, d = WriteRom(c, area, odd, byte)
    PROVE  Fits(d) /\ d.mapper = c.mapper
<1>1. c \in Carts
    BY DEF Fits
<1>2. PICK prg \in Nat, chr \in Nat :
        /\ prg = c.prgUnits /\ prg > 0 /\ prg % 2 = 0
        /\ chr = c.chrUnits /\ chr > 0 /\ chr % 8 = 0
    BY DEF Fits, Carts
<1>3. CASE c.mapper = 0
    BY <1>3 DEF WriteRom
<1>4. CASE c.mapper = 2
    <2>1. PICK count \in Nat : count = c.prgUnits \div 2 /\ 2 * count = prg /\ count > 0
        BY <1>2
    <2>2. PICK s \in Nat : s = BankMasked(byte, count) /\ s < count
        BY <2>1, MaskedBank
    <2>3. d = [c EXCEPT !.select = s]
        BY <1>4, <2>1, <2>2 DEF WriteRom
    <2>4. d \in Carts
        BY <1>1, <2>3 DEF Carts
    <2>5. /\ d.mapper = 2 /\ d.prgUnits = prg /\ d.chrUnits = chr /\ d.select = s
        BY <1>1, <1>2, <1>4, <2>3 DEF Carts
    <2>6. 2 * s + 2 <= prg
        BY <2>1, <2>2
    <2> QED BY <1>2, <1>4, <2>4, <2>5, <2>6 DEF Fits
<1>5. CASE c.mapper = 3
    <2>1. PICK count \in Nat : count = c.chrUnits \div 8 /\ 8 * count = chr /\ count > 0
        BY <1>2
    <2>2. PICK s \in Nat : s = BankMasked(byte, count) /\ s < count
        BY <2>1, MaskedBank
    <2>3. d = [c EXCEPT !.select = s]
        BY <1>5, <2>1, <2>2 DEF WriteRom
    <2>4. d \in Carts
        BY <1>1, <2>3 DEF Carts
    <2>5. /\ d.mapper = 3 /\ d.prgUnits = prg /\ d.chrUnits = chr /\ d.select = s
        BY <1>1, <1>2, <1>5, <2>3 DEF Carts
    <2>6. 8 * s + 8 <= chr
        BY <2>1, <2>2
    <2> QED BY <1>2, <1>5, <2>4, <2>5, <2>6 DEF Fits
<1>6. CASE c.mapper = 4
    <2>1. d = Write4(c, area, odd, byte)
        BY <1>6 DEF WriteRom
    <2>2. /\ d \in Carts /\ d.mapper = 4 /\ d.prgUnits = c.prgUnits /\ d.chrUnits = c.chrUnits
        <3>1. CASE area = 0 /\ ~odd
            <4>1. d = [c EXCEPT !.latch = byte]
                BY <2>1, <3>1 DEF Write4
            <4> QED BY <1>1, <1>6, <4>1 DEF Carts
        <3>2. CASE area = 0 /\ odd
            <4>1. PICK regs : regs = [c.regs EXCEPT ![c.latch % 8] = byte]
                OBVIOUS
            <4>2. regs \in [0 .. 7 -> Nat]
                BY <1>1, <4>1 DEF Carts
            <4>3. d = [c EXCEPT !.regs = regs]
                BY <1>1, <2>1, <3>2, <4>1 DEF Write4, Carts
            <4> QED BY <1>1, <1>6, <4>2, <4>3 DEF Carts
        <3>3. CASE area = 1 /\ ~odd
            <4>1. PICK mirroring \in {"Horizontal", "Vertical", "FourScreen"} :
                    mirroring = IF c.mirroring = "FourScreen" THEN c.mirroring
                                ELSE IF byte % 2 = 0 THEN "Vertical" ELSE "Horizontal"
                BY Zenon
            <4>2. d = [c EXCEPT !.mirroring = mirroring]
                BY <1>1, <2>1, <3>3, <4>1 DEF Write4, Carts
            <4> QED BY <1>1, <1>6, <4>1, <4>2 DEF Carts
        <3>4. CASE area = 1 /\ odd
            <4>1. d = [c EXCEPT !.protect = byte]
                BY <2>1, <3>4 DEF Write4
            <4> QED BY <1>1, <1>6, <4>1 DEF Carts
        <3>5. CASE area \notin {0, 1}
            <4>1. d = c
                BY <2>1, <3>5 DEF Write4
            <4> QED BY <1>1, <1>6, <4>1
        <3> QED BY <3>1, <3>2, <3>3, <3>4, <3>5
    <2>3. c.mapper \notin {2, 3}
        BY <1>6
    <2> QED BY <1>6, <2>2, <2>3, StillFits
<1>7. c.mapper \in {0, 1, 2, 3, 4}
    BY <1>1 DEF Carts
<1> QED BY <1>3, <1>4, <1>5, <1>6, <1>7

(* A write to the RAM, and the battery's. *)
LEMMA RamEffect ==
    ASSUME NEW c, Fits(c), NEW sent, Holds(c, sent), NEW byte \in RamBytes,
           NEW d, d = c \/ d = [c EXCEPT !.ram = byte]
    PROVE  /\ Fits(d) /\ Holds(d, sent) /\ d.mapper = c.mapper
           /\ d.ctrl = c.ctrl /\ d.chr0 = c.chr0 /\ d.chr1 = c.chr1 /\ d.prg = c.prg
<1>1. CASE d = c
    BY <1>1
<1>2. CASE d = [c EXCEPT !.ram = byte]
    <2>1. c \in Carts
        BY DEF Fits
    <2>2. byte \in RamBytes \cup {0}
        OBVIOUS
    <2>3. d \in Carts
        BY <1>2, <2>1, <2>2 DEF Carts
    <2>4. /\ d.mapper = c.mapper /\ d.prgUnits = c.prgUnits /\ d.chrUnits = c.chrUnits
          /\ d.select = c.select /\ d.shift = c.shift /\ d.count = c.count
          /\ d.ctrl = c.ctrl /\ d.chr0 = c.chr0 /\ d.chr1 = c.chr1 /\ d.prg = c.prg
        BY <1>2, <2>1 DEF Carts
    <2>5. Fits(d)
        BY <2>3, <2>4 DEF Fits
    <2>6. Holds(d, sent)
        BY <2>4 DEF Holds
    <2> QED BY <2>4, <2>5, <2>6
<1> QED BY <1>1, <1>2

(* What a write to the port does to the registers as they are loaded. *)
LEMMA PortEffect ==
    ASSUME LoadedTypes, NEW area \in 0 .. 3, NEW byte \in Nat, bits \in Seq({0, 1}),
           NEW c, Fits(c), AsLoaded(c, loaded), Len(bits) <= 4,
           NEW d, SerialOutcome(c, area, byte, bits, d),
           NEW p, p = PortWrite(area, byte)
    PROVE  p \in [ctrl : Five, chr0 : Five, chr1 : Five, prg : Five] /\ AsLoaded(d, p)
<1>1. PICK a \in Five, b \in Five, e \in Five, g \in Five :
        /\ a = d.ctrl /\ b = d.chr0 /\ e = d.chr1 /\ g = d.prg
    BY DEF SerialOutcome, Fits, Carts
<1>2. /\ loaded = [ctrl |-> loaded.ctrl, chr0 |-> loaded.chr0, chr1 |-> loaded.chr1,
                   prg |-> loaded.prg]
      /\ loaded.ctrl = c.ctrl /\ loaded.chr0 = c.chr0 /\ loaded.chr1 = c.chr1
      /\ loaded.prg = c.prg /\ c.ctrl \in 0 .. 31
    BY DEF LoadedTypes, AsLoaded, Five
<1>3. SUFFICES p = [ctrl |-> a, chr0 |-> b, chr1 |-> e, prg |-> g]
    BY <1>1, <1>3 DEF AsLoaded
<1>4. (Len(bits) < 4 => Len(bits) # 4) /\ (Len(bits) < 4 \/ Len(bits) = 4)
    <2>1. Len(bits) \in Nat
        OBVIOUS
    <2>2. \A n \in Nat : (n < 4 => n # 4) /\ (n <= 4 => n < 4 \/ n = 4)
        OBVIOUS
    <2> QED BY <2>1, <2>2, Zenon
<1>5. CASE Bit(byte, 7) = 1
    <2>1. a = 16 * (c.ctrl \div 16) + 12 + (c.ctrl % 4) /\ b = c.chr0 /\ e = c.chr1 /\ g = c.prg
        BY <1>1, <1>2, <1>5, ResetControl DEF SerialOutcome
    <2>2. p = [loaded EXCEPT !.ctrl = a]
        BY <1>2, <1>5, <2>1 DEF PortWrite, LoadedTypes
    <2> QED BY <1>2, <2>1, <2>2
<1>6. CASE Bit(byte, 7) # 1 /\ Len(bits) < 4
    <2>1. p = loaded
        BY <1>6 DEF PortWrite
    <2>2. a = c.ctrl /\ b = c.chr0 /\ e = c.chr1 /\ g = c.prg
        BY <1>1, <1>6, <1>4 DEF SerialOutcome
    <2> QED BY <1>2, <2>1, <2>2
<1>7. CASE Bit(byte, 7) # 1 /\ Len(bits) = 4
    <2>1. PICK v : v = Value(Append(bits, byte % 2))
        OBVIOUS
    <2>2. p = [loaded EXCEPT ![Registers[area + 1]] = v]
        BY <1>7, <2>1 DEF PortWrite
    <2>3. /\ a = IF area = 0 THEN v ELSE c.ctrl
          /\ b = IF area = 1 THEN v ELSE c.chr0
          /\ e = IF area = 2 THEN v ELSE c.chr1
          /\ g = IF area = 3 THEN v ELSE c.prg
        BY <1>1, <1>7, <2>1 DEF SerialOutcome
    <2>4. area \in {0, 1, 2, 3}
        BY Windows
    <2>5. CASE area = 0
        <3>1. Registers[area + 1] = "ctrl"
            BY <2>5 DEF Registers
        <3>2. p = [loaded EXCEPT !["ctrl"] = v]
            BY <2>2, <3>1
        <3> QED BY <1>2, <2>3, <2>5, <3>2
    <2>6. CASE area = 1
        <3>1. Registers[area + 1] = "chr0"
            BY <2>6 DEF Registers
        <3>2. p = [loaded EXCEPT !["chr0"] = v]
            BY <2>2, <3>1
        <3> QED BY <1>2, <2>3, <2>6, <3>2
    <2>7. CASE area = 2
        <3>1. Registers[area + 1] = "chr1"
            BY <2>7 DEF Registers
        <3>2. p = [loaded EXCEPT !["chr1"] = v]
            BY <2>2, <3>1
        <3> QED BY <1>2, <2>3, <2>7, <3>2
    <2>8. CASE area = 3
        <3>1. Registers[area + 1] = "prg"
            BY <2>8 DEF Registers
        <3>2. p = [loaded EXCEPT !["prg"] = v]
            BY <2>2, <3>1
        <3> QED BY <1>2, <2>3, <2>8, <3>2
    <2> QED BY <2>4, <2>5, <2>6, <2>7, <2>8
<1> QED BY <1>5, <1>6, <1>7, <1>4

(* The inductive invariant, and the banks it keeps in range. *)
LEMMA CartBegins == CartInit => CartIInv
<1> SUFFICES ASSUME CartInit PROVE CartIInv
    OBVIOUS
<1>1. LoadedTypes
    BY DEF CartInit, LoadedTypes, Five
<1>2. cart # Refused => Fits(cart) /\ Holds(cart, bits) /\ AsLoaded(cart, loaded)
    BY NewCartFits DEF CartInit, AsLoaded
<1> QED BY <1>1, <1>2 DEF CartIInv

(* Every step keeps the invariant. *)
LEMMA CartKept == CartIInv /\ [CartNext]_cartVars => CartIInv'
<1> SUFFICES ASSUME CartIInv, [CartNext]_cartVars PROVE CartIInv'
    OBVIOUS
<1>1. /\ LoadedTypes
      /\ cart # Refused => /\ Fits(cart) /\ Holds(cart, bits)
                           /\ cart.mapper = 1 => AsLoaded(cart, loaded)
    BY DEF CartIInv
<1>2. CASE RegisterWrite
    <2>1. cart # Refused
        BY <1>2 DEF RegisterWrite
    <2>2. PICK area \in 0 .. 3, odd \in BOOLEAN, byte \in RegisterBytes :
            /\ cart' = WriteRom(cart, area, odd, byte)
            /\ bits' = IF cart.mapper # 1 \/ Bit(byte, 7) = 1 \/ Len(bits) = 4 THEN << >>
                       ELSE Append(bits, byte % 2)
            /\ loaded' = IF cart.mapper # 1 THEN loaded ELSE PortWrite(area, byte)
        BY <1>2 DEF RegisterWrite
    <2>3. byte \in Nat
        BY RegisterAssumption
    <2>4. CASE cart.mapper = 1
        <3>1. cart' = SerialWrite(cart, area, byte)
            BY <2>2, <2>4 DEF WriteRom
        <3>2. SerialOutcome(cart, area, byte, bits, cart')
            BY <1>1, <2>1, <2>3, <2>4, <3>1, SerialEffect
        <3>3. Fits(cart') /\ Holds(cart', bits')
            BY <2>2, <2>4, <3>2 DEF SerialOutcome
        <3>4. loaded' = PortWrite(area, byte) /\ bits \in Seq({0, 1}) /\ Len(bits) <= 4
            BY <1>1, <2>1, <2>2, <2>4 DEF Holds
        <3>5. LoadedTypes' /\ AsLoaded(cart', loaded')
            BY <1>1, <2>1, <2>3, <2>4, <3>2, <3>4, PortEffect DEF LoadedTypes
        <3> QED BY <3>3, <3>5 DEF CartIInv
    <2>5. CASE cart.mapper # 1
        <3>1. Fits(cart') /\ cart'.mapper # 1
            BY <1>1, <2>1, <2>2, <2>3, <2>5, OtherEffect
        <3>2. bits' = << >> /\ << >> \in Seq({0, 1}) /\ loaded' = loaded
            BY <2>2, <2>5
        <3>3. Holds(cart', bits')
            BY <3>1, <3>2 DEF Holds
        <3> QED BY <1>1, <3>1, <3>2, <3>3 DEF CartIInv, LoadedTypes
    <2> QED BY <2>4, <2>5
<1>3. CASE RamWrite \/ LoadBattery
    <2>1. cart # Refused /\ bits' = bits /\ loaded' = loaded
        BY <1>3 DEF RamWrite, LoadBattery
    <2>2. PICK byte \in RamBytes : cart' = cart \/ cart' = [cart EXCEPT !.ram = byte]
        BY <1>3 DEF RamWrite, LoadBattery
    <2>3. /\ Fits(cart') /\ Holds(cart', bits) /\ cart'.mapper = cart.mapper
          /\ cart'.ctrl = cart.ctrl /\ cart'.chr0 = cart.chr0
          /\ cart'.chr1 = cart.chr1 /\ cart'.prg = cart.prg
        BY <1>1, <2>1, <2>2, RamEffect
    <2> QED BY <1>1, <2>1, <2>3 DEF CartIInv, LoadedTypes, AsLoaded
<1>4. CASE UNCHANGED cartVars
    BY <1>1, <1>4 DEF cartVars, CartIInv, LoadedTypes
<1> QED BY <1>2, <1>3, <1>4 DEF CartNext

(* Whatever the file and whatever the game writes, every window shows a bank *)
(* the ROM has, but the upper half of an MMC1's odd 32 KB; and the vectors'  *)
(* window shows the last bank where it is fixed.                             *)
THEOREM BanksHold == CartSpec => []BanksInRange
<1>1. CartIInv => BanksInRange
    BY BanksFit DEF CartIInv, BanksInRange
<1> QED BY <1>1, CartBegins, CartKept, PTL DEF CartSpec

(* MMC1's registers are what was sent them five bits at a time, whatever     *)
(* writes, resets and battery loads come between.                            *)
THEOREM SerialHolds == CartSpec => []SerialLoads
<1>1. CartIInv => SerialLoads
    BY DEF CartIInv, LoadedTypes, AsLoaded, SerialLoads
<1> QED BY <1>1, CartBegins, CartKept, PTL DEF CartSpec

-------------------------------------------------------------------------
(* The instructions, CpuAlu. *)

Regs == [a : Nat, x : Nat, y : Nat, sp : Nat, p : SUBSET Flags]

(* Registers in range, eight bits each. *)
Bytes(r) ==
    /\ r \in Regs
    /\ r.a < 256 /\ r.x < 256 /\ r.y < 256 /\ r.sp < 256

(* d has c's registers but for those given, and c's flags but for those given. *)
LEMMA SameRegs ==
    ASSUME NEW c \in Regs, NEW d \in Regs, c.a = d.a, c.x = d.x, c.y = d.y, c.sp = d.sp,
           \A f \in Flags : f \in c.p <=> f \in d.p
    PROVE  c = d
<1>1. c.p = d.p
    <2>1. c.p \subseteq Flags /\ d.p \subseteq Flags
        BY DEF Regs
    <2> QED BY <2>1
<1> QED BY <1>1 DEF Regs

(* d is r with the flag f set or not. *)
FlagSet(r, f, on, d) ==
    /\ d \in Regs /\ d.a = r.a /\ d.x = r.x /\ d.y = r.y /\ d.sp = r.sp
    /\ (f \in d.p <=> on)
    /\ \A g \in Flags : g # f => (g \in d.p <=> g \in r.p)

(* One flag is set or cleared, the others stay. *)
LEMMA SetFlagEffect ==
    ASSUME NEW r \in Regs, NEW f \in Flags, NEW on \in BOOLEAN
    PROVE  FlagSet(r, f, on, SetFlag(r, f, on))
<1>1. PICK q \in SUBSET Flags : q = IF on THEN r.p \cup {f} ELSE r.p \ {f}
    <2>1. r.p \in SUBSET Flags
        BY DEF Regs
    <2> HIDE DEF Flags
    <2> QED BY <2>1
<1>2. PICK d : d = [r EXCEPT !.p = q]
    OBVIOUS
<1>3. d = SetFlag(r, f, on)
    BY <1>1, <1>2 DEF SetFlag, Regs
<1>4. d \in Regs /\ d.a = r.a /\ d.x = r.x /\ d.y = r.y /\ d.sp = r.sp /\ d.p = q
    BY <1>2 DEF Regs
<1>5. (f \in q <=> on) /\ \A g \in Flags : g # f => (g \in q <=> g \in r.p)
    BY <1>1
<1> QED BY <1>3, <1>4, <1>5 DEF FlagSet

(* The two flags that nearly every instruction sets. *)
ZNSet(r, v, d) ==
    /\ d \in Regs /\ d.a = r.a /\ d.x = r.x /\ d.y = r.y /\ d.sp = r.sp
    /\ ("Z" \in d.p <=> v = 0) /\ ("N" \in d.p <=> v >= 128)
    /\ \A g \in Flags : g \notin {"Z", "N"} => (g \in d.p <=> g \in r.p)

(* Zero and negative follow a byte. *)
LEMMA SetZNEffect ==
    ASSUME NEW r \in Regs, NEW v \in Nat
    PROVE  ZNSet(r, v, SetZN(r, v))
<1>1. "Z" \in Flags /\ "N" \in Flags /\ "Z" # "N"
    BY DEF Flags
<1>2. (v = 0) \in BOOLEAN /\ Bit7(v) \in BOOLEAN /\ (Bit7(v) <=> v >= 128)
    BY DEF Bit7
<1>3. PICK d : d = SetFlag(r, "Z", v = 0)
    OBVIOUS
<1>4. FlagSet(r, "Z", v = 0, d)
    BY <1>1, <1>2, <1>3, SetFlagEffect, Zenon
<1>5. PICK e : e = SetFlag(d, "N", Bit7(v))
    OBVIOUS
<1>6. FlagSet(d, "N", Bit7(v), e)
    <2>1. d \in Regs
        BY <1>4 DEF FlagSet
    <2> QED BY <1>1, <1>2, <1>5, <2>1, SetFlagEffect, Zenon
<1>7. e = SetZN(r, v)
    BY <1>3, <1>5, Zenon DEF SetZN
<1>8. ZNSet(r, v, e)
    BY <1>1, <1>2, <1>4, <1>6, Zenon DEF FlagSet, ZNSet
<1> QED BY <1>7, <1>8, Zenon

(* An addition, all of its flags. *)
Summed(r, v, d) ==
    /\ d \in Regs /\ d.x = r.x /\ d.y = r.y /\ d.sp = r.sp
    /\ d.a = Mod256(r.a + v + CarryIn(r))
    /\ ("C" \in d.p <=> r.a + v + CarryIn(r) > 255)
    /\ ("V" \in d.p <=> (r.a >= 128 <=> v >= 128) /\ ~(r.a >= 128 <=> d.a >= 128))
    /\ ("Z" \in d.p <=> d.a = 0) /\ ("N" \in d.p <=> d.a >= 128)
    /\ \A g \in Flags : g \notin {"C", "V", "Z", "N"} => (g \in d.p <=> g \in r.p)

(* The sum, its carry and its overflow, for every operand. *)
LEMMA AdcEffect ==
    ASSUME NEW r \in Regs, NEW v \in Nat
    PROVE  Summed(r, v, Adc(r, v))
<1>1. "C" \in Flags /\ "V" \in Flags /\ "Z" \in Flags /\ "N" \in Flags
    BY DEF Flags
<1>2. r.a \in Nat /\ CarryIn(r) \in Nat
    BY DEF Regs, CarryIn
<1>3. PICK sum \in Nat : sum = r.a + v + CarryIn(r)
    BY <1>2
<1>4. PICK result \in Nat : result = Mod256(sum)
    BY DEF Mod256
<1>5. (sum > 255) \in BOOLEAN
    OBVIOUS
<1>6. PICK carry \in BOOLEAN : carry = (sum > 255)
    BY <1>5, Zenon
<1>7. PICK over \in BOOLEAN :
        over = (Bit7(r.a) = Bit7(v) /\ Bit7(r.a) # Bit7(result))
    BY Zenon
<1>8. over <=> (r.a >= 128 <=> v >= 128) /\ ~(r.a >= 128 <=> result >= 128)
    <2>1. /\ Bit7(r.a) \in BOOLEAN /\ Bit7(v) \in BOOLEAN /\ Bit7(result) \in BOOLEAN
          /\ (Bit7(r.a) <=> r.a >= 128) /\ (Bit7(v) <=> v >= 128)
          /\ (Bit7(result) <=> result >= 128)
        BY DEF Bit7
    <2> QED BY <1>7, <2>1, Zenon
<1>9. PICK c : c = SetFlag(r, "C", carry)
    OBVIOUS
<1>10. FlagSet(r, "C", carry, c)
    BY <1>1, <1>9, SetFlagEffect, Zenon
<1>11. PICK e : e = SetFlag(c, "V", over)
    OBVIOUS
<1>12. FlagSet(c, "V", over, e)
    <2>1. c \in Regs
        BY <1>10 DEF FlagSet
    <2> QED BY <1>1, <1>11, <2>1, SetFlagEffect, Zenon
<1>13. PICK g : g = [e EXCEPT !.a = result]
    OBVIOUS
<1>14. /\ g \in Regs /\ g.a = result /\ g.x = e.x /\ g.y = e.y /\ g.sp = e.sp /\ g.p = e.p
    BY <1>12, <1>13 DEF FlagSet, Regs
<1>15. PICK d : d = SetZN(g, result)
    OBVIOUS
<1>16. ZNSet(g, result, d)
    BY <1>14, <1>15, SetZNEffect, Zenon
<1>17. d = Adc(r, v)
    BY <1>3, <1>4, <1>6, <1>7, <1>9, <1>11, <1>13, <1>15, ZenonT(30) DEF Adc
<1>18. Summed(r, v, d)
    <2>1. d \in Regs /\ d.x = r.x /\ d.y = r.y /\ d.sp = r.sp /\ d.a = result
        BY <1>10, <1>12, <1>14, <1>16, Zenon DEF FlagSet, ZNSet
    <2>2. "C" \in d.p <=> carry
        BY <1>1, <1>10, <1>12, <1>14, <1>16 DEF FlagSet, ZNSet
    <2>3. "V" \in d.p <=> over
        BY <1>1, <1>12, <1>14, <1>16 DEF FlagSet, ZNSet
    <2>4. ("Z" \in d.p <=> result = 0) /\ ("N" \in d.p <=> result >= 128)
        BY <1>16 DEF ZNSet
    <2>5. ASSUME NEW f \in Flags, f \notin {"C", "V", "Z", "N"} PROVE f \in d.p <=> f \in r.p
        BY <1>10, <1>12, <1>14, <1>16, <2>5 DEF FlagSet, ZNSet
    <2>6. carry <=> r.a + v + CarryIn(r) > 255
        BY <1>3, <1>6, Zenon
    <2>7. d.a = Mod256(r.a + v + CarryIn(r))
        BY <1>3, <1>4, <2>1
    <2>8. "V" \in d.p <=> (r.a >= 128 <=> v >= 128) /\ ~(r.a >= 128 <=> d.a >= 128)
        BY <1>8, <2>1, <2>3
    <2>9. ("Z" \in d.p <=> d.a = 0) /\ ("N" \in d.p <=> d.a >= 128)
        BY <2>1, <2>4
    <2>10. "C" \in d.p <=> r.a + v + CarryIn(r) > 255
        BY <2>2, <2>6
    <2> QED BY <2>1, <2>5, <2>7, <2>8, <2>9, <2>10, Zenon DEF Summed
<1> QED BY <1>17, <1>18, Zenon

(* A comparison: reg is the register, v the operand. *)
Compared(r, reg, v, d) ==
    /\ d \in Regs /\ d.a = r.a /\ d.x = r.x /\ d.y = r.y /\ d.sp = r.sp
    /\ ("C" \in d.p <=> reg >= v)
    /\ ("Z" \in d.p <=> Mod256(reg - v) = 0) /\ ("N" \in d.p <=> Mod256(reg - v) >= 128)
    /\ \A g \in Flags : g \notin {"C", "Z", "N"} => (g \in d.p <=> g \in r.p)

(* A comparison's three flags. *)
LEMMA CompareEffect ==
    ASSUME NEW r \in Regs, NEW reg \in Nat, NEW v \in Nat
    PROVE  Compared(r, reg, v, Compare(r, reg, v))
<1>1. "C" \in Flags
    BY DEF Flags
<1>2. (reg >= v) \in BOOLEAN
    OBVIOUS
<1>3. PICK carry \in BOOLEAN : carry = (reg >= v)
    BY <1>2, Zenon
<1>4. PICK diff \in Nat : diff = Mod256(reg - v)
    BY DEF Mod256
<1>5. PICK c : c = SetFlag(r, "C", carry)
    OBVIOUS
<1>6. FlagSet(r, "C", carry, c)
    BY <1>1, <1>5, SetFlagEffect, Zenon
<1>7. PICK d : d = SetZN(c, diff)
    OBVIOUS
<1>8. ZNSet(c, diff, d)
    <2>1. c \in Regs
        BY <1>6 DEF FlagSet
    <2> QED BY <1>7, <2>1, SetZNEffect, Zenon
<1>9. d = Compare(r, reg, v)
    BY <1>3, <1>4, <1>5, <1>7, Zenon DEF Compare
<1>10. Compared(r, reg, v, d)
    <2>1. "C" \in d.p <=> carry
        BY <1>1, <1>6, <1>8 DEF FlagSet, ZNSet
    <2>2. ASSUME NEW f \in Flags, f \notin {"C", "Z", "N"} PROVE f \in d.p <=> f \in r.p
        BY <1>6, <1>8, <2>2 DEF FlagSet, ZNSet
    <2>3. d \in Regs /\ d.a = r.a /\ d.x = r.x /\ d.y = r.y /\ d.sp = r.sp
        BY <1>6, <1>8, Zenon DEF FlagSet, ZNSet
    <2>4. ("Z" \in d.p <=> diff = 0) /\ ("N" \in d.p <=> diff >= 128)
        BY <1>8 DEF ZNSet
    <2> QED BY <1>3, <1>4, <2>1, <2>2, <2>3, <2>4, Zenon DEF Compared
<1> QED BY <1>9, <1>10, Zenon

(* A shift: the carry, and the byte for the other two flags. *)
ShiftedTo(r, carry, v, d) ==
    /\ d \in Regs /\ d.a = r.a /\ d.x = r.x /\ d.y = r.y /\ d.sp = r.sp
    /\ ("C" \in d.p <=> carry) /\ ("Z" \in d.p <=> v = 0) /\ ("N" \in d.p <=> v >= 128)
    /\ \A g \in Flags : g \notin {"C", "Z", "N"} => (g \in d.p <=> g \in r.p)

(* A shift's byte, its carry, and its zero and negative. *)
LEMMA ShiftEffect ==
    ASSUME NEW r \in Regs, NEW carry \in BOOLEAN, NEW v \in Nat
    PROVE  Shifted(r, carry, v).out = v /\ ShiftedTo(r, carry, v, Shifted(r, carry, v).regs)
<1>1. "C" \in Flags
    BY DEF Flags
<1>2. PICK c : c = SetFlag(r, "C", carry)
    OBVIOUS
<1>3. FlagSet(r, "C", carry, c)
    BY <1>1, <1>2, SetFlagEffect, Zenon
<1>4. PICK d : d = SetZN(c, v)
    OBVIOUS
<1>5. ZNSet(c, v, d)
    <2>1. c \in Regs
        BY <1>3 DEF FlagSet
    <2> QED BY <1>4, <2>1, SetZNEffect, Zenon
<1>6. Shifted(r, carry, v) = [regs |-> d, out |-> v]
    BY <1>2, <1>4, Zenon DEF Shifted
<1>7. Shifted(r, carry, v).regs = d /\ Shifted(r, carry, v).out = v
    BY <1>6
<1>8. ShiftedTo(r, carry, v, d)
    <2>1. "C" \in d.p <=> carry
        BY <1>1, <1>3, <1>5 DEF FlagSet, ZNSet
    <2>2. ASSUME NEW f \in Flags, f \notin {"C", "Z", "N"} PROVE f \in d.p <=> f \in r.p
        BY <1>3, <1>5, <2>2 DEF FlagSet, ZNSet
    <2>3. d \in Regs /\ d.a = r.a /\ d.x = r.x /\ d.y = r.y /\ d.sp = r.sp
        BY <1>3, <1>5, Zenon DEF FlagSet, ZNSet
    <2>4. ("Z" \in d.p <=> v = 0) /\ ("N" \in d.p <=> v >= 128)
        BY <1>5 DEF ZNSet
    <2> QED BY <2>1, <2>2, <2>3, <2>4, Zenon DEF ShiftedTo
<1> QED BY <1>7, <1>8, Zenon

(* A register written, with the two flags. *)
WrittenA(r, v, d) ==
    /\ d \in Regs /\ d.a = v /\ d.x = r.x /\ d.y = r.y /\ d.sp = r.sp
    /\ ("Z" \in d.p <=> v = 0) /\ ("N" \in d.p <=> v >= 128)
    /\ \A g \in Flags : g \notin {"Z", "N"} => (g \in d.p <=> g \in r.p)

(* A byte written to A, with its flags. *)
LEMMA SetAEffect ==
    ASSUME NEW r \in Regs, NEW v \in Nat
    PROVE  WrittenA(r, v, SetA(r, v))
<1>1. PICK c : c = [r EXCEPT !.a = v]
    OBVIOUS
<1>2. c \in Regs /\ c.a = v /\ c.x = r.x /\ c.y = r.y /\ c.sp = r.sp /\ c.p = r.p
    BY <1>1 DEF Regs
<1>3. ZNSet(c, v, SetZN(c, v))
    BY <1>2, SetZNEffect, Zenon
<1>4. SetA(r, v) = SetZN(c, v)
    BY <1>1, Zenon DEF SetA
<1> QED BY <1>2, <1>3, <1>4 DEF ZNSet, WrittenA

(* A bitwise operation gives a byte. *)
LEMMA BitwiseNat ==
    ASSUME NEW m, NEW n
    PROVE  BitAnd(m, n) \in Nat /\ BitAnd(m, n) < 256
BY DEF BitAnd, OfBits

-----------------------------------------------------------------------------
(* Which operation is which: the groups are disjoint. *)
LEMMA InGroups ==
    ASSUME NEW m
    PROVE  /\ m \in LogicOps =>
                /\ m \notin LoadOps /\ m \notin StoreOps /\ m \notin TransferOps
                /\ m \notin ArithmeticOps /\ m \notin CountOps /\ m \notin ModifyOps
                /\ m \notin CombinedModifyOps /\ m \notin CombinedImmediateOps
                /\ m \notin SetClearOps
           /\ m \in ArithmeticOps =>
                /\ m \notin LoadOps /\ m \notin StoreOps /\ m \notin TransferOps
                /\ m \notin LogicOps /\ m \notin CountOps /\ m \notin ModifyOps
                /\ m \notin CombinedModifyOps /\ m \notin CombinedImmediateOps
                /\ m \notin SetClearOps
           /\ m \in ModifyOps =>
                /\ m \notin LoadOps /\ m \notin StoreOps /\ m \notin TransferOps
                /\ m \notin LogicOps /\ m \notin ArithmeticOps /\ m \notin CountOps
                /\ m \notin CombinedModifyOps /\ m \notin CombinedImmediateOps
                /\ m \notin SetClearOps
           /\ m \in CombinedModifyOps =>
                /\ m \notin LoadOps /\ m \notin StoreOps /\ m \notin TransferOps
                /\ m \notin LogicOps /\ m \notin ArithmeticOps /\ m \notin CountOps
                /\ m \notin ModifyOps /\ m \notin CombinedImmediateOps /\ m \notin SetClearOps
           /\ m \in CombinedImmediateOps =>
                /\ m \notin LoadOps /\ m \notin StoreOps /\ m \notin TransferOps
                /\ m \notin LogicOps /\ m \notin ArithmeticOps /\ m \notin CountOps
                /\ m \notin ModifyOps /\ m \notin CombinedModifyOps /\ m \notin SetClearOps
<1> USE DEF LoadOps, StoreOps, TransferOps, LogicOps, ArithmeticOps, CountOps, ModifyOps,
            CombinedModifyOps, CombinedImmediateOps, SetClearOps
<1>1. m \in LogicOps =>
        /\ m \notin LoadOps /\ m \notin StoreOps /\ m \notin TransferOps
        /\ m \notin ArithmeticOps /\ m \notin CountOps /\ m \notin ModifyOps
        /\ m \notin CombinedModifyOps /\ m \notin CombinedImmediateOps /\ m \notin SetClearOps
    OBVIOUS
<1>2. m \in ArithmeticOps =>
        /\ m \notin LoadOps /\ m \notin StoreOps /\ m \notin TransferOps
        /\ m \notin LogicOps /\ m \notin CountOps /\ m \notin ModifyOps
        /\ m \notin CombinedModifyOps /\ m \notin CombinedImmediateOps /\ m \notin SetClearOps
    OBVIOUS
<1>3. m \in ModifyOps =>
        /\ m \notin LoadOps /\ m \notin StoreOps /\ m \notin TransferOps
        /\ m \notin LogicOps /\ m \notin ArithmeticOps /\ m \notin CountOps
        /\ m \notin CombinedModifyOps /\ m \notin CombinedImmediateOps /\ m \notin SetClearOps
    OBVIOUS
<1>4. m \in CombinedModifyOps =>
        /\ m \notin LoadOps /\ m \notin StoreOps /\ m \notin TransferOps
        /\ m \notin LogicOps /\ m \notin ArithmeticOps /\ m \notin CountOps
        /\ m \notin ModifyOps /\ m \notin CombinedImmediateOps /\ m \notin SetClearOps
    OBVIOUS
<1>5. m \in CombinedImmediateOps =>
        /\ m \notin LoadOps /\ m \notin StoreOps /\ m \notin TransferOps
        /\ m \notin LogicOps /\ m \notin ArithmeticOps /\ m \notin CountOps
        /\ m \notin ModifyOps /\ m \notin CombinedModifyOps /\ m \notin SetClearOps
    OBVIOUS
<1> HIDE DEF LoadOps, StoreOps, TransferOps, LogicOps, ArithmeticOps, CountOps, ModifyOps,
             CombinedModifyOps, CombinedImmediateOps, SetClearOps
<1> QED BY <1>1, <1>2, <1>3, <1>4, <1>5, Zenon

(* An instruction does what its group does. *)
LEMMA OperateByGroup ==
    ASSUME NEW m, NEW r, NEW v
    PROVE  /\ m \in LogicOps => Operate(m, r, v) = [regs |-> Logic(m, r, v), out |-> v]
           /\ m \in ArithmeticOps => Operate(m, r, v) = [regs |-> Arithmetic(m, r, v), out |-> v]
           /\ m \in ModifyOps => Operate(m, r, v) = Modify(m, r, v)
           /\ m \in CombinedModifyOps => Operate(m, r, v) = CombinedModify(m, r, v)
           /\ m \in CombinedImmediateOps =>
                Operate(m, r, v) = [regs |-> CombinedImmediate(m, r, v), out |-> v]
<1>1. m \in LogicOps => Operate(m, r, v) = [regs |-> Logic(m, r, v), out |-> v]
    BY InGroups, Zenon DEF Operate
<1>2. m \in ArithmeticOps => Operate(m, r, v) = [regs |-> Arithmetic(m, r, v), out |-> v]
    BY InGroups, Zenon DEF Operate
<1>3. m \in ModifyOps => Operate(m, r, v) = Modify(m, r, v)
    BY InGroups, Zenon DEF Operate
<1>4. m \in CombinedModifyOps => Operate(m, r, v) = CombinedModify(m, r, v)
    BY InGroups, Zenon DEF Operate
<1>5. m \in CombinedImmediateOps =>
        Operate(m, r, v) = [regs |-> CombinedImmediate(m, r, v), out |-> v]
    BY InGroups, Zenon DEF Operate
<1> QED BY <1>1, <1>2, <1>3, <1>4, <1>5

(* The documented instructions, opened. *)
LEMMA Documented ==
    ASSUME NEW r, NEW v
    PROVE  /\ Operate("ADC", r, v).regs = Adc(r, v)
           /\ Operate("SBC", r, v).regs = Adc(r, 255 - v)
           /\ Operate("CMP", r, v).regs = Compare(r, r.a, v)
           /\ Operate("CPX", r, v).regs = Compare(r, r.x, v)
           /\ Operate("CPY", r, v).regs = Compare(r, r.y, v)
           /\ Operate("ASL", r, v) = Asl(r, v) /\ Operate("ROL", r, v) = Rol(r, v)
           /\ Operate("LSR", r, v) = Lsr(r, v) /\ Operate("ROR", r, v) = Ror(r, v)
           /\ Operate("INC", r, v) = [regs |-> SetZN(r, Mod256(v + 1)), out |-> Mod256(v + 1)]
           /\ Operate("DEC", r, v) = [regs |-> SetZN(r, Mod256(v - 1)), out |-> Mod256(v - 1)]
           /\ Operate("ORA", r, v).regs = SetA(r, BitOr(r.a, v))
           /\ Operate("AND", r, v).regs = SetA(r, BitAnd(r.a, v))
           /\ Operate("EOR", r, v).regs = SetA(r, BitXor(r.a, v))
<1>1. /\ \A m \in {"ADC", "SBC", "CMP", "CPX", "CPY"} : m \in ArithmeticOps
      /\ \A m \in {"ASL", "ROL", "LSR", "ROR", "INC", "DEC"} : m \in ModifyOps
      /\ \A m \in {"ORA", "AND", "EOR"} : m \in LogicOps
    BY DEF ArithmeticOps, ModifyOps, LogicOps
<1>2. /\ Operate("ADC", r, v).regs = Arithmetic("ADC", r, v)
      /\ Operate("SBC", r, v).regs = Arithmetic("SBC", r, v)
      /\ Operate("CMP", r, v).regs = Arithmetic("CMP", r, v)
      /\ Operate("CPX", r, v).regs = Arithmetic("CPX", r, v)
      /\ Operate("CPY", r, v).regs = Arithmetic("CPY", r, v)
    BY <1>1, OperateByGroup
<1>3. /\ Arithmetic("ADC", r, v) = Adc(r, v) /\ Arithmetic("SBC", r, v) = Adc(r, 255 - v)
      /\ Arithmetic("CMP", r, v) = Compare(r, r.a, v)
      /\ Arithmetic("CPX", r, v) = Compare(r, r.x, v)
      /\ Arithmetic("CPY", r, v) = Compare(r, r.y, v)
    BY DEF Arithmetic, Sbc
<1>4. /\ Operate("ASL", r, v) = Modify("ASL", r, v) /\ Operate("ROL", r, v) = Modify("ROL", r, v)
      /\ Operate("LSR", r, v) = Modify("LSR", r, v) /\ Operate("ROR", r, v) = Modify("ROR", r, v)
      /\ Operate("INC", r, v) = Modify("INC", r, v) /\ Operate("DEC", r, v) = Modify("DEC", r, v)
    BY <1>1, OperateByGroup
<1>5. /\ Modify("ASL", r, v) = Asl(r, v) /\ Modify("ROL", r, v) = Rol(r, v)
      /\ Modify("LSR", r, v) = Lsr(r, v) /\ Modify("ROR", r, v) = Ror(r, v)
      /\ Modify("INC", r, v) = [regs |-> SetZN(r, Mod256(v + 1)), out |-> Mod256(v + 1)]
      /\ Modify("DEC", r, v) = [regs |-> SetZN(r, Mod256(v - 1)), out |-> Mod256(v - 1)]
    BY DEF Modify
<1>6. /\ Operate("ORA", r, v).regs = Logic("ORA", r, v)
      /\ Operate("AND", r, v).regs = Logic("AND", r, v)
      /\ Operate("EOR", r, v).regs = Logic("EOR", r, v)
    BY <1>1, OperateByGroup
<1>7. /\ Logic("ORA", r, v) = SetA(r, BitOr(r.a, v)) /\ Logic("AND", r, v) = SetA(r, BitAnd(r.a, v))
      /\ Logic("EOR", r, v) = SetA(r, BitXor(r.a, v))
    BY DEF Logic
<1> QED BY <1>2, <1>3, <1>4, <1>5, <1>6, <1>7

(* The undocumented instructions that modify memory, opened. *)
LEMMA Combined ==
    ASSUME NEW r, NEW v
    PROVE  /\ Operate("DCP", r, v) = [regs |-> Compare(r, r.a, Mod256(v - 1)),
                                      out |-> Mod256(v - 1)]
           /\ Operate("ISC", r, v) = [regs |-> Adc(r, 255 - Mod256(v + 1)), out |-> Mod256(v + 1)]
           /\ Operate("SLO", r, v) = [regs |-> SetA(Asl(r, v).regs, BitOr(r.a, Asl(r, v).out)),
                                      out |-> Asl(r, v).out]
           /\ Operate("RLA", r, v) = [regs |-> SetA(Rol(r, v).regs, BitAnd(r.a, Rol(r, v).out)),
                                      out |-> Rol(r, v).out]
           /\ Operate("SRE", r, v) = [regs |-> SetA(Lsr(r, v).regs, BitXor(r.a, Lsr(r, v).out)),
                                      out |-> Lsr(r, v).out]
           /\ Operate("RRA", r, v) = [regs |-> Adc(Ror(r, v).regs, Ror(r, v).out),
                                      out |-> Ror(r, v).out]
<1>1. \A m \in {"DCP", "ISC", "SLO", "RLA", "SRE", "RRA"} : m \in CombinedModifyOps
    BY DEF CombinedModifyOps
<1>2. /\ Operate("DCP", r, v) = CombinedModify("DCP", r, v)
      /\ Operate("ISC", r, v) = CombinedModify("ISC", r, v)
      /\ Operate("SLO", r, v) = CombinedModify("SLO", r, v)
      /\ Operate("RLA", r, v) = CombinedModify("RLA", r, v)
      /\ Operate("SRE", r, v) = CombinedModify("SRE", r, v)
      /\ Operate("RRA", r, v) = CombinedModify("RRA", r, v)
    BY <1>1, OperateByGroup
<1>3. CombinedModify("DCP", r, v) = [regs |-> Compare(r, r.a, Mod256(v - 1)), out |-> Mod256(v - 1)]
    BY DEF CombinedModify
<1>4. CombinedModify("ISC", r, v) = [regs |-> Adc(r, 255 - Mod256(v + 1)), out |-> Mod256(v + 1)]
    BY DEF CombinedModify
<1>5. CombinedModify("SLO", r, v) = [regs |-> SetA(Asl(r, v).regs, BitOr(r.a, Asl(r, v).out)),
                                     out |-> Asl(r, v).out]
    BY DEF CombinedModify
<1>6. CombinedModify("RLA", r, v) = [regs |-> SetA(Rol(r, v).regs, BitAnd(r.a, Rol(r, v).out)),
                                     out |-> Rol(r, v).out]
    BY DEF CombinedModify
<1>7. CombinedModify("SRE", r, v) = [regs |-> SetA(Lsr(r, v).regs, BitXor(r.a, Lsr(r, v).out)),
                                     out |-> Lsr(r, v).out]
    BY DEF CombinedModify
<1>8. CombinedModify("RRA", r, v) = [regs |-> Adc(Ror(r, v).regs, Ror(r, v).out),
                                     out |-> Ror(r, v).out]
    BY DEF CombinedModify
<1> QED BY <1>2, <1>3, <1>4, <1>5, <1>6, <1>7, <1>8, Zenon

(* The undocumented immediate instructions, opened. *)
LEMMA Immediate ==
    ASSUME NEW r, NEW v
    PROVE  /\ Operate("ALR", r, v).regs = CombinedImmediate("ALR", r, v)
           /\ Operate("ARR", r, v).regs = CombinedImmediate("ARR", r, v)
           /\ Operate("AXS", r, v).regs = CombinedImmediate("AXS", r, v)
<1>1. \A m \in {"ALR", "ARR", "AXS"} : m \in CombinedImmediateOps
    BY DEF CombinedImmediateOps
<1> QED BY <1>1, OperateByGroup

-----------------------------------------------------------------------------
(* Arithmetic. *)

(* The signed bytes, as bounds. *)
LEMMA SignedBytes == \A n \in Int : n \in SignedByte <=> -128 <= n /\ n <= 127
BY DEF SignedByte

(* The carry of nine bits, and the overflow of the signed sum. *)
LEMMA SumIsExact ==
    ASSUME NEW r, Bytes(r), NEW v \in Nat, v < 256, NEW d, Summed(r, v, d)
    PROVE  /\ d.a + 256 * C01(d.p) = r.a + v + C01(r.p)
           /\ "V" \in d.p <=> AsSigned(r.a) + AsSigned(v) + C01(r.p) \notin SignedByte
           /\ d.a \in Nat /\ d.a < 256
<1>1. PICK a \in Nat : a = r.a /\ a < 256
    BY DEF Bytes, Regs
<1>2. PICK c \in {0, 1} : c = C01(r.p) /\ c = CarryIn(r)
    BY DEF C01, CarryIn
<1>3. PICK sum \in Nat : sum = a + v + c /\ sum < 512
    BY <1>1, <1>2
<1>4. PICK result \in Nat : result = (IF sum > 255 THEN sum - 256 ELSE sum) /\ result < 256
    BY <1>3
<1>5. Mod256(sum) = result
    BY <1>3, <1>4 DEF Mod256
<1>6. d.a = result
    BY <1>1, <1>2, <1>3, <1>5 DEF Summed
<1>7. C01(d.p) = IF sum > 255 THEN 1 ELSE 0
    BY <1>1, <1>2, <1>3 DEF Summed, C01
<1>8. d.a + 256 * C01(d.p) = r.a + v + C01(r.p)
    BY <1>1, <1>2, <1>3, <1>4, <1>6, <1>7
<1>9. PICK signed \in Int : signed = AsSigned(a) + AsSigned(v) + c
    BY <1>1, <1>2 DEF AsSigned
<1>10. (~(-128 <= signed /\ signed <= 127))
         <=> (a >= 128 <=> v >= 128) /\ ~(a >= 128 <=> result >= 128)
    BY <1>1, <1>2, <1>3, <1>4, <1>9 DEF AsSigned
<1>11. "V" \in d.p <=> (a >= 128 <=> v >= 128) /\ ~(a >= 128 <=> result >= 128)
    BY <1>1, <1>6 DEF Summed
<1>12. signed \notin SignedByte <=> ~(-128 <= signed /\ signed <= 127)
    BY SignedBytes
<1>13. "V" \in d.p <=> signed \notin SignedByte
    BY <1>10, <1>11, <1>12, Zenon
<1>14. AsSigned(r.a) + AsSigned(v) + C01(r.p) = signed
    BY <1>1, <1>2, <1>9
<1> QED BY <1>4, <1>6, <1>8, <1>13, <1>14, Zenon

(* A difference is the sum with the complement. *)
LEMMA DifferenceIsExact ==
    ASSUME NEW r, Bytes(r), NEW v \in Nat, v < 256, NEW d, Summed(r, 255 - v, d)
    PROVE  /\ d.a - 256 * (1 - C01(d.p)) = r.a - v - (1 - C01(r.p))
           /\ "V" \in d.p <=> AsSigned(r.a) - AsSigned(v) - (1 - C01(r.p)) \notin SignedByte
<1>1. PICK a \in Nat : a = r.a /\ a < 256
    BY DEF Bytes, Regs
<1>2. PICK c \in {0, 1} : c = C01(r.p)
    BY DEF C01
<1>3. PICK w \in Nat : w = 255 - v /\ w < 256
    OBVIOUS
<1>4. /\ d.a + 256 * C01(d.p) = r.a + w + C01(r.p)
      /\ "V" \in d.p <=> AsSigned(r.a) + AsSigned(w) + C01(r.p) \notin SignedByte
      /\ d.a \in Nat
    BY <1>3, SumIsExact
<1>5. PICK e \in {0, 1} : e = C01(d.p)
    BY DEF C01
<1>6. AsSigned(a) + AsSigned(w) + c = AsSigned(a) - AsSigned(v) - (1 - c)
    BY <1>1, <1>2, <1>3 DEF AsSigned
<1>7. d.a - 256 * (1 - e) = a - v - (1 - c)
    BY <1>1, <1>2, <1>3, <1>4, <1>5
<1> QED BY <1>1, <1>2, <1>4, <1>5, <1>6, <1>7, Zenon

(* A comparison orders the operands. *)
LEMMA ComparisonIsExact ==
    ASSUME NEW r, NEW reg \in Nat, reg < 256, NEW v \in Nat, v < 256, NEW d,
           Compared(r, reg, v, d)
    PROVE  ("C" \in d.p <=> reg >= v) /\ ("Z" \in d.p <=> reg = v) /\ d.a = r.a
<1>1. PICK diff \in Int : diff = reg - v /\ -256 < diff /\ diff < 256
    OBVIOUS
<1>2. diff % 256 = IF diff >= 0 THEN diff ELSE diff + 256
    BY <1>1
<1>3. Mod256(reg - v) = 0 <=> reg = v
    BY <1>1, <1>2 DEF Mod256
<1> QED BY <1>3, Zenon DEF Compared

(* A shift or a rotation moves nine bits. *)
LEMMA ShiftsAreExact ==
    ASSUME NEW r \in Regs, NEW v \in Nat, v < 256
    PROVE  /\ Asl(r, v).out + 256 * C01(Asl(r, v).regs.p) = 2 * v
           /\ Rol(r, v).out + 256 * C01(Rol(r, v).regs.p) = 2 * v + C01(r.p)
           /\ 2 * Lsr(r, v).out + C01(Lsr(r, v).regs.p) = v
           /\ 2 * Ror(r, v).out + C01(Ror(r, v).regs.p) = v + 256 * C01(r.p)
           /\ ShiftedTo(r, v >= 128, Asl(r, v).out, Asl(r, v).regs)
           /\ ShiftedTo(r, v >= 128, Rol(r, v).out, Rol(r, v).regs)
           /\ ShiftedTo(r, v % 2 = 1, v \div 2, Lsr(r, v).regs)
           /\ Lsr(r, v).out = v \div 2
           /\ ShiftedTo(r, v % 2 = 1, v \div 2 + 128 * CarryIn(r), Ror(r, v).regs)
           /\ Ror(r, v).out = v \div 2 + 128 * CarryIn(r)
<1>1. PICK c \in {0, 1} : c = CarryIn(r) /\ c = C01(r.p)
    BY DEF CarryIn, C01
<1>2. Bit7(v) \in BOOLEAN /\ Bit0(v) \in BOOLEAN /\ (Bit7(v) <=> v >= 128)
      /\ (Bit0(v) <=> v % 2 = 1) /\ (v >= 128) \in BOOLEAN /\ (v % 2 = 1) \in BOOLEAN
    BY DEF Bit7, Bit0
<1>3. PICK left \in Nat : left = Mod256(v * 2) /\ left = IF v >= 128 THEN 2 * v - 256 ELSE 2 * v
    BY DEF Mod256
<1>4. PICK half \in Nat : half = v \div 2 /\ v = 2 * half + (v % 2)
    OBVIOUS
<1>5. v % 2 = IF v % 2 = 1 THEN 1 ELSE 0
    OBVIOUS
<1>6. \A e, q, on : ShiftedTo(r, on, q, e) /\ on \in BOOLEAN => C01(e.p) = IF on THEN 1 ELSE 0
    BY DEF ShiftedTo, C01
<1>7. PICK on \in BOOLEAN, odd \in BOOLEAN :
        on = Bit7(v) /\ odd = Bit0(v) /\ on = (v >= 128) /\ odd = (v % 2 = 1)
    BY <1>2, Zenon
<1>8. /\ left + c \in Nat /\ half + 128 * c \in Nat
    BY <1>1, <1>3, <1>4
<1>9. Asl(r, v).out = left /\ ShiftedTo(r, on, left, Asl(r, v).regs)
    <2>1. Asl(r, v) = Shifted(r, on, left)
        BY <1>3, <1>7, Zenon DEF Asl
    <2>2. PICK q \in Nat : q = left
        BY <1>3
    <2>3. /\ Shifted(r, on, q).out = q
          /\ ShiftedTo(r, on, q, Shifted(r, on, q).regs)
        BY ShiftEffect
    <2> QED BY <2>1, <2>2, <2>3, Zenon
<1>10. Rol(r, v).out = left + c /\ ShiftedTo(r, on, left + c, Rol(r, v).regs)
    <2>1. Rol(r, v) = Shifted(r, on, left + c)
        BY <1>1, <1>3, <1>7, Zenon DEF Rol
    <2>2. PICK q \in Nat : q = left + c
        BY <1>8
    <2>3. /\ Shifted(r, on, q).out = q
          /\ ShiftedTo(r, on, q, Shifted(r, on, q).regs)
        BY ShiftEffect
    <2> QED BY <2>1, <2>2, <2>3, Zenon
<1>11. Lsr(r, v).out = half /\ ShiftedTo(r, odd, half, Lsr(r, v).regs)
    <2>1. Lsr(r, v) = Shifted(r, odd, half)
        BY <1>4, <1>7, Zenon DEF Lsr
    <2>2. PICK q \in Nat : q = half
        BY <1>4
    <2>3. /\ Shifted(r, odd, q).out = q
          /\ ShiftedTo(r, odd, q, Shifted(r, odd, q).regs)
        BY ShiftEffect
    <2> QED BY <2>1, <2>2, <2>3, Zenon
<1>12. Ror(r, v).out = half + 128 * c /\ ShiftedTo(r, odd, half + 128 * c, Ror(r, v).regs)
    <2>1. Ror(r, v) = Shifted(r, odd, half + 128 * c)
        BY <1>1, <1>4, <1>7, Zenon DEF Ror
    <2>2. PICK q \in Nat : q = half + 128 * c
        BY <1>8
    <2>3. /\ Shifted(r, odd, q).out = q
          /\ ShiftedTo(r, odd, q, Shifted(r, odd, q).regs)
        BY ShiftEffect
    <2> QED BY <2>1, <2>2, <2>3, Zenon
<1>13. PICK n \in {0, 1}, m \in {0, 1} :
         n = (IF v >= 128 THEN 1 ELSE 0) /\ m = (IF v % 2 = 1 THEN 1 ELSE 0)
    OBVIOUS
<1>14. n = (IF on THEN 1 ELSE 0) /\ m = (IF odd THEN 1 ELSE 0)
    BY <1>7, <1>13, Zenon
<1>15. /\ C01(Asl(r, v).regs.p) = n /\ C01(Rol(r, v).regs.p) = n
       /\ C01(Lsr(r, v).regs.p) = m /\ C01(Ror(r, v).regs.p) = m
    BY <1>6, <1>7, <1>9, <1>10, <1>11, <1>12, <1>14, Zenon
<1>16. left + 256 * n = 2 * v /\ (left + c) + 256 * n = 2 * v + c
    BY <1>1, <1>3, <1>13
<1>17. 2 * half + m = v
    BY <1>4, <1>5, <1>13
<1>18. 2 * (half + 128 * c) + m = v + 256 * c
    <2>1. c = 0 \/ c = 1
        OBVIOUS
    <2> QED BY <1>4, <1>17, <2>1
<1>19. /\ Asl(r, v).out + 256 * C01(Asl(r, v).regs.p) = 2 * v
       /\ Rol(r, v).out + 256 * C01(Rol(r, v).regs.p) = 2 * v + C01(r.p)
    BY <1>1, <1>9, <1>10, <1>15, <1>16, Zenon
<1>20. /\ 2 * Lsr(r, v).out + C01(Lsr(r, v).regs.p) = v
       /\ 2 * Ror(r, v).out + C01(Ror(r, v).regs.p) = v + 256 * C01(r.p)
    BY <1>1, <1>11, <1>12, <1>15, <1>17, <1>18, Zenon
<1>21. /\ ShiftedTo(r, v >= 128, Asl(r, v).out, Asl(r, v).regs)
       /\ ShiftedTo(r, v >= 128, Rol(r, v).out, Rol(r, v).regs)
    BY <1>7, <1>9, <1>10, Zenon
<1>22. /\ ShiftedTo(r, v % 2 = 1, v \div 2, Lsr(r, v).regs) /\ Lsr(r, v).out = v \div 2
       /\ ShiftedTo(r, v % 2 = 1, v \div 2 + 128 * CarryIn(r), Ror(r, v).regs)
       /\ Ror(r, v).out = v \div 2 + 128 * CarryIn(r)
    BY <1>1, <1>4, <1>7, <1>11, <1>12, Zenon
<1> QED BY <1>19, <1>20, <1>21, <1>22, Zenon

(* The part of it that the shifts to the right are cited for. *)
RightShifts(r, v) ==
    /\ ShiftedTo(r, v % 2 = 1, v \div 2, Lsr(r, v).regs) /\ Lsr(r, v).out = v \div 2
    /\ ShiftedTo(r, v % 2 = 1, v \div 2 + 128 * CarryIn(r), Ror(r, v).regs)
    /\ Ror(r, v).out = v \div 2 + 128 * CarryIn(r)

(* LSR and ROR halve, at any byte. *)
LEMMA RightShiftsAreExact ==
    ASSUME NEW r \in Regs, NEW v \in Nat, v < 256
    PROVE  RightShifts(r, v)
<1>1. ShiftedTo(r, v % 2 = 1, v \div 2, Lsr(r, v).regs) /\ Lsr(r, v).out = v \div 2
    BY ShiftsAreExact
<1>2. /\ ShiftedTo(r, v % 2 = 1, v \div 2 + 128 * CarryIn(r), Ror(r, v).regs)
      /\ Ror(r, v).out = v \div 2 + 128 * CarryIn(r)
    BY ShiftsAreExact
<1> QED BY <1>1, <1>2 DEF RightShifts

-----------------------------------------------------------------------------
(* The combined instructions. *)

(* A comparison and an addition overwrite the flags of the step before them. *)
LEMMA CompareForgets ==
    ASSUME NEW r \in Regs, NEW w, NEW s, ZNSet(r, w, s), NEW reg \in Nat, NEW v \in Nat
    PROVE  Compare(r, reg, v) = Compare(s, reg, v)
<1>1. s \in Regs
    BY DEF ZNSet
<1>2. PICK c : c = Compare(r, reg, v) /\ Compared(r, reg, v, c)
    BY CompareEffect
<1>3. PICK d : d = Compare(s, reg, v) /\ Compared(s, reg, v, d)
    BY <1>1, CompareEffect
<1>4. c \in Regs /\ d \in Regs /\ c.a = d.a /\ c.x = d.x /\ c.y = d.y /\ c.sp = d.sp
    BY <1>2, <1>3, Zenon DEF Compared, ZNSet
<1>5. ASSUME NEW f \in Flags PROVE f \in c.p <=> f \in d.p
    <2>1. CASE f \in {"C", "Z", "N"}
        BY <1>2, <1>3, <2>1, Zenon DEF Compared
    <2>2. CASE f \notin {"C", "Z", "N"}
        BY <1>2, <1>3, <2>2 DEF Compared, ZNSet
    <2> QED BY <2>1, <2>2
<1> QED BY <1>2, <1>3, <1>4, <1>5, SameRegs

(* The sum reads the carry only, of all flags. *)
LEMMA AdcForgets ==
    ASSUME NEW r \in Regs, NEW w, NEW s, ZNSet(r, w, s), NEW v \in Nat
    PROVE  Adc(r, v) = Adc(s, v)
<1>1. s \in Regs /\ s.a = r.a
    BY DEF ZNSet
<1>2. PICK c : c = Adc(r, v) /\ Summed(r, v, c)
    BY AdcEffect
<1>3. PICK d : d = Adc(s, v) /\ Summed(s, v, d)
    BY <1>1, AdcEffect
<1>4. CarryIn(s) = CarryIn(r)
    <2>1. "C" \in Flags /\ "C" \notin {"Z", "N"}
        BY DEF Flags
    <2>2. "C" \in s.p <=> "C" \in r.p
        BY <2>1 DEF ZNSet
    <2> QED BY <2>2 DEF CarryIn
<1>5. c \in Regs /\ d \in Regs /\ c.a = d.a /\ c.x = d.x /\ c.y = d.y /\ c.sp = d.sp
    BY <1>1, <1>2, <1>3, <1>4, Zenon DEF Summed, ZNSet
<1>6. ASSUME NEW f \in Flags PROVE f \in c.p <=> f \in d.p
    <2>1. CASE f \in {"C", "V", "Z", "N"}
        <3>1. /\ "C" \in c.p <=> "C" \in d.p
              /\ "V" \in c.p <=> "V" \in d.p
              /\ "Z" \in c.p <=> "Z" \in d.p
              /\ "N" \in c.p <=> "N" \in d.p
            <4>1. c.a = d.a /\ r.a = s.a
                BY <1>1, <1>5
            <4>2. "C" \in c.p <=> "C" \in d.p
                BY <1>1, <1>2, <1>3, <1>4 DEF Summed
            <4>3. "V" \in c.p <=> "V" \in d.p
                BY <1>2, <1>3, <4>1 DEF Summed
            <4>4. ("Z" \in c.p <=> "Z" \in d.p) /\ ("N" \in c.p <=> "N" \in d.p)
                BY <1>2, <1>3, <4>1 DEF Summed
            <4> QED BY <4>2, <4>3, <4>4, Zenon
        <3> QED BY <2>1, <3>1, Zenon
    <2>2. CASE f \notin {"C", "V", "Z", "N"}
        BY <1>2, <1>3, <2>2 DEF Summed, ZNSet
    <2> QED BY <2>1, <2>2
<1> QED BY <1>2, <1>3, <1>5, <1>6, SameRegs

(* The registers and the byte that the parts leave. *)
After(first, second, r, v) ==
    [regs |-> Operate(second, Operate(first, r, v).regs, Operate(first, r, v).out).regs,
     out |-> Operate(first, r, v).out]

(* The undocumented instructions on memory are two documented ones, in order. *)
LEMMA CombinedIsBoth ==
    ASSUME NEW r \in Regs, NEW v \in Nat, v < 256
    PROVE  /\ Operate("DCP", r, v) = After("DEC", "CMP", r, v)
           /\ Operate("ISC", r, v) = After("INC", "SBC", r, v)
           /\ Operate("SLO", r, v) = After("ASL", "ORA", r, v)
           /\ Operate("RLA", r, v) = After("ROL", "AND", r, v)
           /\ Operate("SRE", r, v) = After("LSR", "EOR", r, v)
           /\ Operate("RRA", r, v) = After("ROR", "ADC", r, v)
<1>1. PICK down \in Nat : down = Mod256(v - 1)
    BY DEF Mod256
<1>2. PICK up \in Nat : up = Mod256(v + 1) /\ up < 256
    BY DEF Mod256
<1>3. 255 - up \in Nat
    BY <1>2
<1>4. r.a \in Nat
    BY DEF Regs
<1>5. \A q, w : /\ Operate("CMP", q, w).regs = Compare(q, q.a, w)
                /\ Operate("SBC", q, w).regs = Adc(q, 255 - w)
                /\ Operate("ADC", q, w).regs = Adc(q, w)
    BY Documented
<1>6. \A q, w : /\ Operate("ORA", q, w).regs = SetA(q, BitOr(q.a, w))
                /\ Operate("AND", q, w).regs = SetA(q, BitAnd(q.a, w))
                /\ Operate("EOR", q, w).regs = SetA(q, BitXor(q.a, w))
    BY Documented
<1>7. /\ Operate("ASL", r, v) = Asl(r, v) /\ Operate("ROL", r, v) = Rol(r, v)
      /\ Operate("LSR", r, v) = Lsr(r, v) /\ Operate("ROR", r, v) = Ror(r, v)
    BY Documented
<1>8. /\ Operate("INC", r, v) = [regs |-> SetZN(r, up), out |-> up]
      /\ Operate("DEC", r, v) = [regs |-> SetZN(r, down), out |-> down]
    BY <1>1, <1>2, Documented
<1>9. Operate("DCP", r, v) = After("DEC", "CMP", r, v)
    <2>1. PICK s : s = SetZN(r, down)
        OBVIOUS
    <2>2. ZNSet(r, down, s)
        BY <1>1, <2>1, SetZNEffect
    <2>3. s.a = r.a
        BY <2>2 DEF ZNSet
    <2>4. Operate("DEC", r, v).regs = s /\ Operate("DEC", r, v).out = down
        BY <1>8, <2>1
    <2>5. After("DEC", "CMP", r, v) = [regs |-> Compare(s, s.a, down), out |-> down]
        BY <1>5, <2>4, ZenonT(30) DEF After
    <2>6. Compare(s, s.a, down) = Compare(r, r.a, down)
        BY <1>1, <1>4, <2>2, <2>3, CompareForgets
    <2>7. Operate("DCP", r, v) = [regs |-> Compare(r, r.a, down), out |-> down]
        BY <1>1, Combined
    <2> QED BY <2>5, <2>6, <2>7, Zenon
<1>10. Operate("ISC", r, v) = After("INC", "SBC", r, v)
    <2>1. PICK s : s = SetZN(r, up)
        OBVIOUS
    <2>2. ZNSet(r, up, s)
        BY <1>2, <2>1, SetZNEffect
    <2>3. Operate("INC", r, v).regs = s /\ Operate("INC", r, v).out = up
        BY <1>8, <2>1
    <2>4. After("INC", "SBC", r, v) = [regs |-> Adc(s, 255 - up), out |-> up]
        <3>1. Operate("SBC", s, up).regs = Adc(s, 255 - up)
            BY <1>5
        <3> QED BY <2>3, <3>1, Zenon DEF After
    <2>5. Adc(s, 255 - up) = Adc(r, 255 - up)
        BY <1>3, <2>2, AdcForgets
    <2>6. Operate("ISC", r, v) = [regs |-> Adc(r, 255 - up), out |-> up]
        BY <1>2, Combined
    <2> QED BY <2>4, <2>5, <2>6, Zenon
<1>11. Asl(r, v).regs.a = r.a /\ Rol(r, v).regs.a = r.a /\ Lsr(r, v).regs.a = r.a
    BY ShiftsAreExact DEF ShiftedTo
<1>12. Operate("SLO", r, v) = After("ASL", "ORA", r, v)
    <2>1. Operate("SLO", r, v) = [regs |-> SetA(Asl(r, v).regs, BitOr(r.a, Asl(r, v).out)),
                                  out |-> Asl(r, v).out]
        BY Combined
    <2>2. Operate("ORA", Asl(r, v).regs, Asl(r, v).out).regs
            = SetA(Asl(r, v).regs, BitOr(r.a, Asl(r, v).out))
        BY <1>6, <1>11
    <2> QED BY <1>7, <2>1, <2>2, Zenon DEF After
<1>13. Operate("RLA", r, v) = After("ROL", "AND", r, v)
    <2>1. Operate("RLA", r, v) = [regs |-> SetA(Rol(r, v).regs, BitAnd(r.a, Rol(r, v).out)),
                                  out |-> Rol(r, v).out]
        BY Combined
    <2>2. Operate("AND", Rol(r, v).regs, Rol(r, v).out).regs
            = SetA(Rol(r, v).regs, BitAnd(r.a, Rol(r, v).out))
        BY <1>6, <1>11
    <2> QED BY <1>7, <2>1, <2>2, Zenon DEF After
<1>14. Operate("SRE", r, v) = After("LSR", "EOR", r, v)
    <2>1. Operate("SRE", r, v) = [regs |-> SetA(Lsr(r, v).regs, BitXor(r.a, Lsr(r, v).out)),
                                  out |-> Lsr(r, v).out]
        BY Combined
    <2>2. Operate("EOR", Lsr(r, v).regs, Lsr(r, v).out).regs
            = SetA(Lsr(r, v).regs, BitXor(r.a, Lsr(r, v).out))
        BY <1>6, <1>11
    <2> QED BY <1>7, <2>1, <2>2, Zenon DEF After
<1>15. Operate("RRA", r, v) = After("ROR", "ADC", r, v)
    <2>1. Operate("RRA", r, v) = [regs |-> Adc(Ror(r, v).regs, Ror(r, v).out),
                                  out |-> Ror(r, v).out]
        BY Combined
    <2> QED BY <1>5, <1>7, <2>1, Zenon DEF After
<1> QED BY <1>9, <1>10, <1>12, <1>13, <1>14, <1>15

(* ALR is AND, then LSR of A. *)
LEMMA AlrIsBoth ==
    ASSUME NEW r \in Regs, NEW v \in Nat, NEW anded, anded = Operate("AND", r, v).regs,
           NEW s, s = Operate("LSR", anded, anded.a)
    PROVE  Operate("ALR", r, v).regs = [s.regs EXCEPT !.a = s.out]
<1>1. PICK both \in Nat : both = BitAnd(r.a, v) /\ both < 256
    BY BitwiseNat
<1>2. anded = SetA(r, both)
    BY <1>1, Documented
<1>3. WrittenA(r, both, anded)
    BY <1>2, SetAEffect
<1>4. s = Lsr(anded, both)
    <2>1. anded.a = both
        BY <1>3 DEF WrittenA
    <2>2. \A q, w : Operate("LSR", q, w) = Lsr(q, w)
        BY Documented
    <2> QED BY <2>1, <2>2
<1>5. Operate("ALR", r, v).regs = [Lsr(r, both).regs EXCEPT !.a = Lsr(r, both).out]
    <2>1. CombinedImmediate("ALR", r, v) = [Lsr(r, both).regs EXCEPT !.a = Lsr(r, both).out]
        BY <1>1 DEF CombinedImmediate
    <2> QED BY <2>1, Immediate
<1>6. PICK half \in Nat : half = both \div 2
    BY <1>1
<1>7. PICK c : c = Lsr(r, both).regs /\ ShiftedTo(r, both % 2 = 1, half, c)
               /\ Lsr(r, both).out = half
    BY <1>1, <1>6, ShiftsAreExact
<1>8. PICK d : d = s.regs /\ ShiftedTo(anded, both % 2 = 1, half, d) /\ s.out = half
    <2>1. anded \in Regs
        BY <1>3 DEF WrittenA
    <2>2. /\ ShiftedTo(anded, both % 2 = 1, both \div 2, Lsr(anded, both).regs)
          /\ Lsr(anded, both).out = both \div 2
        BY <1>1, <2>1, RightShiftsAreExact DEF RightShifts
    <2> QED BY <1>4, <1>6, <2>2
<1>9. PICK e : e = [c EXCEPT !.a = half]
    OBVIOUS
<1>10. e \in Regs /\ e.a = half /\ e.x = c.x /\ e.y = c.y /\ e.sp = c.sp /\ e.p = c.p
    <2>1. c \in Regs /\ half \in Nat
        BY <1>6, <1>7 DEF ShiftedTo
    <2> QED BY <1>9, <2>1 DEF Regs
<1>11. PICK f : f = [d EXCEPT !.a = half]
    OBVIOUS
<1>12. f \in Regs /\ f.a = half /\ f.x = d.x /\ f.y = d.y /\ f.sp = d.sp /\ f.p = d.p
    <2>1. d \in Regs /\ half \in Nat
        BY <1>6, <1>8 DEF ShiftedTo
    <2> QED BY <1>11, <2>1 DEF Regs
<1>13. c.x = d.x /\ c.y = d.y /\ c.sp = d.sp
    BY <1>3, <1>7, <1>8 DEF ShiftedTo, WrittenA
<1>14. ASSUME NEW g \in Flags PROVE g \in c.p <=> g \in d.p
    <2>1. CASE g \in {"C", "Z", "N"}
        BY <1>7, <1>8, <2>1 DEF ShiftedTo
    <2>2. CASE g \notin {"C", "Z", "N"}
        BY <1>3, <1>7, <1>8, <2>2 DEF ShiftedTo, WrittenA
    <2> QED BY <2>1, <2>2
<1>15. e = f
    BY <1>10, <1>12, <1>13, <1>14, SameRegs
<1> QED BY <1>5, <1>7, <1>8, <1>9, <1>11, <1>15

(* But for C and V. *)
Masked(r) == [r EXCEPT !.p = @ \ {"C", "V"}]

(* Registers that differ in carry and overflow only. *)
LEMMA SameMasked ==
    ASSUME NEW c \in Regs, NEW d \in Regs, c.a = d.a, c.x = d.x, c.y = d.y, c.sp = d.sp,
           \A f \in Flags : f \notin {"C", "V"} => (f \in c.p <=> f \in d.p)
    PROVE  Masked(c) = Masked(d)
<1>1. c.p \subseteq Flags /\ d.p \subseteq Flags
    BY DEF Regs
<1>2. c.p \ {"C", "V"} = d.p \ {"C", "V"}
    BY <1>1
<1>3. PICK q \in SUBSET Flags : q = c.p \ {"C", "V"} /\ q = d.p \ {"C", "V"}
    BY <1>1, <1>2
<1>4. Masked(c) = [c EXCEPT !.p = q] /\ Masked(d) = [d EXCEPT !.p = q]
    BY <1>3 DEF Masked, Regs
<1> QED BY <1>4 DEF Regs

(* ARR is AND, then ROR of A, but for carry and overflow. *)
LEMMA ArrIsBoth ==
    ASSUME NEW r \in Regs, NEW v \in Nat, NEW anded, anded = Operate("AND", r, v).regs,
           NEW s, s = Operate("ROR", anded, anded.a)
    PROVE  Masked(Operate("ARR", r, v).regs) = Masked([s.regs EXCEPT !.a = s.out])
<1>1. PICK both \in Nat : both = BitAnd(r.a, v) /\ both < 256
    BY BitwiseNat
<1>2. anded = SetA(r, both)
    BY <1>1, Documented
<1>3. WrittenA(r, both, anded)
    BY <1>2, SetAEffect
<1>4. s = Ror(anded, both)
    <2>1. anded.a = both
        BY <1>3 DEF WrittenA
    <2>2. \A q, w : Operate("ROR", q, w) = Ror(q, w)
        BY Documented
    <2> QED BY <2>1, <2>2
<1>5. CarryIn(anded) = CarryIn(r)
    <2>1. "C" \in Flags /\ "C" \notin {"Z", "N"}
        BY DEF Flags
    <2>2. "C" \in anded.p <=> "C" \in r.p
        BY <1>3, <2>1 DEF WrittenA
    <2> QED BY <2>2 DEF CarryIn
<1>6. PICK arr \in Nat : arr = both \div 2 + 128 * CarryIn(r)
    BY <1>1 DEF CarryIn
<1>7. Operate("ARR", r, v).regs =
        SetFlag(SetFlag(SetA(r, arr), "C", Bit6(arr)), "V", Bit6(arr) # Bit5(arr))
    <2>1. CombinedImmediate("ARR", r, v) =
            SetFlag(SetFlag(SetA(r, arr), "C", Bit6(arr)), "V", Bit6(arr) # Bit5(arr))
        BY <1>1, <1>6 DEF CombinedImmediate
    <2> QED BY <2>1, Immediate
<1>8. Bit6(arr) \in BOOLEAN /\ (Bit6(arr) # Bit5(arr)) \in BOOLEAN
    BY DEF Bit6
<1>9. PICK on \in BOOLEAN, over \in BOOLEAN : on = Bit6(arr) /\ over = (Bit6(arr) # Bit5(arr))
    BY <1>8, Zenon
<1>10. PICK w : w = SetA(r, arr) /\ WrittenA(r, arr, w)
    BY SetAEffect
<1>11. PICK c : c = SetFlag(w, "C", on) /\ FlagSet(w, "C", on, c)
    <2>1. w \in Regs /\ "C" \in Flags
        BY <1>10 DEF WrittenA, Flags
    <2> QED BY <2>1, SetFlagEffect, Zenon
<1>12. PICK d : d = SetFlag(c, "V", over) /\ FlagSet(c, "V", over, d)
    <2>1. c \in Regs /\ "V" \in Flags
        BY <1>11 DEF FlagSet, Flags
    <2> QED BY <2>1, SetFlagEffect, Zenon
<1>13. Operate("ARR", r, v).regs = d
    BY <1>7, <1>9, <1>10, <1>11, <1>12, Zenon
<1>14. PICK e : e = s.regs /\ ShiftedTo(anded, both % 2 = 1, arr, e) /\ s.out = arr
    <2>1. anded \in Regs
        BY <1>3 DEF WrittenA
    <2>2. /\ ShiftedTo(anded, both % 2 = 1, both \div 2 + 128 * CarryIn(anded),
                       Ror(anded, both).regs)
          /\ Ror(anded, both).out = both \div 2 + 128 * CarryIn(anded)
        BY <1>1, <2>1, RightShiftsAreExact DEF RightShifts
    <2> QED BY <1>4, <1>5, <1>6, <2>2
<1>15. PICK f : f = [e EXCEPT !.a = arr]
    OBVIOUS
<1>16. f \in Regs /\ f.a = arr /\ f.x = e.x /\ f.y = e.y /\ f.sp = e.sp /\ f.p = e.p
    <2>1. e \in Regs /\ arr \in Nat
        BY <1>6, <1>14 DEF ShiftedTo
    <2> QED BY <1>15, <2>1 DEF Regs
<1>17. d \in Regs /\ d.a = arr /\ d.x = r.x /\ d.y = r.y /\ d.sp = r.sp
    BY <1>10, <1>11, <1>12 DEF WrittenA, FlagSet
<1>18. e.x = r.x /\ e.y = r.y /\ e.sp = r.sp
    BY <1>3, <1>14 DEF WrittenA, ShiftedTo
<1>19. ASSUME NEW g \in Flags, g \notin {"C", "V"} PROVE g \in d.p <=> g \in f.p
    <2>1. g \in d.p <=> g \in w.p
        BY <1>11, <1>12, <1>19 DEF FlagSet
    <2>2. CASE g \in {"Z", "N"}
        BY <1>10, <1>14, <1>16, <2>1, <2>2 DEF WrittenA, ShiftedTo
    <2>3. CASE g \notin {"Z", "N"}
        BY <1>3, <1>10, <1>14, <1>16, <1>19, <2>1, <2>3 DEF WrittenA, ShiftedTo
    <2> QED BY <2>2, <2>3
<1>20. Masked(d) = Masked(f)
    BY <1>16, <1>17, <1>18, <1>19, SameMasked
<1> QED BY <1>13, <1>14, <1>15, <1>20

(* AXS compares A AND X, and leaves A. *)
LEMMA AxsIsBoth ==
    ASSUME NEW r \in Regs, NEW v \in Nat, NEW e, e = [r EXCEPT !.a = BitAnd(r.a, r.x)],
           NEW d, d = Operate("AXS", r, v).regs
    PROVE  d.p = Operate("CMP", e, v).regs.p /\ d.a = r.a
<1>1. PICK ax \in Nat : ax = BitAnd(r.a, r.x)
    BY BitwiseNat
<1>2. PICK diff \in Nat : diff = Mod256(ax - v)
    BY DEF Mod256
<1>3. d = SetX(SetFlag(r, "C", ax >= v), diff)
    <2>1. CombinedImmediate("AXS", r, v) = SetX(SetFlag(r, "C", ax >= v), diff)
        BY <1>1, <1>2 DEF CombinedImmediate
    <2> QED BY <2>1, Immediate
<1>4. (ax >= v) \in BOOLEAN
    OBVIOUS
<1>5. PICK on \in BOOLEAN : on = (ax >= v)
    BY <1>4, Zenon
<1>6. PICK c : c = SetFlag(r, "C", on) /\ FlagSet(r, "C", on, c)
    <2>1. "C" \in Flags
        BY DEF Flags
    <2> QED BY <2>1, SetFlagEffect, Zenon
<1>7. PICK g : g = [c EXCEPT !.x = diff]
    OBVIOUS
<1>8. g \in Regs /\ g.a = c.a /\ g.p = c.p
    BY <1>6, <1>7 DEF FlagSet, Regs
<1>9. d = SetZN(g, diff)
    BY <1>3, <1>5, <1>6, <1>7, Zenon DEF SetX
<1>10. ZNSet(g, diff, d)
    BY <1>8, <1>9, SetZNEffect
<1>11. e \in Regs /\ e.a = ax /\ e.p = r.p
    BY <1>1 DEF Regs
<1>12. PICK f : f = Operate("CMP", e, v).regs /\ Compared(e, ax, v, f)
    <2>1. \A q, w : Operate("CMP", q, w).regs = Compare(q, q.a, w)
        BY Documented
    <2>2. Compared(e, ax, v, Compare(e, ax, v))
        BY <1>11, CompareEffect
    <2> QED BY <1>11, <2>1, <2>2, Zenon
<1>13. ASSUME NEW h \in Flags PROVE h \in d.p <=> h \in f.p
    <2>1. h = "C" \/ h \in {"Z", "N"} \/ h \notin {"C", "Z", "N"}
        OBVIOUS
    <2>2. CASE h = "C"
        <3>1. "C" \in d.p <=> "C" \in c.p
            BY <1>8, <1>10, <2>2 DEF ZNSet
        <3>2. "C" \in c.p <=> on
            BY <1>6 DEF FlagSet
        <3>3. "C" \in f.p <=> ax >= v
            BY <1>12 DEF Compared
        <3> QED BY <1>5, <2>2, <3>1, <3>2, <3>3, Zenon
    <2>3. CASE h \in {"Z", "N"}
        BY <1>2, <1>10, <1>12, <2>3 DEF ZNSet, Compared
    <2>4. CASE h \notin {"C", "Z", "N"}
        BY <1>6, <1>8, <1>10, <1>11, <1>12, <2>4 DEF ZNSet, Compared, FlagSet
    <2> QED BY <2>1, <2>2, <2>3, <2>4
<1>14. d.p \subseteq Flags /\ f.p \subseteq Flags
    BY <1>10, <1>12 DEF ZNSet, Compared, Regs
<1>15. d.p = f.p
    BY <1>13, <1>14
<1>16. d.a = r.a
    BY <1>6, <1>8, <1>10 DEF FlagSet, ZNSet
<1> QED BY <1>12, <1>15, <1>16

-----------------------------------------------------------------------------
(* An instruction has left what it computes, of bytes. *)
Done ==
    /\ alu.op \in Operations
    /\ alu.now = Operate(alu.op, alu.was, alu.v).regs
    /\ alu.out = Operate(alu.op, alu.was, alu.v).out

AluIInv ==
    /\ alu = [was |-> alu.was, v |-> alu.v, op |-> alu.op, now |-> alu.now, out |-> alu.out]
    /\ Bytes(alu.was) /\ alu.was.x = alu.was.y /\ alu.v \in Nat /\ alu.v < 256
    /\ alu.op = NoOperation \/ Done

(* The invariant holds in the initial states. *)
LEMMA AluBegins == AluInit => AluIInv
<1> SUFFICES ASSUME AluInit PROVE AluIInv
    OBVIOUS
<1>1. PICK a \in Values, v \in Values, p \in {{"U"}, {"U", "C"}} :
        \E x \in {a, 255 - a} :
            LET r == [a |-> a, x |-> x, y |-> x, sp |-> 253, p |-> p]
            IN  alu = [was |-> r, v |-> v, op |-> NoOperation, now |-> r, out |-> v]
    BY DEF AluInit
<1>2. PICK x \in {a, 255 - a} :
        LET r == [a |-> a, x |-> x, y |-> x, sp |-> 253, p |-> p]
        IN  alu = [was |-> r, v |-> v, op |-> NoOperation, now |-> r, out |-> v]
    BY <1>1
<1>3. a \in Nat /\ a < 256 /\ v \in Nat /\ v < 256
    BY AluAssumption
<1>4. x \in Nat /\ x < 256
    BY <1>3
<1>5. PICK q \in SUBSET Flags : q = p
    BY DEF Flags
<1>6. PICK r : r = [a |-> a, x |-> x, y |-> x, sp |-> 253, p |-> q]
    OBVIOUS
<1>7. Bytes(r) /\ r.x = r.y
    BY <1>3, <1>4, <1>6 DEF Bytes, Regs
<1>8. alu = [was |-> r, v |-> v, op |-> NoOperation, now |-> r, out |-> v]
    BY <1>2, <1>5, <1>6
<1> QED BY <1>3, <1>7, <1>8 DEF AluIInv

(* Every step keeps the invariant. *)
LEMMA AluKept == AluIInv /\ [AluNext]_alu => AluIInv'
<1> SUFFICES ASSUME AluIInv, [AluNext]_alu PROVE AluIInv'
    OBVIOUS
<1>1. CASE AluNext
    <2>1. PICK m \in Operations : Perform(m)
        BY <1>1 DEF AluNext
    <2>2. PICK done : done = Operate(m, alu.was, alu.v)
        OBVIOUS
    <2>3. alu' = [was |-> alu.was, v |-> alu.v, op |-> m, now |-> done.regs, out |-> done.out]
        BY <2>1, <2>2 DEF Perform, AluIInv
    <2>4. /\ alu'.was = alu.was /\ alu'.v = alu.v /\ alu'.op = m
          /\ alu'.now = done.regs /\ alu'.out = done.out
        BY <2>3
    <2>5. Done'
        BY <2>2, <2>4 DEF Done
    <2> QED BY <2>3, <2>4, <2>5 DEF AluIInv
<1>2. CASE UNCHANGED alu
    BY <1>2 DEF AluIInv, Done
<1> QED BY <1>1, <1>2

(* Sums, differences, comparisons and shifts are exact. *)
LEMMA ArithmeticHolds == AluIInv => ArithmeticIsExact
<1> SUFFICES ASSUME AluIInv PROVE ArithmeticIsExact
    OBVIOUS
<1>1. PICK r : r = alu.was
    OBVIOUS
<1>2. PICK v \in Nat : v = alu.v /\ v < 256
    BY DEF AluIInv
<1>3. Bytes(r) /\ r.x = r.y /\ r \in Regs /\ r.a \in Nat /\ r.x \in Nat /\ r.a < 256 /\ r.x < 256
    BY <1>1 DEF AluIInv, Bytes, Regs
<1>4. PICK d : d = alu.now
    OBVIOUS
<1>5. ASSUME NEW m \in Operations, alu.op = m
      PROVE  d = Operate(m, r, v).regs /\ alu.out = Operate(m, r, v).out
    <2>1. alu.op # NoOperation
        BY <1>5, AluAssumption
    <2> QED BY <1>1, <1>2, <1>4, <1>5, <2>1 DEF AluIInv, Done
<1>6. \A m \in {"ADC", "SBC", "CMP", "CPX", "CPY", "ASL", "ROL", "LSR", "ROR"} : m \in Operations
    BY DEF Operations, ArithmeticOps, ModifyOps
<1>7. alu.op = "ADC" =>
        /\ d.a + 256 * C01(d.p) = r.a + v + C01(r.p)
        /\ "V" \in d.p <=> AsSigned(r.a) + AsSigned(v) + C01(r.p) \notin SignedByte
    <2> SUFFICES ASSUME alu.op = "ADC"
                 PROVE  /\ d.a + 256 * C01(d.p) = r.a + v + C01(r.p)
                        /\ "V" \in d.p <=>
                             AsSigned(r.a) + AsSigned(v) + C01(r.p) \notin SignedByte
        OBVIOUS
    <2>1. d = Adc(r, v)
        BY <1>5, <1>6, Documented
    <2>2. Summed(r, v, d)
        BY <1>3, <2>1, AdcEffect
    <2> QED BY <1>2, <1>3, <2>2, SumIsExact
<1>8. alu.op = "SBC" =>
        /\ d.a - 256 * (1 - C01(d.p)) = r.a - v - (1 - C01(r.p))
        /\ "V" \in d.p <=> AsSigned(r.a) - AsSigned(v) - (1 - C01(r.p)) \notin SignedByte
    <2> SUFFICES ASSUME alu.op = "SBC"
                 PROVE  /\ d.a - 256 * (1 - C01(d.p)) = r.a - v - (1 - C01(r.p))
                        /\ "V" \in d.p <=>
                             AsSigned(r.a) - AsSigned(v) - (1 - C01(r.p)) \notin SignedByte
        OBVIOUS
    <2>1. d = Adc(r, 255 - v)
        BY <1>5, <1>6, Documented
    <2>2. 255 - v \in Nat
        BY <1>2
    <2>3. Summed(r, 255 - v, d)
        BY <1>3, <2>1, <2>2, AdcEffect
    <2> QED BY <1>2, <1>3, <2>3, DifferenceIsExact
<1>9. ASSUME alu.op \in {"CMP", "CPX", "CPY"}, NEW reg, reg = IF alu.op = "CMP" THEN r.a ELSE r.x
      PROVE  ("C" \in d.p <=> reg >= v) /\ ("Z" \in d.p <=> reg = v) /\ d.a = r.a
    <2>1. d = Compare(r, reg, v)
        <3>1. CASE alu.op = "CMP"
            BY <1>5, <1>6, <1>9, <3>1, Documented
        <3>2. CASE alu.op = "CPX"
            BY <1>5, <1>6, <1>9, <3>2, Documented
        <3>3. CASE alu.op = "CPY"
            BY <1>3, <1>5, <1>6, <1>9, <3>3, Documented
        <3> QED BY <1>9, <3>1, <3>2, <3>3
    <2>2. reg \in Nat /\ reg < 256
        BY <1>3, <1>9
    <2>3. Compared(r, reg, v, d)
        BY <1>2, <1>3, <2>1, <2>2, CompareEffect
    <2> QED BY <1>2, <2>2, <2>3, ComparisonIsExact, SMTT(20)
<1>10. alu.op = "ASL" => alu.out + 256 * C01(d.p) = 2 * v
    <2>1. Asl(r, v).out + 256 * C01(Asl(r, v).regs.p) = 2 * v
        BY <1>2, <1>3, ShiftsAreExact
    <2>2. alu.op = "ASL" => alu.out = Asl(r, v).out /\ d = Asl(r, v).regs
        BY <1>5, <1>6, Documented
    <2> QED BY <2>1, <2>2
<1>11. alu.op = "ROL" => alu.out + 256 * C01(d.p) = 2 * v + C01(r.p)
    <2>1. Rol(r, v).out + 256 * C01(Rol(r, v).regs.p) = 2 * v + C01(r.p)
        BY <1>2, <1>3, ShiftsAreExact
    <2>2. alu.op = "ROL" => alu.out = Rol(r, v).out /\ d = Rol(r, v).regs
        BY <1>5, <1>6, Documented
    <2> QED BY <2>1, <2>2
<1>12. alu.op = "LSR" => 2 * alu.out + C01(d.p) = v
    <2>1. 2 * Lsr(r, v).out + C01(Lsr(r, v).regs.p) = v
        BY <1>2, <1>3, ShiftsAreExact
    <2>2. alu.op = "LSR" => alu.out = Lsr(r, v).out /\ d = Lsr(r, v).regs
        BY <1>5, <1>6, Documented
    <2> QED BY <2>1, <2>2
<1>13. alu.op = "ROR" => 2 * alu.out + C01(d.p) = v + 256 * C01(r.p)
    <2>1. 2 * Ror(r, v).out + C01(Ror(r, v).regs.p) = v + 256 * C01(r.p)
        BY <1>2, <1>3, ShiftsAreExact
    <2>2. alu.op = "ROR" => alu.out = Ror(r, v).out /\ d = Ror(r, v).regs
        BY <1>5, <1>6, Documented
    <2> QED BY <2>1, <2>2
<1> QED BY <1>1, <1>2, <1>4, <1>7, <1>8, <1>9, <1>10, <1>11, <1>12, <1>13
        DEF ArithmeticIsExact, Has

(* The undocumented instructions are their parts. *)
LEMMA CombinedHold == AluIInv => CombinedAreTheirParts
<1> SUFFICES ASSUME AluIInv PROVE CombinedAreTheirParts
    OBVIOUS
<1>1. PICK r : r = alu.was
    OBVIOUS
<1>2. PICK v \in Nat : v = alu.v /\ v < 256
    BY DEF AluIInv
<1>3. r \in Regs
    BY <1>1 DEF AluIInv, Bytes
<1>4. ASSUME NEW m \in Operations, alu.op = m
      PROVE  alu.now = Operate(m, r, v).regs /\ alu.out = Operate(m, r, v).out
    <2>1. alu.op # NoOperation
        BY <1>4, AluAssumption
    <2> QED BY <1>1, <1>2, <1>4, <2>1 DEF AluIInv, Done
<1>5. \A m \in {"DCP", "ISC", "SLO", "RLA", "SRE", "RRA", "ALR", "ARR", "AXS"} : m \in Operations
    BY DEF Operations, CombinedModifyOps, CombinedImmediateOps
<1> DEFINE parts == [ DCP |-> <<"DEC", "CMP">>, ISC |-> <<"INC", "SBC">>,
                      SLO |-> <<"ASL", "ORA">>, RLA |-> <<"ROL", "AND">>,
                      SRE |-> <<"LSR", "EOR">>, RRA |-> <<"ROR", "ADC">> ]
           Both(first, second) ==
             /\ alu.now = Operate(second, Operate(first, r, v).regs, Operate(first, r, v).out).regs
             /\ alu.out = Operate(first, r, v).out
<1>6. ASSUME NEW m \in Operations, alu.op = m, NEW first, NEW second,
             Operate(m, r, v) = After(first, second, r, v)
      PROVE  Both(first, second)
    <2>1. alu.now = After(first, second, r, v).regs /\ alu.out = After(first, second, r, v).out
        BY <1>4, <1>6
    <2> QED BY <2>1 DEF After
<1>7. /\ alu.op = "DCP" => Both("DEC", "CMP")
      /\ alu.op = "ISC" => Both("INC", "SBC")
      /\ alu.op = "SLO" => Both("ASL", "ORA")
      /\ alu.op = "RLA" => Both("ROL", "AND")
      /\ alu.op = "SRE" => Both("LSR", "EOR")
      /\ alu.op = "RRA" => Both("ROR", "ADC")
    <2> HIDE DEF Both
    <2>1. /\ Operate("DCP", r, v) = After("DEC", "CMP", r, v)
          /\ Operate("ISC", r, v) = After("INC", "SBC", r, v)
          /\ Operate("SLO", r, v) = After("ASL", "ORA", r, v)
          /\ Operate("RLA", r, v) = After("ROL", "AND", r, v)
          /\ Operate("SRE", r, v) = After("LSR", "EOR", r, v)
          /\ Operate("RRA", r, v) = After("ROR", "ADC", r, v)
        BY <1>2, <1>3, CombinedIsBoth
    <2> QED BY <1>5, <1>6, <2>1
<1>8. alu.op \in DOMAIN parts => Both(parts[alu.op][1], parts[alu.op][2])
    <2> HIDE DEF Both
    <2>1. DOMAIN parts = {"DCP", "ISC", "SLO", "RLA", "SRE", "RRA"}
        OBVIOUS
    <2>2. /\ parts["DCP"] = <<"DEC", "CMP">> /\ parts["ISC"] = <<"INC", "SBC">>
          /\ parts["SLO"] = <<"ASL", "ORA">> /\ parts["RLA"] = <<"ROL", "AND">>
          /\ parts["SRE"] = <<"LSR", "EOR">> /\ parts["RRA"] = <<"ROR", "ADC">>
        OBVIOUS
    <2> HIDE DEF parts
    <2> QED BY <1>7, <2>1, <2>2
<1> DEFINE anded == Operate("AND", r, v).regs
<1>9. alu.op = "ALR" =>
        alu.now = [Operate("LSR", anded, anded.a).regs
                      EXCEPT !.a = Operate("LSR", anded, anded.a).out]
    BY <1>2, <1>3, <1>4, <1>5, AlrIsBoth
<1>10. alu.op = "ARR" =>
         Masked(alu.now) = Masked([Operate("ROR", anded, anded.a).regs
                                      EXCEPT !.a = Operate("ROR", anded, anded.a).out])
    BY <1>2, <1>3, <1>4, <1>5, ArrIsBoth
<1>11. alu.op = "AXS" =>
         /\ alu.now.p = Operate("CMP", [r EXCEPT !.a = BitAnd(r.a, r.x)], v).regs.p
         /\ alu.now.a = r.a
    BY <1>2, <1>3, <1>4, <1>5, AxsIsBoth
<1> QED BY <1>1, <1>2, <1>8, <1>9, <1>10, <1>11 DEF CombinedAreTheirParts, Masked

(* For every value of A, X and the operand, the flags and results are those  *)
(* of arithmetic, and a combined instruction is its two parts.               *)
THEOREM AluHolds == AluSpec => []AluIsExact
<1>1. AluIInv => AluIsExact
    BY ArithmeticHolds, CombinedHold DEF AluIsExact
<1> QED BY <1>1, AluBegins, AluKept, PTL DEF AluSpec

-----------------------------------------------------------------------------
(* The picture and the scroll registers.                                     *)

Vs == {n \in Nat : n < 32768}
Pixels == {Blank, Torn} \cup (Vs \X (0 .. 7))
Tilings == Vs \cup {Blank}

ScrollTypes ==
  /\ loopy \in [v : Vs, t : Vs, x : 0 .. 7, w : BOOLEAN]
  /\ showing \in BOOLEAN
  /\ beam \in [line : 0 .. Lines, dot : Nat]
  /\ beam.dot >= 1 /\ beam.dot <= LastDot
  /\ beam.dot <= Copying + 1 \/ beam.dot >= Prefetch
  /\ latched \in [tile : Tilings, attribute : Nat \X Nat, low : Tilings, high : Tilings]
  /\ shifter \in Seq(Pixels) /\ Len(shifter) = 16
  /\ aim \in [x : Nat, y : Nat, across : BOOLEAN, down : BOOLEAN]
  /\ aim.x < 512 /\ aim.x % 8 = 0
  /\ asked \in [column : Nat, fine : Nat, row : Nat, scan : Nat, table : Nat, second : BOOLEAN]

(* The fields of t are those that the writes ask for, and x and w with them. *)
Asks(c, t) ==
  /\ CoarseX(t) = c.column /\ CoarseY(t) = c.row
  /\ Across(t) = c.table % 2 /\ FineDown(t) = c.table \div 2 /\ FineY(t) = c.scan

AskedFollows == Asks(asked, loopy.t) /\ loopy.x = asked.fine /\ loopy.w = asked.second

(* Where a tile lies in the plane.                                           *)
PlaneX(v) == 256 * Across(v) + 8 * CoarseX(v)
PlaneY(v) == 240 * FineDown(v) + 8 * CoarseY(v) + FineY(v)

(* The next tile to be fetched, counted from the line's first, and its line. *)
Ahead(d) ==
  IF d <= Copying THEN 2 + (d - 1) \div 8
  ELSE IF d < Prefetch THEN 0 ELSE (d - Prefetch) \div 8

(* The line of the frame that v is on, after the increment of dot 256. *)
Row(b) ==
  IF b.line = Lines /\ b.dot >= Prefetch THEN 0
  ELSE IF b.dot >= Copying THEN b.line + 1 ELSE b.line

Aimed == aim.across /\ aim.down

(* v is the place of the tile to be fetched next, once its horizontal and its *)
(* vertical half were copied.                                                 *)
AddressFollows ==
  /\ aim.across => showing /\ PlaneX(loopy.v) = (aim.x + 8 * Ahead(beam.dot)) % 512
  /\ aim.down => showing /\ CoarseY(loopy.v) < 30 /\ PlaneY(loopy.v) = (aim.y + Row(beam)) % 480

(* The dots of a tile that have run, 0 to 7. *)
Phase(d) == (d - 1) % 8

(* A tile's fetches, as far as they have got.                                *)
FetchFollows ==
  Aimed /\ Fetches(beam.dot) =>
    /\ Phase(beam.dot) >= 1 => latched.tile = loopy.v
    /\ Phase(beam.dot) >= 3 => latched.attribute = AttributeAt(loopy.v)
    /\ Phase(beam.dot) >= 5 => latched.low = loopy.v
    /\ Phase(beam.dot) >= 7 => latched.high = loopy.v

(* The tile just completed, the one before v's. *)
TileFollows ==
  Aimed /\ Phase(beam.dot) = 0 /\ beam.dot # Copying /\ beam.dot # Prefetch =>
    /\ latched.tile \in Vs /\ latched.low = latched.tile /\ latched.high = latched.tile
    /\ latched.attribute = AttributeAt(latched.tile)
    /\ PlaneX(latched.tile) = (aim.x + 8 * (Ahead(beam.dot) - 1)) % 512
    /\ PlaneY(latched.tile) = (aim.y + Row(beam)) % 480

(* The shift registers hold, from the First to the Last of their sixteen     *)
(* pixels, the columns of the line that come next: the column after the dot's *)
(* is at Offset.                                                              *)
Cells == {i \in Nat : i >= 1 /\ i <= 16}
Offset(d) == IF d = 1 THEN -1 ELSE IF d <= Copying THEN d - 3 ELSE d - Prefetch - 18
First(d) == IF d <= Copying THEN 1 ELSE Prefetch + 18 - d
Last(d) == IF d = 1 THEN 8 ELSE IF d <= Copying THEN 16 - ((d - 2) % 8) ELSE Prefetch + 25 - d
ShownRow(b) == IF b.dot <= Copying THEN b.line ELSE Row(b)

(* A pixel that was fetched, at this place of the plane, wrapped. *)
Lies(pixel, x, y) ==
  /\ pixel \in Vs \X (0 .. 7)
  /\ PlaneX(pixel[1]) + pixel[2] = x % 512 /\ PlaneY(pixel[1]) = y % 480

ShifterFollows ==
  Aimed /\ (beam.dot <= Copying \/ beam.dot > Prefetch + 8) =>
    \A i \in Cells : First(beam.dot) <= i /\ i <= Last(beam.dot) =>
      Lies(shifter[i], aim.x + i + Offset(beam.dot), aim.y + ShownRow(beam))

(* The picture follows the scroll because t is what the writes ask for, and  *)
(* because every stage of the pipeline follows: the address, the fetches of a *)
(* tile, the tile, the pixels.                                               *)
ScrollIInv ==
  ScrollTypes /\ AskedFollows /\ AddressFollows /\ FetchFollows /\ TileFollows /\ ShifterFollows

-----------------------------------------------------------------------------
Address(cx, cy, a, d, f) == cx + 32 * cy + 1024 * a + 2048 * d + 4096 * f

(* An address is its five fields. *)
LEMMA Fields ==
  ASSUME NEW v \in Vs
  PROVE  /\ CoarseX(v) \in Nat /\ CoarseX(v) < 32 /\ CoarseY(v) \in Nat /\ CoarseY(v) < 32
         /\ Across(v) \in Nat /\ Across(v) < 2 /\ FineDown(v) \in Nat /\ FineDown(v) < 2
         /\ FineY(v) \in Nat /\ FineY(v) < 8
         /\ v = Address(CoarseX(v), CoarseY(v), Across(v), FineDown(v), FineY(v))
BY DEF Vs, Place, CoarseX, CoarseY, Across, FineDown, FineY, Address

(* The fields of the address they make up. *)
LEMMA FieldsOf ==
  ASSUME NEW cx \in Nat, cx < 32, NEW cy \in Nat, cy < 32, NEW a \in Nat, a < 2,
         NEW d \in Nat, d < 2, NEW f \in Nat, f < 8
  PROVE  /\ Address(cx, cy, a, d, f) \in Vs
         /\ CoarseX(Address(cx, cy, a, d, f)) = cx /\ CoarseY(Address(cx, cy, a, d, f)) = cy
         /\ Across(Address(cx, cy, a, d, f)) = a /\ FineDown(Address(cx, cy, a, d, f)) = d
         /\ FineY(Address(cx, cy, a, d, f)) = f
<1>1. PICK v \in Nat : v = Address(cx, cy, a, d, f) /\ v < 32768
  BY DEF Address
<1>2. v \in Vs
  BY <1>1 DEF Vs
<1>3. Place(v, 1, 32) = cx
  BY <1>1 DEF Address, Place
<1>4. Place(v, 32, 32) = cy
  BY <1>1 DEF Address, Place
<1>5. Place(v, 1024, 2) = a
  BY <1>1 DEF Address, Place
<1>6. Place(v, 2048, 2) = d
  BY <1>1 DEF Address, Place
<1>7. Place(v, 4096, 8) = f
  BY <1>1 DEF Address, Place
<1> QED BY <1>1, <1>2, <1>3, <1>4, <1>5, <1>6, <1>7 DEF CoarseX, CoarseY, Across, FineDown, FineY

(* A field that is put into an address, the others as they were. *)
LEMMA PutFields ==
  ASSUME NEW v \in Vs, NEW field \in Nat
  PROVE  /\ Put(v, 1, 32, field)
              = Address(field, CoarseY(v), Across(v), FineDown(v), FineY(v))
         /\ Put(v, 32, 32, field)
              = Address(CoarseX(v), field, Across(v), FineDown(v), FineY(v))
         /\ Put(v, 1024, 2, field)
              = Address(CoarseX(v), CoarseY(v), field, FineDown(v), FineY(v))
         /\ Put(v, 2048, 2, field)
              = Address(CoarseX(v), CoarseY(v), Across(v), field, FineY(v))
         /\ Put(v, 4096, 8, field)
              = Address(CoarseX(v), CoarseY(v), Across(v), FineDown(v), field)
<1>1. PICK cx \in Nat, cy \in Nat, a \in Nat, d \in Nat, f \in Nat :
        /\ v = Address(cx, cy, a, d, f)
        /\ CoarseX(v) = cx /\ CoarseY(v) = cy /\ Across(v) = a /\ FineDown(v) = d /\ FineY(v) = f
  BY Fields
<1>2. /\ Place(v, 1, 32) = cx /\ Place(v, 32, 32) = cy /\ Place(v, 1024, 2) = a
      /\ Place(v, 2048, 2) = d /\ Place(v, 4096, 8) = f
  BY <1>1 DEF CoarseX, CoarseY, Across, FineDown, FineY
<1> QED BY <1>1, <1>2 DEF Put, Address

SameAcross(v, w) == CoarseX(w) = CoarseX(v) /\ Across(w) = Across(v)
SameDown(v, w) == CoarseY(w) = CoarseY(v) /\ FineDown(w) = FineDown(v) /\ FineY(w) = FineY(v)

(* Coarse X moves a tile on, over both nametables. *)
LEMMA StepAcross ==
  ASSUME NEW v \in Vs
  PROVE  /\ IncrementCoarseX(v) \in Vs /\ SameDown(v, IncrementCoarseX(v))
         /\ PlaneX(IncrementCoarseX(v)) = (PlaneX(v) + 8) % 512
<1>1. PICK cx \in Nat, cy \in Nat, a \in Nat, d \in Nat, f \in Nat :
        /\ cx < 32 /\ cy < 32 /\ a < 2 /\ d < 2 /\ f < 8 /\ v = Address(cx, cy, a, d, f)
        /\ CoarseX(v) = cx /\ CoarseY(v) = cy /\ Across(v) = a /\ FineDown(v) = d /\ FineY(v) = f
  BY Fields
<1>2. PICK w : w = IncrementCoarseX(v)
  OBVIOUS
<1>3. CASE cx = 31
  <2>1. PICK left : left = Put(v, 1, 32, 0) /\ left = Address(0, cy, a, d, f)
    BY <1>1, PutFields
  <2>2. PICK b \in Nat : b = 1 - a /\ b < 2
    BY <1>1
  <2>5. left \in Vs /\ CoarseX(left) = 0 /\ SameDown(v, left)
    BY <1>1, <2>1, FieldsOf DEF SameDown
  <2>3. w = Address(0, cy, b, d, f)
    <3>1. w = Put(left, 1024, 2, b)
      BY <1>1, <1>2, <1>3, <2>1, <2>2 DEF IncrementCoarseX
    <3> QED BY <1>1, <2>5, <3>1, PutFields DEF SameDown
  <2>4. w \in Vs /\ CoarseX(w) = 0 /\ Across(w) = b /\ SameDown(v, w)
    BY <1>1, <2>2, <2>3, FieldsOf DEF SameDown
  <2> QED BY <1>1, <1>2, <1>3, <2>2, <2>4 DEF PlaneX
<1>4. CASE cx # 31
  <2>1. w = Address(cx + 1, cy, a, d, f)
    BY <1>1, <1>2, <1>4 DEF IncrementCoarseX, Address
  <2>2. w \in Vs /\ CoarseX(w) = cx + 1 /\ Across(w) = a /\ SameDown(v, w)
    BY <1>1, <1>4, <2>1, FieldsOf DEF SameDown
  <2> QED BY <1>1, <1>2, <1>4, <2>2 DEF PlaneX
<1> QED BY <1>3, <1>4

(* From the thirty rows of a nametable v moves a line down, over both. *)
LEMMA StepDown ==
  ASSUME NEW v \in Vs
  PROVE  /\ IncrementY(v) \in Vs /\ SameAcross(v, IncrementY(v))
         /\ CoarseY(v) < 30 => /\ CoarseY(IncrementY(v)) < 30
                               /\ PlaneY(IncrementY(v)) = (PlaneY(v) + 1) % 480
<1>1. PICK cx \in Nat, cy \in Nat, a \in Nat, d \in Nat, f \in Nat :
        /\ cx < 32 /\ cy < 32 /\ a < 2 /\ d < 2 /\ f < 8 /\ v = Address(cx, cy, a, d, f)
        /\ CoarseX(v) = cx /\ CoarseY(v) = cy /\ Across(v) = a /\ FineDown(v) = d /\ FineY(v) = f
  BY Fields
<1>2. PICK w : w = IncrementY(v)
  OBVIOUS
<1>3. CASE f # 7
  <2>1. w = Address(cx, cy, a, d, f + 1)
    BY <1>1, <1>2, <1>3 DEF IncrementY, Address
  <2>2. w \in Vs /\ CoarseY(w) = cy /\ FineDown(w) = d /\ FineY(w) = f + 1 /\ SameAcross(v, w)
    BY <1>1, <1>3, <2>1, FieldsOf DEF SameAcross
  <2> QED BY <1>1, <1>2, <1>3, <2>2 DEF PlaneY
<1>4. PICK top : top = Put(v, 4096, 8, 0) /\ top = Address(cx, cy, a, d, 0)
  BY <1>1, PutFields
<1>7. top \in Vs /\ CoarseX(top) = cx /\ CoarseY(top) = cy /\ Across(top) = a
      /\ FineDown(top) = d /\ FineY(top) = 0
  BY <1>1, <1>4, FieldsOf
<1>5. CASE f = 7 /\ cy = 29
  <2>1. PICK e \in Nat : e = 1 - d /\ e < 2
    BY <1>1
  <2>2. PICK high : high = Put(top, 32, 32, 0) /\ high = Address(cx, 0, a, d, 0)
    BY <1>7, PutFields
  <2>5. high \in Vs /\ CoarseX(high) = cx /\ CoarseY(high) = 0 /\ Across(high) = a
        /\ FineY(high) = 0
    BY <1>1, <2>2, FieldsOf
  <2>3. w = Address(cx, 0, a, e, 0)
    <3>1. w = Put(high, 2048, 2, e)
      BY <1>1, <1>2, <1>4, <1>5, <2>1, <2>2 DEF IncrementY
    <3> QED BY <2>1, <2>5, <3>1, PutFields
  <2>4. w \in Vs /\ CoarseY(w) = 0 /\ FineDown(w) = e /\ FineY(w) = 0 /\ SameAcross(v, w)
    BY <1>1, <2>1, <2>3, FieldsOf DEF SameAcross
  <2> QED BY <1>1, <1>2, <1>5, <2>1, <2>4 DEF PlaneY
<1>6. CASE f = 7 /\ cy # 29
  <2>1. PICK y \in Nat : y = (IF cy = 31 THEN 0 ELSE cy + 1) /\ y < 32
    BY <1>1
  <2>2. w = Address(cx, y, a, d, 0)
    <3>1. w = Put(top, 32, 32, y)
      BY <1>1, <1>2, <1>4, <1>6, <2>1 DEF IncrementY
    <3> QED BY <1>7, <2>1, <3>1, PutFields
  <2>3. w \in Vs /\ CoarseY(w) = y /\ FineDown(w) = d /\ FineY(w) = 0 /\ SameAcross(v, w)
    BY <1>1, <2>1, <2>2, FieldsOf DEF SameAcross
  <2> QED BY <1>1, <1>2, <1>6, <2>1, <2>3 DEF PlaneY
<1> QED BY <1>3, <1>5, <1>6

(* The horizontal and the vertical copy. *)
LEMMA Copies ==
  ASSUME NEW v \in Vs, NEW t \in Vs
  PROVE  /\ CopyX(v, t) \in Vs /\ SameAcross(t, CopyX(v, t)) /\ SameDown(v, CopyX(v, t))
         /\ CopyY(v, t) \in Vs /\ SameAcross(v, CopyY(v, t)) /\ SameDown(t, CopyY(v, t))
<1>1. PICK cx \in Nat, cy \in Nat, a \in Nat, d \in Nat, f \in Nat :
        /\ cx < 32 /\ cy < 32 /\ a < 2 /\ d < 2 /\ f < 8 /\ v = Address(cx, cy, a, d, f)
        /\ CoarseX(v) = cx /\ CoarseY(v) = cy /\ Across(v) = a /\ FineDown(v) = d /\ FineY(v) = f
  BY Fields
<1>2. PICK tx \in Nat, ty \in Nat, ta \in Nat, td \in Nat, tf \in Nat :
        /\ tx < 32 /\ ty < 32 /\ ta < 2 /\ td < 2 /\ tf < 8
        /\ CoarseX(t) = tx /\ CoarseY(t) = ty /\ Across(t) = ta /\ FineDown(t) = td /\ FineY(t) = tf
  BY Fields
<1>3. PICK x : x = CopyX(v, t) /\ x = Address(tx, cy, ta, d, f)
  <2>1. PICK u : u = Put(v, 1, 32, tx) /\ u = Address(tx, cy, a, d, f)
    BY <1>1, <1>2, PutFields
  <2>4. tx < 32 /\ cy < 32 /\ a < 2 /\ d < 2 /\ f < 8
    BY <1>1, <1>2
  <2>2. u \in Vs /\ CoarseX(u) = tx /\ CoarseY(u) = cy /\ FineDown(u) = d /\ FineY(u) = f
    BY <2>1, <2>4, FieldsOf
  <2>3. Put(u, 1024, 2, ta) = Address(tx, cy, ta, d, f)
    BY <1>2, <2>2, PutFields
  <2> QED BY <1>2, <2>1, <2>3 DEF CopyX
<1>4. PICK y : y = CopyY(v, t) /\ y = Address(cx, ty, a, td, tf)
  <2>1. PICK u : u = Put(v, 32, 32, ty) /\ u = Address(cx, ty, a, d, f)
    BY <1>1, <1>2, PutFields
  <2>2. u \in Vs /\ CoarseX(u) = cx /\ CoarseY(u) = ty /\ Across(u) = a /\ FineY(u) = f
    BY <1>1, <1>2, <2>1, FieldsOf
  <2>3. PICK w : w = Put(u, 2048, 2, td) /\ w = Address(cx, ty, a, td, f)
    BY <1>2, <2>2, PutFields
  <2>4. w \in Vs /\ CoarseX(w) = cx /\ CoarseY(w) = ty /\ Across(w) = a /\ FineDown(w) = td
    BY <1>1, <1>2, <2>3, FieldsOf
  <2>5. Put(w, 4096, 8, tf) = Address(cx, ty, a, td, tf)
    BY <1>2, <2>4, PutFields
  <2> QED BY <1>2, <2>1, <2>3, <2>5 DEF CopyY
<1>5. x \in Vs /\ SameAcross(t, x) /\ SameDown(v, x)
  BY <1>1, <1>2, <1>3, FieldsOf DEF SameAcross, SameDown
<1>6. y \in Vs /\ SameAcross(v, y) /\ SameDown(t, y)
  BY <1>1, <1>2, <1>4, FieldsOf DEF SameAcross, SameDown
<1> QED BY <1>3, <1>4, <1>5, <1>6

HasFields(v, cx, cy, a, d, f) ==
  /\ v \in Vs /\ CoarseX(v) = cx /\ CoarseY(v) = cy /\ Across(v) = a /\ FineDown(v) = d
  /\ FineY(v) = f

(* What the game writes to t, field by field: the halves of $2005's pair.    *)
LEMMA ScrollWrites ==
  ASSUME NEW t \in Vs, NEW b \in Nat, b < 256
  PROVE  /\ HasFields(Put(t, 1, 32, b \div 8),
                      b \div 8, CoarseY(t), Across(t), FineDown(t), FineY(t))
         /\ HasFields(Put(Put(t, 32, 32, b \div 8), 4096, 8, b % 8),
                      CoarseX(t), b \div 8, Across(t), FineDown(t), b % 8)
         /\ b % 8 \in 0 .. 7
<1>1. PICK cx \in Nat, cy \in Nat, a \in Nat, d \in Nat, f \in Nat :
        /\ cx < 32 /\ cy < 32 /\ a < 2 /\ d < 2 /\ f < 8 /\ t = Address(cx, cy, a, d, f)
        /\ CoarseX(t) = cx /\ CoarseY(t) = cy /\ Across(t) = a /\ FineDown(t) = d /\ FineY(t) = f
  BY Fields
<1>2. PICK high \in Nat, low \in Nat : high = b \div 8 /\ low = b % 8 /\ high < 32 /\ low < 8
  OBVIOUS
<1>3. HasFields(Put(t, 1, 32, high), high, cy, a, d, f)
  <2>1. Put(t, 1, 32, high) = Address(high, cy, a, d, f)
    BY <1>1, <1>2, PutFields
  <2> QED BY <1>1, <1>2, <2>1, FieldsOf DEF HasFields
<1>4. HasFields(Put(Put(t, 32, 32, high), 4096, 8, low), cx, high, a, d, low)
  <2>1. PICK u : u = Put(t, 32, 32, high) /\ u = Address(cx, high, a, d, f)
    BY <1>1, <1>2, PutFields
  <2>2. u \in Vs /\ CoarseX(u) = cx /\ CoarseY(u) = high /\ Across(u) = a /\ FineDown(u) = d
    BY <1>1, <1>2, <2>1, FieldsOf
  <2>3. Put(u, 4096, 8, low) = Address(cx, high, a, d, low)
    BY <1>2, <2>2, PutFields
  <2> QED BY <1>1, <1>2, <2>1, <2>3, FieldsOf DEF HasFields
<1> QED BY <1>1, <1>2, <1>3, <1>4

(* The halves of $2006's pair, which cut the fields elsewhere, and $2000.    *)
LEMMA AddressWrites ==
  ASSUME NEW t \in Vs, NEW b \in Nat, b < 256
  PROVE  /\ HasFields(Put(t, 1, 256, b), b % 32, 8 * (CoarseY(t) \div 8) + (b \div 32),
                      Across(t), FineDown(t), FineY(t))
         /\ HasFields(Put(t, 256, 128, b % 64), CoarseX(t), 8 * (b % 4) + (CoarseY(t) % 8),
                      ((b \div 4) % 4) % 2, ((b \div 4) % 4) \div 2, (b \div 16) % 4)
<1>1. PICK cx \in Nat, cy \in Nat, a \in Nat, d \in Nat, f \in Nat :
        /\ cx < 32 /\ cy < 32 /\ a < 2 /\ d < 2 /\ f < 8 /\ t = Address(cx, cy, a, d, f)
        /\ CoarseX(t) = cx /\ CoarseY(t) = cy /\ Across(t) = a /\ FineDown(t) = d /\ FineY(t) = f
  BY Fields
<1>2. PICK p \in Nat, q \in Nat :
        p = cy \div 8 /\ q = cy % 8 /\ p < 4 /\ q < 8 /\ cy = 8 * p + q
  BY <1>1
<1>3. PICK rest \in Nat : rest = p + 4 * a + 8 * d + 16 * f /\ rest < 128
  BY <1>1, <1>2
<1>4. PICK low \in Nat : low = cx + 32 * q /\ low < 256 /\ t = 256 * rest + low
  BY <1>1, <1>2, <1>3 DEF Address
<1>5. Place(t, 1, 256) = low /\ Place(t, 256, 128) = rest
  <2>1. t \div 1 = t /\ t \div 256 = rest /\ t % 256 = low /\ rest % 128 = rest
    BY <1>3, <1>4
  <2> QED BY <2>1 DEF Place
<1>6. HasFields(Put(t, 1, 256, b), b % 32, 8 * p + (b \div 32), a, d, f)
  <2>1. PICK column \in Nat, q1 \in Nat :
          column = b % 32 /\ q1 = b \div 32 /\ column < 32 /\ q1 < 8 /\ b = column + 32 * q1
    OBVIOUS
  <2>2. Put(t, 1, 256, b) = t + (b - low)
    BY <1>4, <1>5 DEF Put
  <2>3. t + (b - low) = column + 32 * (8 * p + q1) + 1024 * a + 2048 * d + 4096 * f
    BY <1>3, <1>4, <2>1
  <2>4. 8 * p + q1 \in Nat /\ 8 * p + q1 < 32
    BY <1>2, <2>1
  <2>5. Put(t, 1, 256, b) = Address(column, 8 * p + q1, a, d, f)
    BY <2>2, <2>3 DEF Address
  <2> QED BY <1>1, <2>1, <2>4, <2>5, FieldsOf DEF HasFields
<1>7. HasFields(Put(t, 256, 128, b % 64), cx, 8 * (b % 4) + q,
                ((b \div 4) % 4) % 2, ((b \div 4) % 4) \div 2, (b \div 16) % 4)
  <2>1. PICK p1 \in Nat, n \in Nat, f1 \in Nat :
          /\ p1 = b % 4 /\ n = (b \div 4) % 4 /\ f1 = (b \div 16) % 4
          /\ p1 < 4 /\ n < 4 /\ f1 < 4 /\ b % 64 = p1 + 4 * n + 16 * f1
    OBVIOUS
  <2>2. PICK a1 \in Nat, d1 \in Nat :
          a1 = n % 2 /\ d1 = n \div 2 /\ a1 < 2 /\ d1 < 2 /\ n = a1 + 2 * d1
    BY <2>1
  <2>3. Put(t, 256, 128, b % 64) = t + ((b % 64) - rest) * 256
    BY <1>5 DEF Put
  <2>4. t + ((b % 64) - rest) * 256 = cx + 32 * (8 * p1 + q) + 1024 * a1 + 2048 * d1 + 4096 * f1
    BY <1>4, <2>1, <2>2
  <2>5. 8 * p1 + q \in Nat /\ 8 * p1 + q < 32
    BY <1>2, <2>1
  <2>6. Put(t, 256, 128, b % 64) = Address(cx, 8 * p1 + q, a1, d1, f1)
    BY <2>3, <2>4 DEF Address
  <2>7. f1 < 8
    BY <2>1
  <2>8. HasFields(Put(t, 256, 128, b % 64), cx, 8 * p1 + q, a1, d1, f1)
    BY <1>1, <2>2, <2>5, <2>6, <2>7, FieldsOf DEF HasFields
  <2> QED BY <2>1, <2>2, <2>8
<1> QED BY <1>1, <1>2, <1>6, <1>7

LEMMA NametableWrites ==
  ASSUME NEW t \in Vs, NEW n \in Nat, n < 4
  PROVE  HasFields(Put(t, 1024, 4, n), CoarseX(t), CoarseY(t), n % 2, n \div 2, FineY(t))
<1>1. PICK cx \in Nat, cy \in Nat, a \in Nat, d \in Nat, f \in Nat :
        /\ cx < 32 /\ cy < 32 /\ a < 2 /\ d < 2 /\ f < 8 /\ t = Address(cx, cy, a, d, f)
        /\ CoarseX(t) = cx /\ CoarseY(t) = cy /\ Across(t) = a /\ FineDown(t) = d /\ FineY(t) = f
  BY Fields
<1>2. PICK a1 \in Nat, d1 \in Nat :
        a1 = n % 2 /\ d1 = n \div 2 /\ a1 < 2 /\ d1 < 2 /\ n = a1 + 2 * d1
  OBVIOUS
<1>3. Place(t, 1024, 4) = a + 2 * d
  BY <1>1 DEF Place, Address
<1>4. Put(t, 1024, 4, n) = Address(cx, cy, a1, d1, f)
  BY <1>1, <1>2, <1>3 DEF Put, Address
<1> QED BY <1>1, <1>2, <1>4, FieldsOf DEF HasFields

-----------------------------------------------------------------------------
(* Moving a sequence on, and putting another in the place of its end. *)
LEMMA MovedOn ==
  ASSUME NEW P, NEW s \in Seq(P), NEW x \in P, NEW n \in Nat, n = Len(s), n > 0
  PROVE  /\ Append(Tail(s), x) \in Seq(P) /\ Len(Append(Tail(s), x)) = n
         /\ \A i \in 1 .. n : i < n => Append(Tail(s), x)[i] = s[i + 1]
<1>1. s # << >>
  BY EmptySeq
<1>2. PICK rest : rest = Tail(s)
  OBVIOUS
<1>3. rest \in Seq(P) /\ Len(rest) = n - 1 /\ \A i \in 1 .. n - 1 : rest[i] = s[i + 1]
  BY <1>1, <1>2, HeadTailProperties
<1> QED BY <1>2, <1>3, AppendProperties

EndIs(P, all, s, end, n, k) ==
  /\ all \in Seq(P) /\ Len(all) = n
  /\ \A i \in 1 .. n : i <= k => all[i] = s[i]
  /\ \A i \in 1 .. n : i > k => all[i] = end[i - k]

(* The first k elements of a sequence, then another sequence. *)
LEMMA EndReplaced ==
  ASSUME NEW P, NEW s \in Seq(P), NEW end \in Seq(P), NEW n \in Nat, NEW k \in Nat, n = Len(s),
         k <= n, Len(end) = n - k
  PROVE  EndIs(P, SubSeq(s, 1, k) \o end, s, end, n, k)
<1>1. PICK head : head = SubSeq(s, 1, k)
  OBVIOUS
<1>2. head \in Seq(P) /\ Len(head) = k /\ \A i \in 1 .. k : head[i] = s[i]
  <2>1. \A i \in 1 .. k : s[i] \in P
    BY ElementOfSeq
  <2>2. /\ head \in Seq(P) /\ Len(head) = IF 1 <= k THEN k - 1 + 1 ELSE 0
        /\ \A i \in 1 .. k - 1 + 1 : head[i] = s[1 + i - 1]
    BY <1>1, <2>1, SubSeqProperties
  <2>3. \A i \in 1 .. k : i \in 1 .. k - 1 + 1 /\ 1 + i - 1 = i
    OBVIOUS
  <2> QED BY <2>2, <2>3
<1>3. PICK all : all = head \o end
  OBVIOUS
<1>4. /\ all \in Seq(P) /\ Len(all) = n
      /\ \A i \in 1 .. n : all[i] = IF i <= k THEN head[i] ELSE end[i - k]
  <2>1. PICK m \in Nat : m = Len(end) /\ k + m = n
    OBVIOUS
  <2>2. /\ head \o end \in Seq(P) /\ Len(head \o end) = Len(head) + Len(end)
        /\ \A i \in 1 .. Len(head) + Len(end) :
             (head \o end)[i] = IF i <= Len(head) THEN head[i] ELSE end[i - Len(head)]
    BY <1>2, ConcatProperties, Zenon
  <2>3. /\ all \in Seq(P) /\ Len(all) = k + m
        /\ \A i \in 1 .. k + m : all[i] = IF i <= k THEN head[i] ELSE end[i - k]
    BY <1>2, <1>3, <2>1, <2>2, Zenon
  <2> QED BY <2>1, <2>3, Zenon
<1> QED BY <1>1, <1>2, <1>3, <1>4 DEF EndIs

(* A shift moves every pixel one place to the left. *)
LEMMA Shifting ==
  ASSUME NEW s \in Seq(Pixels), NEW n \in Nat, n = 16, Len(s) = n
  PROVE  /\ Shift(s) \in Seq(Pixels) /\ Len(Shift(s)) = n
         /\ \A i \in 1 .. n : i < n => Shift(s)[i] = s[i + 1]
<1>1. Blank \in Pixels
  BY DEF Pixels
<1>2. n = Len(s) /\ n > 0
  OBVIOUS
<1>3. /\ Append(Tail(s), Blank) \in Seq(Pixels) /\ Len(Append(Tail(s), Blank)) = n
      /\ \A i \in 1 .. n : i < n => Append(Tail(s), Blank)[i] = s[i + 1]
  BY <1>1, <1>2, MovedOn, ZenonT(20)
<1> QED BY <1>3 DEF Shift

(* A tile becomes eight pixels. *)
LEMMA TilePixels ==
  ASSUME ScrollTypes
  PROVE  /\ LatchedPixels \in Seq(Pixels) /\ Len(LatchedPixels) = 8
         /\ latched.tile \in Vs /\ latched.low = latched.tile /\ latched.high = latched.tile
              /\ latched.attribute = AttributeAt(latched.tile)
            => \A c \in 1 .. 8 : LatchedPixels[c] = <<latched.tile, c - 1>>
<1>1. \A c \in 1 .. 8 : c - 1 \in 0 .. 7
  OBVIOUS
<1>2. latched.tile \in Vs \cup {Blank}
  BY DEF ScrollTypes, Tilings
<1>3. ASSUME NEW c \in 1 .. 8 PROVE LatchedPixels[c] \in Pixels
  <2>1. CASE latched.tile = Blank
    BY <2>1 DEF LatchedPixels, Pixels
  <2>2. CASE latched.tile # Blank
    BY <1>1, <1>2, <2>2 DEF LatchedPixels, Pixels
  <2> QED BY <2>1, <2>2
<1>4. LatchedPixels \in [1 .. 8 -> Pixels]
  BY <1>3 DEF LatchedPixels
<1>5. Blank \notin Vs
  BY ScrollAssumption DEF Vs
<1> QED BY <1>4, <1>5 DEF LatchedPixels

(* The lower half of the registers is filled anew. *)
LEMMA Reloading ==
  ASSUME NEW s \in Seq(Pixels), NEW n \in Nat, n = 16, Len(s) = n, ScrollTypes
  PROVE  /\ Reload(s) \in Seq(Pixels) /\ Len(Reload(s)) = n
         /\ \A i \in 1 .. n : i <= 8 => Reload(s)[i] = s[i]
         /\ \A i \in 1 .. n : i > 8 => Reload(s)[i] = LatchedPixels[i - 8]
<1>1. PICK end \in Seq(Pixels) : end = LatchedPixels /\ Len(end) = 8
  BY TilePixels
<1>2. PICK k \in Nat : k = 8 /\ n = Len(s) /\ k <= n /\ Len(end) = n - k
  BY <1>1
<1>3. EndIs(Pixels, SubSeq(s, 1, k) \o end, s, end, n, k)
  BY <1>2, EndReplaced, ZenonT(20)
<1>4. Reload(s) = SubSeq(s, 1, k) \o end
  BY <1>1, <1>2 DEF Reload
<1> QED BY <1>1, <1>2, <1>3, <1>4 DEF EndIs

-----------------------------------------------------------------------------
(* The beam. *)

(* The dots of a line, for every number of its tiles. *)
LEMMA ScrollDots ==
  /\ Tiles \in Nat /\ Tiles > 0 /\ Lines \in Nat /\ Lines > 0
  /\ Copying = 8 * Tiles + 1 /\ Prefetch = Copying + 64 /\ LastDot = Prefetch + 16
  /\ Copying \in Nat /\ Prefetch \in Nat /\ LastDot \in Nat
BY ScrollAssumption DEF Copying, Prefetch, LastDot

(* The line after the pre-render line is the first. *)
LEMMA LineAfter ==
  ASSUME ScrollTypes
  PROVE  NextLine \in 0 .. Lines
         /\ NextLine = IF beam.line = Lines THEN 0 ELSE beam.line + 1
<1>1. PICK l \in Nat, n \in Nat : l = beam.line /\ n = Lines + 1 /\ l < n
  BY ScrollDots DEF ScrollTypes
<1>2. CASE l + 1 < n
  <2>1. (l + 1) % n = l + 1
    BY <1>1, <1>2
  <2> QED BY <1>1, <1>2, <2>1, ScrollDots DEF NextLine
<1>3. CASE l + 1 = n
  <2>1. n % n = 0
    BY <1>1
  <2> QED BY <1>1, <1>3, <2>1, ScrollDots DEF NextLine
<1> QED BY <1>1, <1>2, <1>3

(* What the next dot is, and what was fetched and walked by then. *)
LEMMA AfterTheDot ==
  ASSUME ScrollTypes, beam.dot # Copying + 1, NEW b, b = AfterDot
  PROVE  /\ b \in [line : 0 .. Lines, dot : Nat] /\ b.dot >= 1 /\ b.dot <= LastDot
         /\ b.dot <= Copying + 1 \/ b.dot >= Prefetch
         /\ beam.dot < LastDot => b.dot = beam.dot + 1
         /\ beam.dot = LastDot => b.dot = 1
         /\ Row(b) = IF beam.dot = Copying - 1 THEN Row(beam) + 1 ELSE Row(beam)
         /\ beam.dot # Copying => ShownRow(b) = ShownRow(beam)
         /\ Ahead(b.dot) = IF beam.dot = Copying THEN 0
                           ELSE IF Fetches(beam.dot) /\ beam.dot % 8 = 0
                           THEN Ahead(beam.dot) + 1 ELSE Ahead(beam.dot)
<1>1. PICK l \in Nat, d \in Nat :
        l = beam.line /\ d = beam.dot /\ l <= Lines /\ d >= 1 /\ d <= LastDot
  BY ScrollDots DEF ScrollTypes
<1>2. d <= Copying \/ d >= Prefetch
  <2>1. (d <= Copying + 1 \/ d >= Prefetch) /\ d # Copying + 1
    BY <1>1 DEF ScrollTypes
  <2> QED BY <1>1, <2>1, ScrollDots
<1>3. PICK c \in Nat, tiles \in Nat :
        c = Copying /\ tiles = Tiles /\ c = 8 * tiles + 1 /\ tiles > 0
  BY ScrollDots
<1>6. Prefetch = c + 64 /\ LastDot = c + 80
  BY <1>3, ScrollDots
<1>4. CASE d < LastDot
  <2>1. b = [line |-> l, dot |-> d + 1]
    <3>1. b = [beam EXCEPT !.dot = d + 1] /\ beam \in [line : 0 .. Lines, dot : Nat]
      BY <1>1, <1>4 DEF AfterDot, ScrollTypes
    <3> QED BY <1>1, <3>1
  <2>2. b.line = l /\ b.dot = d + 1 /\ b \in [line : 0 .. Lines, dot : Nat]
    BY <1>1, <2>1, ScrollDots
  <2>3. b.dot <= LastDot /\ (b.dot <= Copying + 1 \/ b.dot >= Prefetch)
    BY <1>1, <1>2, <1>3, <1>6, <1>4, <2>2
  <2>4. Row(b) = IF d = Copying - 1 THEN Row(beam) + 1 ELSE Row(beam)
    BY <1>1, <1>2, <1>3, <1>6, <2>2 DEF Row
  <2>5. d # Copying => ShownRow(b) = ShownRow(beam)
    <3>1. CASE d < Copying
      BY <1>1, <1>3, <1>6, <2>2, <3>1 DEF ShownRow
    <3>2. CASE d > Copying
      <4>1. ~(d <= Copying) /\ ~(d + 1 <= Copying) /\ d # Copying - 1
        BY <1>3, <3>2
      <4> QED BY <1>1, <2>2, <2>4, <4>1 DEF ShownRow
    <3> QED BY <1>1, <1>3, <1>6, <3>1, <3>2
  <2>6. Ahead(b.dot) = IF d = Copying THEN 0
                       ELSE IF Fetches(d) /\ d % 8 = 0 THEN Ahead(d) + 1 ELSE Ahead(d)
    <3>1. CASE d < Copying
      <4>1. Fetches(d) /\ Ahead(d) = 2 + (d - 1) \div 8 /\ Ahead(d + 1) = 2 + d \div 8
        BY <1>1, <1>3, <3>1 DEF Ahead, Fetches
      <4> QED BY <1>1, <2>2, <3>1, <1>3, <4>1
    <3>2. CASE d = Copying
      <4>1. ~(b.dot <= Copying) /\ b.dot < Prefetch
        BY <1>1, <1>3, <1>6, <2>2, <3>2
      <4> QED BY <3>2, <4>1 DEF Ahead
    <3>3. CASE d >= Prefetch
      <4>1. Fetches(d) /\ Ahead(d) = (d - Prefetch) \div 8
            /\ Ahead(d + 1) = ((d - Prefetch) + 1) \div 8
        BY <1>1, <1>3, <1>4, <1>6, <3>3 DEF Ahead, Fetches
      <4>2. PICK e \in Nat : e = d - Prefetch /\ d % 8 = (e + 1) % 8
        BY <1>1, <1>3, <1>6, <3>3
      <4>3. (e + 1) \div 8 = IF (e + 1) % 8 = 0 THEN (e \div 8) + 1 ELSE e \div 8
        OBVIOUS
      <4>4. d # Copying
        BY <1>3, <1>6, <3>3
      <4>5. Ahead(d) = e \div 8 /\ Ahead(d + 1) = (e + 1) \div 8
        BY <4>1, <4>2
      <4>6. Ahead(d + 1) = IF d % 8 = 0 THEN Ahead(d) + 1 ELSE Ahead(d)
        BY <4>2, <4>3, <4>5
      <4> QED BY <2>2, <4>1, <4>4, <4>6
    <3> QED BY <1>1, <1>2, <1>3, <3>1, <3>2, <3>3
  <2> QED BY <1>1, <1>4, <2>2, <2>3, <2>4, <2>5, <2>6
<1>5. CASE d = LastDot
  <2>1. PICK n \in 0 .. Lines : n = NextLine /\ n = IF l = Lines THEN 0 ELSE l + 1
    BY <1>1, LineAfter
  <2>2. b.line = n /\ b.dot = 1 /\ b \in [line : 0 .. Lines, dot : Nat]
    BY <1>1, <1>5, <2>1 DEF AfterDot
  <2>3. Row(b) = Row(beam) /\ ShownRow(b) = ShownRow(beam)
    BY <1>1, <1>3, <1>6, <1>5, <2>1, <2>2, ScrollDots DEF Row, ShownRow
  <2>4. Ahead(b.dot) = Ahead(d) /\ ~Fetches(d)
    BY <1>1, <1>3, <1>6, <1>5, <2>2 DEF Ahead, Fetches
  <2> QED BY <1>1, <1>3, <1>6, <1>5, <2>2, <2>3, <2>4
<1> QED BY <1>1, <1>3, <1>4, <1>5, <1>6

-----------------------------------------------------------------------------
(* One dot of the pipeline. *)

(* The walk keeps v a place of the plane: eight columns on after a tile, a   *)
(* line down at the end of a line, at the line's beginning at dot 257.       *)
LEMMA Walking ==
  ASSUME ScrollTypes, beam.dot # Copying + 1,
         NEW d, d = beam.dot, NEW v, v = loopy.v, NEW u, u = WalkAt(d, v)
  PROVE  /\ u \in Vs
         /\ d = Copying => SameAcross(loopy.t, u)
         /\ d # Copying => PlaneX(u) = IF Fetches(d) /\ d % 8 = 0 THEN (PlaneX(v) + 8) % 512
                                       ELSE PlaneX(v)
         /\ CoarseY(v) < 30 => /\ CoarseY(u) < 30
                               /\ PlaneY(u) = IF d = Copying - 1 THEN (PlaneY(v) + 1) % 480
                                              ELSE PlaneY(v)
         /\ Fetches(d) /\ d % 8 # 0 => u = v
<1>1. v \in Vs /\ loopy.t \in Vs /\ d \in Nat /\ d >= 1 /\ d <= LastDot
  BY DEF ScrollTypes
<1>2. PICK c \in Nat, tiles \in Nat :
        c = Copying /\ tiles = Tiles /\ c = 8 * tiles + 1 /\ tiles > 0 /\ Prefetch = c + 64
  BY ScrollDots
<1>3. CASE d = Copying
  <2>1. u = CopyX(v, loopy.t) /\ ~Fetches(d)
    BY <1>1, <1>2, <1>3 DEF WalkAt, Fetches
  <2>2. u \in Vs /\ SameAcross(loopy.t, u) /\ SameDown(v, u)
    BY <1>1, <2>1, Copies
  <2>3. CoarseY(u) = CoarseY(v) /\ PlaneY(u) = PlaneY(v)
    BY <2>2 DEF SameDown, PlaneY
  <2>4. d # Copying - 1
    BY <1>2, <1>3
  <2> QED BY <1>3, <2>1, <2>2, <2>3, <2>4
<1>4. CASE d # Copying /\ ~Fetches(d)
  <2>1. u = v
    BY <1>4 DEF WalkAt
  <2>2. d # Copying - 1
    BY <1>1, <1>2, <1>4 DEF Fetches
  <2> QED BY <1>1, <1>4, <2>1, <2>2
<1>5. CASE d # Copying /\ Fetches(d) /\ d % 8 # 0
  <2>1. d # Copying - 1
    BY <1>2, <1>5
  <2>2. u = v
    BY <1>5, <2>1 DEF WalkAt
  <2> QED BY <1>1, <1>5, <2>1, <2>2
<1>6. CASE d # Copying /\ Fetches(d) /\ d % 8 = 0
  <2>1. PICK w : w = IncrementCoarseX(v)
    OBVIOUS
  <2>2. w \in Vs /\ SameDown(v, w) /\ PlaneX(w) = (PlaneX(v) + 8) % 512
    BY <1>1, <2>1, StepAcross
  <2>3. CoarseY(w) = CoarseY(v) /\ PlaneY(w) = PlaneY(v)
    BY <2>2 DEF SameDown, PlaneY
  <2>4. CASE d = Copying - 1
    <3>1. u = IncrementY(w)
      BY <1>6, <2>1, <2>4 DEF WalkAt
    <3>2. u \in Vs /\ SameAcross(w, u)
          /\ (CoarseY(w) < 30 => CoarseY(u) < 30 /\ PlaneY(u) = (PlaneY(w) + 1) % 480)
      BY <2>2, <3>1, StepDown
    <3>3. PlaneX(u) = PlaneX(w)
      BY <3>2 DEF SameAcross, PlaneX
    <3> QED BY <1>6, <2>2, <2>3, <2>4, <3>2, <3>3
  <2>5. CASE d # Copying - 1
    <3>1. u = w
      BY <1>6, <2>1, <2>5 DEF WalkAt
    <3> QED BY <1>6, <2>2, <2>3, <2>5, <3>1
  <2> QED BY <2>4, <2>5
<1> QED BY <1>3, <1>4, <1>5, <1>6

Reloads(d) == d = Copying \/ (Fetches(d) /\ d % 8 = 1)
ShiftedOn == IF ShiftsAt(beam.dot) THEN Shift(shifter) ELSE shifter

(* What a dot does while rendering is on. *)
Rendered ==
  /\ beam.dot # Copying + 1 /\ showing /\ showing' = showing
  /\ beam' = AfterDot /\ accesses' = accesses
  /\ loopy' = [loopy EXCEPT !.v = WalkAt(beam.dot, loopy.v)]
  /\ latched' = IF Fetches(beam.dot) THEN FetchAt(beam.dot, loopy.v) ELSE latched
  /\ shifter' = IF Reloads(beam.dot) THEN Reload(ShiftedOn) ELSE ShiftedOn
  /\ asked' = asked
  /\ beam.dot = Copying =>
       aim' = [aim EXCEPT !.x = 256 * (asked.table % 2) + 8 * asked.column, !.across = TRUE]
  /\ beam.dot # Copying => aim' = aim

(* Dot, while rendering is on. *)
LEMMA DotRenders ==
  Dot /\ showing => Rendered
BY DEF Dot, Render, Rendered, Reloads, ShiftedOn

(* The registers but v, and the walk. *)
LEMMA RenderedWalk ==
  ASSUME ScrollTypes, Rendered
  PROVE  /\ loopy'.v = WalkAt(beam.dot, loopy.v) /\ loopy'.t = loopy.t
         /\ loopy'.x = loopy.x /\ loopy'.w = loopy.w
         /\ loopy' \in [v : Vs, t : Vs, x : 0 .. 7, w : BOOLEAN]
<1>1. WalkAt(beam.dot, loopy.v) \in Vs
  BY Walking DEF Rendered
<1>2. loopy \in [v : Vs, t : Vs, x : 0 .. 7, w : BOOLEAN]
  BY DEF ScrollTypes
<1> QED BY <1>1, <1>2 DEF Rendered

Places(v) == PlaneX(v) \in Nat /\ PlaneX(v) < 512 /\ PlaneX(v) % 8 = 0 /\ PlaneY(v) \in Nat

(* An address lies at a tile's left edge, and above row 480 unless it names an *)
(* attribute row.                                                              *)
LEMMA OnThePlane ==
  ASSUME NEW v \in Vs
  PROVE  Places(v) /\ (CoarseY(v) < 30 => PlaneY(v) < 480)
<1>1. PICK cx \in Nat, cy \in Nat, a \in Nat, d \in Nat, f \in Nat :
        /\ cx < 32 /\ cy < 32 /\ a < 2 /\ d < 2 /\ f < 8
        /\ CoarseX(v) = cx /\ CoarseY(v) = cy /\ Across(v) = a /\ FineDown(v) = d /\ FineY(v) = f
  BY Fields
<1> QED BY <1>1 DEF Places, PlaneX, PlaneY

(* The aim after the dot. *)
LEMMA RenderedAim ==
  ASSUME ScrollTypes, AskedFollows, Rendered
  PROVE  /\ aim' \in [x : Nat, y : Nat, across : BOOLEAN, down : BOOLEAN]
         /\ aim'.x < 512 /\ aim'.x % 8 = 0 /\ aim'.y = aim.y /\ aim'.down = aim.down
         /\ beam.dot # Copying => aim'.x = aim.x /\ aim'.across = aim.across
         /\ beam.dot = Copying => aim'.x = PlaneX(loopy.t)
<1>1. aim \in [x : Nat, y : Nat, across : BOOLEAN, down : BOOLEAN] /\ aim.x < 512 /\ aim.x % 8 = 0
      /\ loopy.t \in Vs
  BY DEF ScrollTypes
<1>2. CASE beam.dot = Copying
  <2>1. PICK x \in Nat : x = PlaneX(loopy.t) /\ x < 512 /\ x % 8 = 0
    BY <1>1, OnThePlane DEF Places
  <2>2. aim' = [aim EXCEPT !.x = x, !.across = TRUE]
    BY <1>2, <2>1 DEF Rendered, PlaneX, AskedFollows, Asks
  <2>3. aim' = [x |-> x, y |-> aim.y, across |-> TRUE, down |-> aim.down]
    BY <1>1, <2>2
  <2>4. aim.y \in Nat /\ aim.down \in BOOLEAN
    BY <1>1
  <2>5. aim' \in [x : Nat, y : Nat, across : BOOLEAN, down : BOOLEAN]
    BY <2>1, <2>3, <2>4
  <2> QED BY <1>2, <2>1, <2>3, <2>5
<1>3. CASE beam.dot # Copying
  <2>1. aim' = aim
    BY <1>3 DEF Rendered
  <2> QED BY <1>1, <1>3, <2>1
<1> QED BY <1>2, <1>3

(* v stays the place of the tile to be fetched next. *)
LEMMA AddressKept ==
  ASSUME ScrollTypes, AskedFollows, AddressFollows, Rendered
  PROVE  AddressFollows'
<1>1. PICK d \in Nat, e \in Nat, v \in Vs, u \in Vs :
        /\ d = beam.dot /\ e = Ahead(d) /\ v = loopy.v /\ u = loopy'.v /\ u = WalkAt(d, v)
  <2>1. beam.dot \in Nat /\ Ahead(beam.dot) \in Nat
    <3>1. PICK n \in Nat : n = beam.dot /\ n >= 1
      BY DEF ScrollTypes
    <3>2. (n - 1) \div 8 \in Nat
      BY <3>1
    <3>3. n >= Prefetch => (n - Prefetch) \div 8 \in Nat
      BY <3>1, ScrollDots
    <3>4. ~(n < Prefetch) => n >= Prefetch
      BY <3>1, ScrollDots
    <3> QED BY <3>1, <3>2, <3>3, <3>4 DEF Ahead
  <2>2. loopy.v \in Vs /\ loopy'.v \in Vs
    BY RenderedWalk DEF ScrollTypes
  <2> QED BY <2>1, <2>2, RenderedWalk
<1>2. d # Copying + 1 /\ showing /\ showing'
  BY <1>1 DEF Rendered
<1>3. PICK r \in Nat, rr \in Nat, ee \in Nat :
        /\ r = Row(beam) /\ rr = Row(beam') /\ ee = Ahead(beam'.dot)
        /\ rr = (IF d = Copying - 1 THEN r + 1 ELSE r)
        /\ ee = IF d = Copying THEN 0 ELSE IF Fetches(d) /\ d % 8 = 0 THEN e + 1 ELSE e
  <2>1. Row(beam) \in Nat
    BY DEF ScrollTypes, Row
  <2>2. beam' = AfterDot
    BY DEF Rendered
  <2>3. /\ Row(beam') = IF d = Copying - 1 THEN Row(beam) + 1 ELSE Row(beam)
        /\ Ahead(beam'.dot) = IF d = Copying THEN 0
                              ELSE IF Fetches(d) /\ d % 8 = 0 THEN e + 1 ELSE e
    BY <1>1, <1>2, <2>2, AfterTheDot
  <2> QED BY <2>1, <2>3
<1>4. ASSUME aim'.across
      PROVE  PlaneX(u) = (aim'.x + 8 * ee) % 512
  <2>1. CASE d = Copying
    <3>1. SameAcross(loopy.t, u) /\ aim'.x = PlaneX(loopy.t)
      BY <1>1, <1>2, <2>1, Walking, RenderedAim
    <3>2. PlaneX(u) = PlaneX(loopy.t)
      BY <3>1 DEF SameAcross, PlaneX
    <3>3. PICK x \in Nat : x = aim'.x /\ x < 512
      BY RenderedAim
    <3> QED BY <1>3, <2>1, <3>1, <3>2, <3>3
  <2>2. CASE d # Copying
    <3>1. PICK x \in Nat : x = aim.x /\ x = aim'.x /\ aim.across
      BY <1>1, <1>4, <2>2, RenderedAim DEF ScrollTypes
    <3>2. PlaneX(v) = (x + 8 * e) % 512
      BY <1>1, <3>1 DEF AddressFollows
    <3>3. PlaneX(u) = IF Fetches(d) /\ d % 8 = 0 THEN (PlaneX(v) + 8) % 512 ELSE PlaneX(v)
      BY <1>1, <1>2, <2>2, Walking
    <3>4. (((x + 8 * e) % 512) + 8) % 512 = (x + 8 * (e + 1)) % 512
      OBVIOUS
    <3> QED BY <1>3, <2>2, <3>1, <3>2, <3>3, <3>4
  <2> QED BY <2>1, <2>2
<1>5. ASSUME aim'.down
      PROVE  CoarseY(u) < 30 /\ PlaneY(u) = (aim'.y + rr) % 480
  <2>1. PICK y \in Nat : y = aim.y /\ y = aim'.y /\ aim.down
    BY <1>5, RenderedAim DEF ScrollTypes
  <2>2. CoarseY(v) < 30 /\ PlaneY(v) = (y + r) % 480
    BY <1>1, <1>3, <2>1 DEF AddressFollows
  <2>3. CoarseY(u) < 30 /\ PlaneY(u) = IF d = Copying - 1 THEN (PlaneY(v) + 1) % 480 ELSE PlaneY(v)
    BY <1>1, <1>2, <2>2, Walking
  <2>4. (((y + r) % 480) + 1) % 480 = (y + (r + 1)) % 480
    OBVIOUS
  <2> QED BY <1>3, <2>1, <2>2, <2>3, <2>4
<1> QED BY <1>1, <1>2, <1>3, <1>4, <1>5 DEF AddressFollows

(* The row of a tile read anew is the row it was read for. *)
LEMMA RowOfTile ==
  ASSUME NEW v \in Vs
  PROVE  /\ \A tile \in Tilings : WithRow(tile, v) \in Tilings
         /\ WithRow(v, v) = v /\ AttributeAt(v) \in Nat \X Nat
<1>1. PICK cx \in Nat, cy \in Nat, a \in Nat, d \in Nat, f \in Nat :
        /\ cx < 32 /\ cy < 32 /\ a < 2 /\ d < 2 /\ f < 8 /\ v = Address(cx, cy, a, d, f)
        /\ CoarseX(v) = cx /\ CoarseY(v) = cy /\ Across(v) = a /\ FineDown(v) = d /\ FineY(v) = f
  BY Fields
<1>2. ASSUME NEW tile \in Vs PROVE Put(tile, 4096, 8, f) \in Vs
  <2>1. PICK tx \in Nat, ty \in Nat, ta \in Nat, td \in Nat :
          /\ tx < 32 /\ ty < 32 /\ ta < 2 /\ td < 2
          /\ CoarseX(tile) = tx /\ CoarseY(tile) = ty /\ Across(tile) = ta /\ FineDown(tile) = td
    BY Fields
  <2>2. Put(tile, 4096, 8, f) = Address(tx, ty, ta, td, f)
    BY <1>1, <2>1, PutFields
  <2> QED BY <1>1, <2>1, <2>2, FieldsOf
<1>3. Blank \notin Vs
  BY ScrollAssumption DEF Vs
<1>4. Put(v, 4096, 8, f) = v
  BY <1>1, PutFields
<1>5. \A tile \in Tilings : WithRow(tile, v) \in Tilings
  BY <1>1, <1>2 DEF WithRow, Tilings
<1>6. WithRow(v, v) = v
  BY <1>1, <1>3, <1>4 DEF WithRow
<1>7. v \in Nat
  BY DEF Vs
<1>8. AttributeAt(v) \in Nat \X Nat
  BY <1>7 DEF AttributeAt, Place
<1> QED BY <1>5, <1>6, <1>8

Fetched ==
  latched' \in [tile : Tilings, attribute : Nat \X Nat, low : Tilings, high : Tilings]

(* What the dot fetched, by its place in the tile. *)
LEMMA Fetching ==
  ASSUME ScrollTypes, Rendered, NEW d, d = beam.dot, NEW v, v = loopy.v
  PROVE  /\ Fetched
         /\ ~Fetches(d) \/ d % 8 \notin {1, 3, 5, 7} => latched' = latched
         /\ Fetches(d) =>
              /\ latched'.tile = IF d % 8 = 1 THEN v ELSE latched.tile
              /\ latched'.attribute = IF d % 8 = 3 THEN AttributeAt(v) ELSE latched.attribute
              /\ latched'.low = IF d % 8 = 5 THEN WithRow(latched.tile, v) ELSE latched.low
              /\ latched'.high = IF d % 8 = 7 THEN WithRow(latched.tile, v) ELSE latched.high
<1>1. /\ v \in Vs
      /\ latched \in [tile : Tilings, attribute : Nat \X Nat, low : Tilings, high : Tilings]
  BY DEF ScrollTypes
<1>2. v \in Tilings /\ AttributeAt(v) \in Nat \X Nat /\ WithRow(latched.tile, v) \in Tilings
  BY <1>1, RowOfTile DEF Tilings
<1>3. latched' = IF Fetches(d) THEN FetchAt(d, v) ELSE latched
  BY DEF Rendered
<1>4. CASE ~Fetches(d)
  BY <1>1, <1>3, <1>4 DEF Fetched
<1>5. CASE Fetches(d)
  <2>1. latched' = FetchAt(d, v)
    BY <1>3, <1>5
  <2>2. CASE d % 8 = 1
    <3>1. latched' = [latched EXCEPT !.tile = v]
      BY <2>1, <2>2 DEF FetchAt
    <3> QED BY <1>1, <1>2, <1>5, <2>2, <3>1 DEF Fetched
  <2>3. CASE d % 8 = 3
    <3>1. latched' = [latched EXCEPT !.attribute = AttributeAt(v)]
      BY <2>1, <2>3 DEF FetchAt
    <3> QED BY <1>1, <1>2, <1>5, <2>3, <3>1 DEF Fetched
  <2>4. CASE d % 8 = 5
    <3>1. latched' = [latched EXCEPT !.low = WithRow(latched.tile, v)]
      BY <2>1, <2>4 DEF FetchAt
    <3> QED BY <1>1, <1>2, <1>5, <2>4, <3>1 DEF Fetched
  <2>5. CASE d % 8 = 7
    <3>1. latched' = [latched EXCEPT !.high = WithRow(latched.tile, v)]
      BY <2>1, <2>5 DEF FetchAt
    <3> QED BY <1>1, <1>2, <1>5, <2>5, <3>1 DEF Fetched
  <2>6. CASE d % 8 \notin {1, 3, 5, 7}
    <3>1. latched' = latched
      BY <2>1, <2>6 DEF FetchAt
    <3> QED BY <1>1, <1>5, <2>6, <3>1 DEF Fetched
  <2> QED BY <2>2, <2>3, <2>4, <2>5, <2>6
<1> QED BY <1>4, <1>5

DotIs(d, c, tiles) ==
  /\ d = beam.dot /\ d >= 1 /\ d <= LastDot /\ c = Copying /\ c = 8 * tiles + 1 /\ tiles >= 1
  /\ Prefetch = c + 64 /\ LastDot = c + 80 /\ (d <= c \/ d >= c + 64)

(* The dot as a number that is not in the gap. *)
LEMMA TheDot ==
  ASSUME ScrollTypes, Rendered
  PROVE  \E d \in Nat, c \in Nat, tiles \in Nat : DotIs(d, c, tiles)
<1>1. /\ beam.dot \in Nat /\ beam.dot >= 1 /\ beam.dot <= LastDot
      /\ beam.dot <= Copying + 1 \/ beam.dot >= Prefetch
      /\ beam.dot # Copying + 1
  BY DEF ScrollTypes, Rendered
<1>2. DotIs(beam.dot, Copying, Tiles)
  BY <1>1, ScrollDots DEF DotIs
<1> QED BY <1>1, <1>2, ScrollDots

(* Inside a tile v stands still, and the dot before was a fetch as well. *)
LEMMA InsideATile ==
  ASSUME ScrollTypes, Rendered, Fetches(beam'.dot), Phase(beam'.dot) >= 1
  PROVE  /\ beam'.dot = beam.dot + 1 /\ Fetches(beam.dot) /\ beam.dot # Copying
         /\ beam.dot % 8 = Phase(beam'.dot) /\ Phase(beam.dot) = Phase(beam'.dot) - 1
<1>1. PICK d \in Nat, c \in Nat, tiles \in Nat :
        /\ d = beam.dot /\ d >= 1 /\ d <= LastDot /\ c = Copying /\ c = 8 * tiles + 1 /\ tiles >= 1
        /\ Prefetch = c + 64 /\ LastDot = c + 80 /\ (d <= c \/ d >= c + 64)
  BY TheDot DEF DotIs
<1>2. /\ d < LastDot => beam'.dot = d + 1
      /\ d = LastDot => beam'.dot = 1
  BY <1>1, AfterTheDot DEF Rendered
<1>3. d < LastDot
  <2>1. Phase(1) = 0
    BY DEF Phase
  <2> QED BY <1>1, <1>2, <2>1
<1>4. beam'.dot = d + 1 /\ d % 8 = Phase(beam'.dot) /\ d % 8 >= 1
  BY <1>1, <1>2, <1>3 DEF Phase
<1>5. (d - 1) % 8 = (d % 8) - 1
  BY <1>1, <1>4
<1>6. d # c /\ d # c + 63
  <2>1. d + 1 # c + 1
    BY <1>1, <1>4 DEF Fetches
  <2> QED BY <1>1, <2>1
<1>7. Fetches(d)
  BY <1>1, <1>3, <1>4, <1>6 DEF Fetches
<1> QED BY <1>1, <1>4, <1>5, <1>6, <1>7 DEF Phase

(* What a tile's fetches have found so far was found at one v. *)
LEMMA FetchKept ==
  ASSUME ScrollTypes, FetchFollows, Rendered
  PROVE  FetchFollows'
<1> SUFFICES ASSUME Aimed', Fetches(beam'.dot), Phase(beam'.dot) >= 1
             PROVE  /\ latched'.tile = loopy'.v
                    /\ Phase(beam'.dot) >= 3 => latched'.attribute = AttributeAt(loopy'.v)
                    /\ Phase(beam'.dot) >= 5 => latched'.low = loopy'.v
                    /\ Phase(beam'.dot) >= 7 => latched'.high = loopy'.v
  <2>1. beam'.dot \in Nat
    BY AfterTheDot DEF Rendered
  <2> QED BY <2>1 DEF FetchFollows, Phase
<1>1. PICK d \in Nat, p \in 1 .. 7, v \in Vs :
        /\ d = beam.dot /\ p = Phase(beam'.dot) /\ v = loopy.v /\ d % 8 = p /\ Phase(d) = p - 1
        /\ Fetches(d) /\ d # Copying
  <2>1. beam.dot \in Nat /\ loopy.v \in Vs
    BY DEF ScrollTypes
  <2>2. beam.dot % 8 \in 0 .. 7
    BY <2>1
  <2> QED BY <2>1, <2>2, InsideATile
<1>2. loopy'.v = v
  <2>1. WalkAt(d, v) = v
    BY <1>1, Walking DEF Rendered
  <2> QED BY <1>1, <2>1, RenderedWalk
<1>3. Aimed
  <2>1. aim' = aim
    BY <1>1 DEF Rendered
  <2> QED BY <2>1 DEF Aimed
<1>4. /\ p >= 2 => latched.tile = v
      /\ p >= 4 => latched.attribute = AttributeAt(v)
      /\ p >= 6 => latched.low = v
  BY <1>1, <1>3 DEF FetchFollows
<1>5. /\ latched'.tile = IF p = 1 THEN v ELSE latched.tile
      /\ latched'.attribute = IF p = 3 THEN AttributeAt(v) ELSE latched.attribute
      /\ latched'.low = IF p = 5 THEN WithRow(latched.tile, v) ELSE latched.low
      /\ latched'.high = IF p = 7 THEN WithRow(latched.tile, v) ELSE latched.high
  BY <1>1, Fetching
<1>6. WithRow(v, v) = v
  BY RowOfTile
<1> QED BY <1>1, <1>2, <1>4, <1>5, <1>6

(* A tile that is complete is the one before v. *)
LEMMA TileKept ==
  ASSUME ScrollTypes, AddressFollows, FetchFollows, TileFollows, Rendered
  PROVE  TileFollows'
<1> SUFFICES ASSUME Aimed', Phase(beam'.dot) = 0, beam'.dot # Copying, beam'.dot # Prefetch
             PROVE  /\ latched'.tile \in Vs /\ latched'.low = latched'.tile
                    /\ latched'.high = latched'.tile
                    /\ latched'.attribute = AttributeAt(latched'.tile)
                    /\ PlaneX(latched'.tile) = (aim'.x + 8 * (Ahead(beam'.dot) - 1)) % 512
                    /\ PlaneY(latched'.tile) = (aim'.y + Row(beam')) % 480
  BY DEF TileFollows
<1>1. PICK d \in Nat, c \in Nat, tiles \in Nat :
        /\ d = beam.dot /\ d >= 1 /\ d <= LastDot /\ c = Copying /\ c = 8 * tiles + 1 /\ tiles >= 1
        /\ Prefetch = c + 64 /\ LastDot = c + 80 /\ (d <= c \/ d >= c + 64)
  BY TheDot DEF DotIs
<1>2. /\ d < LastDot => beam'.dot = d + 1
      /\ d = LastDot => beam'.dot = 1
      /\ Row(beam') = IF d = Copying - 1 THEN Row(beam) + 1 ELSE Row(beam)
      /\ Ahead(beam'.dot) = IF d = Copying THEN 0
                            ELSE IF Fetches(d) /\ d % 8 = 0 THEN Ahead(d) + 1 ELSE Ahead(d)
  BY <1>1, AfterTheDot DEF Rendered
<1>3. d # c /\ d # c - 1
  <2>1. Phase(c + 1) = 1
    BY <1>1 DEF Phase
  <2> QED BY <1>1, <1>2, <2>1
<1>4. aim' = aim /\ Aimed
  <2>1. aim' = aim
    BY <1>1, <1>3 DEF Rendered
  <2> QED BY <2>1 DEF Aimed
<1>5. CASE d = LastDot
  <2>1. ~Fetches(d) /\ Phase(d) = 0
    BY <1>1, <1>5 DEF Fetches, Phase
  <2>2. latched' = latched
    BY <1>1, <2>1, Fetching
  <2>3. d # Copying /\ d # Prefetch /\ d # Copying - 1
    BY <1>1, <1>5
  <2>4. /\ latched.tile \in Vs /\ latched.low = latched.tile /\ latched.high = latched.tile
        /\ latched.attribute = AttributeAt(latched.tile)
        /\ PlaneX(latched.tile) = (aim.x + 8 * (Ahead(d) - 1)) % 512
        /\ PlaneY(latched.tile) = (aim.y + Row(beam)) % 480
    BY <1>1, <1>4, <2>1, <2>3 DEF TileFollows
  <2>5. Ahead(beam'.dot) = Ahead(d) /\ Row(beam') = Row(beam)
    BY <1>2, <2>1, <2>3
  <2> QED BY <1>4, <2>2, <2>4, <2>5
<1>6. CASE d < LastDot
  <2>1. d % 8 = 0
    BY <1>1, <1>2, <1>6 DEF Phase
  <2>2. d # c + 63 /\ Phase(d) = 7
    BY <1>1, <1>2, <1>6, <2>1 DEF Phase
  <2>3. Fetches(d)
    BY <1>1, <1>3, <1>6, <2>2 DEF Fetches
  <2>4. latched' = latched
    BY <1>1, <2>1, Fetching
  <2>5. /\ latched.tile = loopy.v /\ latched.attribute = AttributeAt(loopy.v)
        /\ latched.low = loopy.v /\ latched.high = loopy.v
    BY <1>1, <1>4, <2>2, <2>3 DEF FetchFollows
  <2>6. /\ PlaneX(loopy.v) = (aim.x + 8 * Ahead(d)) % 512
        /\ PlaneY(loopy.v) = (aim.y + Row(beam)) % 480
    BY <1>1, <1>4 DEF AddressFollows, Aimed
  <2>7. Ahead(d) \in Nat
    <3>1. (d - 1) \div 8 \in Nat /\ (d >= Prefetch => (d - Prefetch) \div 8 \in Nat)
      BY <1>1
    <3>2. ~(d < Prefetch) => d >= Prefetch
      BY <1>1
    <3> QED BY <3>1, <3>2 DEF Ahead
  <2>8. Ahead(beam'.dot) - 1 = Ahead(d) /\ Row(beam') = Row(beam)
    <3>1. d # Copying /\ d # Copying - 1
      BY <1>1, <1>3
    <3>2. Ahead(beam'.dot) = Ahead(d) + 1
      BY <1>2, <2>1, <2>3, <3>1
    <3> QED BY <1>2, <2>7, <3>1, <3>2
  <2>9. loopy.v \in Vs
    BY DEF ScrollTypes
  <2> QED BY <1>4, <2>4, <2>5, <2>6, <2>8, <2>9
<1> QED BY <1>1, <1>5, <1>6

(* The sixteen pixels after the dot. *)
LEMMA ShifterMoves ==
  ASSUME ScrollTypes, Rendered
  PROVE  /\ ShiftedOn \in Seq(Pixels) /\ Len(ShiftedOn) = 16
         /\ shifter' \in Seq(Pixels) /\ Len(shifter') = 16
         /\ \A i \in Cells : Reloads(beam.dot) /\ i > 8 => shifter'[i] = LatchedPixels[i - 8]
         /\ \A i \in Cells : ~Reloads(beam.dot) \/ i <= 8 => shifter'[i] = ShiftedOn[i]
         /\ \A i \in Cells : ShiftsAt(beam.dot) /\ i < 16 => ShiftedOn[i] = shifter[i + 1]
<1>1. PICK n \in Nat : n = 16
  OBVIOUS
<1>2. \A i \in Cells : i \in 1 .. n
  BY <1>1 DEF Cells
<1>3. shifter \in Seq(Pixels) /\ Len(shifter) = n
  BY <1>1 DEF ScrollTypes
<1>4. /\ Shift(shifter) \in Seq(Pixels) /\ Len(Shift(shifter)) = n
      /\ \A i \in 1 .. n : i < n => Shift(shifter)[i] = shifter[i + 1]
  BY <1>1, <1>3, Shifting
<1>5. PICK s \in Seq(Pixels) :
        /\ s = ShiftedOn /\ Len(s) = n
        /\ \A i \in 1 .. n : ShiftsAt(beam.dot) /\ i < n => s[i] = shifter[i + 1]
  BY <1>3, <1>4 DEF ShiftedOn
<1>6. /\ Reload(s) \in Seq(Pixels) /\ Len(Reload(s)) = n
      /\ \A i \in 1 .. n : i <= 8 => Reload(s)[i] = s[i]
      /\ \A i \in 1 .. n : i > 8 => Reload(s)[i] = LatchedPixels[i - 8]
  BY <1>1, <1>5, Reloading
<1>7. shifter' = IF Reloads(beam.dot) THEN Reload(s) ELSE s
  BY <1>5 DEF Rendered
<1> QED BY <1>1, <1>2, <1>5, <1>6, <1>7

(* A place of the plane that is a column further on. *)
LEMMA Further ==
  ASSUME NEW pixel, NEW x \in Int, NEW y, NEW z, z = x, Lies(pixel, x, y)
  PROVE  Lies(pixel, z, y)
OBVIOUS

(* The pixels of the tile that was fetched. *)
LEMMA TileLies ==
  ASSUME ScrollTypes, TileFollows, Aimed, Phase(beam.dot) = 0, beam.dot # Copying,
         beam.dot # Prefetch, NEW i \in Cells, i > 8, NEW x \in Nat,
         x = aim.x + 8 * (Ahead(beam.dot) - 1) + i - 9
  PROVE  Lies(LatchedPixels[i - 8], x, aim.y + Row(beam))
<1>1. PICK c \in Nat, k \in Nat :
        k = i - 9 /\ c = i - 8 /\ c \in 1 .. 8 /\ k \in 0 .. 7 /\ c - 1 = k
  BY DEF Cells
<1>2. PICK tile \in Vs :
        /\ tile = latched.tile
        /\ PlaneX(tile) = (aim.x + 8 * (Ahead(beam.dot) - 1)) % 512
        /\ PlaneY(tile) = (aim.y + Row(beam)) % 480
  BY DEF TileFollows
<1>3. LatchedPixels[c] = <<tile, k>>
  <2>1. LatchedPixels[c] = <<latched.tile, c - 1>>
    BY <1>1, TilePixels DEF TileFollows
  <2> QED BY <1>1, <1>2, <2>1
<1>4. PlaneX(tile) + k = x % 512
  <2>1. PICK a \in Nat, e \in Nat :
          a = aim.x /\ a % 8 = 0 /\ e = Ahead(beam.dot) - 1 /\ x = a + 8 * e + k
    <3>1. aim.x \in Nat /\ aim.x % 8 = 0 /\ beam.dot \in Nat /\ beam.dot >= 1 /\ beam.dot # Prefetch
          /\ (beam.dot <= Copying + 1 \/ beam.dot >= Prefetch) /\ beam.dot # Copying
      BY DEF ScrollTypes
    <3>2. Ahead(beam.dot) \in Nat /\ Ahead(beam.dot) >= 1
      <4>1. CASE beam.dot <= Copying
        BY <3>1, <4>1 DEF Ahead
      <4>2. CASE beam.dot >= Prefetch
        <5>1. PICK g \in Nat, h \in Nat : g = beam.dot /\ h = g - Prefetch /\ h >= 1 /\ h % 8 = 0
          <6>1. PICK g \in Nat, tiles \in Nat, c2 \in Nat, p \in Nat :
                  /\ g = beam.dot /\ c2 = 8 * tiles + 1 /\ p = c2 + 64 /\ p = Prefetch
                  /\ g >= p /\ g # p
            BY <3>1, <4>2, ScrollDots
          <6>2. (g - 1) % 8 = 0
            BY <6>1 DEF Phase
          <6>3. (g - p) % 8 = 0
            BY <6>1, <6>2
          <6> QED BY <6>1, <6>3
        <5>2. ~(g <= Copying) /\ ~(g < Prefetch)
          BY <4>2, <5>1, ScrollDots
        <5>3. Ahead(g) = h \div 8
          BY <5>1, <5>2 DEF Ahead
        <5> QED BY <5>1, <5>3
      <4>3. Phase(Copying + 1) = 1
        BY ScrollDots DEF Phase
      <4>4. beam.dot # Copying + 1
        BY <4>3
      <4> QED BY <3>1, <4>1, <4>2, <4>4, ScrollDots
    <3> QED BY <1>1, <3>1, <3>2
  <2>2. PlaneX(tile) = (a + 8 * e) % 512
    BY <1>2, <2>1
  <2>3. ((a + 8 * e) % 512) + k = (a + 8 * e + k) % 512
    <3>1. PICK m \in Nat : m = a + 8 * e /\ m % 8 = 0
      BY <2>1
    <3>2. PICK q \in Nat, r \in Nat : m = 512 * q + r /\ r < 512 /\ r = m % 512
      <4>1. m = 512 * (m \div 512) + (m % 512)
        BY <3>1
      <4>2. m \div 512 \in Nat /\ m % 512 \in Nat /\ m % 512 < 512
        BY <3>1
      <4> QED BY <4>1, <4>2
    <3>3. r % 8 = 0
      BY <3>1, <3>2
    <3>4. r + k < 512
      BY <1>1, <3>2, <3>3
    <3>5. (512 * q + (r + k)) % 512 = r + k
      BY <1>1, <3>2, <3>4
    <3> QED BY <1>1, <3>1, <3>2, <3>5
  <2> QED BY <2>1, <2>2, <2>3
<1> QED BY <1>1, <1>2, <1>3, <1>4 DEF Lies

(* The pixels in the shift registers are those of the columns that come next. *)
LEMMA ShifterKept ==
  ASSUME ScrollTypes, TileFollows, ShifterFollows, Rendered
  PROVE  ShifterFollows'
<1> SUFFICES ASSUME Aimed', beam'.dot <= Copying \/ beam'.dot > Prefetch + 8,
                    NEW i \in Cells, First(beam'.dot) <= i, i <= Last(beam'.dot)
             PROVE  Lies(shifter'[i], aim'.x + i + Offset(beam'.dot), aim'.y + ShownRow(beam'))
  BY DEF ShifterFollows
<1>1. PICK d \in Nat, c \in Nat, tiles \in Nat :
        /\ d = beam.dot /\ d >= 1 /\ d <= LastDot /\ c = Copying /\ c = 8 * tiles + 1 /\ tiles >= 1
        /\ Prefetch = c + 64 /\ LastDot = c + 80 /\ (d <= c \/ d >= c + 64)
  BY TheDot DEF DotIs
<1>2. /\ d < LastDot => beam'.dot = d + 1
      /\ d = LastDot => beam'.dot = 1
      /\ d # Copying => ShownRow(beam') = ShownRow(beam)
  BY <1>1, AfterTheDot DEF Rendered
<1>3. d < c \/ d >= c + 72
  BY <1>1, <1>2
<1>4. aim' = aim /\ Aimed /\ ShownRow(beam') = ShownRow(beam)
  <2>1. d # Copying
    BY <1>1, <1>3
  <2>2. aim' = aim
    BY <1>1, <2>1 DEF Rendered
  <2> QED BY <1>2, <2>1, <2>2 DEF Aimed
<1>5. PICK a \in Nat, j \in Nat : a = aim.x /\ j = i /\ j >= 1 /\ j <= 16
  BY DEF ScrollTypes, Cells
<1>6. ASSUME ShiftsAt(d), j < 16, ~Reloads(d) \/ j <= 8, d <= c \/ d > c + 72,
             First(d) <= j + 1, j + 1 <= Last(d), Offset(beam'.dot) = Offset(d) + 1,
             Offset(d) \in Int
      PROVE  Lies(shifter'[i], aim'.x + i + Offset(beam'.dot), aim'.y + ShownRow(beam'))
  <2>1. shifter'[i] = shifter[j + 1]
    BY <1>1, <1>5, <1>6, ShifterMoves
  <2>2. j + 1 \in Cells
    BY <1>5, <1>6 DEF Cells
  <2>3. Lies(shifter[j + 1], a + (j + 1) + Offset(d), aim.y + ShownRow(beam))
    BY <1>1, <1>4, <1>5, <1>6, <2>2 DEF ShifterFollows
  <2>4. a + (j + 1) + Offset(d) = a + j + Offset(beam'.dot)
    BY <1>5, <1>6
  <2> QED BY <1>4, <1>5, <2>1, <2>3, <2>4
<1>7. ASSUME Reloads(d), j > 8, Phase(d) = 0, d # Copying, d # Prefetch, Row(beam) = ShownRow(beam),
             NEW k \in Nat, Ahead(d) = k + 1, a + 8 * k + j >= 9,
             Offset(beam'.dot) = 8 * k - 9
      PROVE  Lies(shifter'[i], aim'.x + i + Offset(beam'.dot), aim'.y + ShownRow(beam'))
  <2>1. shifter'[i] = LatchedPixels[i - 8]
    BY <1>1, <1>5, <1>7, ShifterMoves
  <2>2. PICK x \in Nat : x = a + 8 * k + j - 9
    BY <1>5, <1>7
  <2>3. x = aim.x + 8 * (Ahead(beam.dot) - 1) + i - 9
    BY <1>1, <1>5, <1>7, <2>2
  <2>4. Lies(LatchedPixels[i - 8], x, aim.y + Row(beam))
    BY <1>1, <1>4, <1>5, <1>7, <2>3, TileLies
  <2>5. x = aim'.x + i + Offset(beam'.dot)
    BY <1>4, <1>5, <1>7, <2>2
  <2> QED BY <1>4, <1>7, <2>1, <2>4, <2>5
<1>8. CASE d = LastDot
  <2>1. ShiftsAt(d) /\ ~Reloads(d)
    BY <1>1, <1>8 DEF ShiftsAt, Reloads, Fetches
  <2>2. beam'.dot = 1 /\ j <= 8
    BY <1>1, <1>2, <1>5, <1>8 DEF Last
  <2>3. Offset(d) = -2 /\ First(d) = 2 /\ Last(d) = 9 /\ Offset(1) = -1
    <3>1. ~(d <= Copying) /\ d # 1 /\ d = Prefetch + 16
      BY <1>1, <1>8
    <3> QED BY <1>1, <3>1 DEF Offset, First, Last
  <2> QED BY <1>1, <1>5, <1>6, <1>8, <2>1, <2>2, <2>3
<1>9. CASE d = 1
  <2>1. ~ShiftsAt(d) /\ Reloads(d) /\ beam'.dot = 2 /\ d <= Copying /\ d < Copying
    BY <1>1, <1>2, <1>9 DEF ShiftsAt, Reloads, Fetches
  <2>2. Offset(d) = -1 /\ First(d) = 1 /\ Last(d) = 8 /\ Offset(2) = -1
    BY <1>1, <1>9, <2>1 DEF Offset, First, Last
  <2>3. CASE j <= 8
    <3>1. shifter'[i] = shifter[i]
      BY <1>1, <1>5, <2>1, <2>3, ShifterMoves DEF ShiftedOn
    <3>2. Lies(shifter[i], aim.x + i + Offset(d), aim.y + ShownRow(beam))
      BY <1>1, <1>4, <1>5, <2>1, <2>2, <2>3 DEF ShifterFollows
    <3> QED BY <1>4, <2>1, <2>2, <3>1, <3>2
  <2>4. CASE j > 8
    <3>1. Phase(d) = 0 /\ d # Copying /\ d # Prefetch /\ Ahead(d) = 1 + 1
      BY <1>1, <1>9, <2>1 DEF Phase, Ahead
    <3>2. Row(beam) = ShownRow(beam)
      BY <1>1, <2>1 DEF Row, ShownRow
    <3> QED BY <1>5, <1>7, <2>1, <2>2, <2>4, <3>1, <3>2
  <2> QED BY <1>5, <2>3, <2>4
<1>10. CASE d > 1 /\ d < c /\ d % 8 # 1
  <2>1. ShiftsAt(d) /\ ~Reloads(d) /\ beam'.dot = d + 1
    BY <1>1, <1>2, <1>10 DEF ShiftsAt, Reloads, Fetches
  <2>2. Offset(d) = d - 3 /\ Offset(d + 1) = d - 2 /\ First(d) = 1
        /\ Last(d) = 16 - ((d - 2) % 8) /\ Last(d + 1) = 16 - ((d - 1) % 8)
    BY <1>1, <1>10 DEF Offset, First, Last
  <2>3. (d - 1) % 8 = ((d - 2) % 8) + 1
    BY <1>10
  <2>4. (d - 2) % 8 \in Nat
    BY <1>10
  <2>5. j <= 16 - ((d - 1) % 8)
    BY <1>5, <2>1, <2>2
  <2>6. j + 1 <= Last(d) /\ j < 16
    BY <1>5, <2>2, <2>3, <2>4, <2>5
  <2> QED BY <1>1, <1>5, <1>6, <1>10, <2>1, <2>2, <2>6
<1>11. CASE d > 1 /\ d < c /\ d % 8 = 1
  <2>1. ShiftsAt(d) /\ Reloads(d) /\ beam'.dot = d + 1
    BY <1>1, <1>2, <1>11 DEF ShiftsAt, Reloads, Fetches
  <2>2. Offset(d) = d - 3 /\ Offset(d + 1) = d - 2 /\ First(d) = 1 /\ Last(d) = 9
    <3>1. (d - 2) % 8 = 7
      BY <1>11
    <3> QED BY <1>1, <1>11, <3>1 DEF Offset, First, Last
  <2>3. CASE j <= 8
    BY <1>1, <1>5, <1>6, <1>11, <2>1, <2>2, <2>3
  <2>4. CASE j > 8
    <3>1. PICK k \in Nat : k = 1 + (d - 1) \div 8 /\ 8 * k = d + 7
      <4>1. (d - 1) \div 8 \in Nat /\ 8 * ((d - 1) \div 8) = d - 1
        BY <1>11
      <4> QED BY <4>1
    <3>2. Phase(d) = 0 /\ d # Copying /\ d # Prefetch /\ Ahead(d) = k + 1
      <4>1. (d - 1) % 8 = 0
        BY <1>11
      <4> QED BY <1>1, <1>11, <3>1, <4>1 DEF Phase, Ahead
    <3>3. Row(beam) = ShownRow(beam)
      BY <1>1, <1>11 DEF Row, ShownRow
    <3> QED BY <1>5, <1>7, <2>1, <2>2, <2>4, <3>1, <3>2, <3>3
  <2> QED BY <1>5, <2>3, <2>4
<1>12. CASE d = c + 72
  <2>1. Reloads(d) /\ beam'.dot = d + 1
    BY <1>1, <1>2, <1>12 DEF Reloads, Fetches
  <2>2. Offset(d + 1) = -9 /\ First(d + 1) = 9
    <3>1. ~(d + 1 <= Copying) /\ d + 1 # 1 /\ d + 1 = Prefetch + 9
      BY <1>1, <1>12
    <3> QED BY <1>1, <3>1 DEF Offset, First
  <2>3. Phase(d) = 0 /\ d # Copying /\ d # Prefetch /\ Ahead(d) = 0 + 1
    <3>1. ~(d <= Copying) /\ ~(d < Prefetch) /\ d - Prefetch = 8 /\ (d - 1) % 8 = 0
      BY <1>1, <1>12
    <3> QED BY <1>1, <1>12, <3>1 DEF Phase, Ahead
  <2>4. Row(beam) = ShownRow(beam)
    <3>1. ~(d <= Copying)
      BY <1>1, <1>12
    <3> QED BY <1>1, <3>1 DEF ShownRow
  <2> QED BY <1>5, <1>7, <2>1, <2>2, <2>3, <2>4
<1>13. CASE d > c + 72 /\ d < LastDot
  <2>1. ShiftsAt(d) /\ ~Reloads(d) /\ beam'.dot = d + 1
    BY <1>1, <1>2, <1>13 DEF ShiftsAt, Reloads, Fetches
  <2>2. PICK e \in Nat : e = d - Prefetch /\ e >= 9 /\ e <= 15
    BY <1>1, <1>13
  <2>3. /\ Offset(d) = e - 18 /\ First(d) = 18 - e /\ Last(d) = 25 - e
        /\ Offset(d + 1) = e - 17 /\ First(d + 1) = 17 - e /\ Last(d + 1) = 24 - e
    <3>1. ~(d <= Copying) /\ ~(d + 1 <= Copying) /\ d # 1 /\ d + 1 # 1
      BY <1>1, <1>13
    <3> QED BY <1>1, <2>2, <3>1 DEF Offset, First, Last
  <2> QED BY <1>1, <1>5, <1>6, <1>13, <2>1, <2>2, <2>3
<1> QED BY <1>1, <1>3, <1>8, <1>9, <1>10, <1>11, <1>12, <1>13

(* The states stay of their types. *)
LEMMA RenderedTypes ==
  ASSUME ScrollTypes, AskedFollows, Rendered
  PROVE  ScrollTypes' /\ AskedFollows'
<1>1. /\ beam' \in [line : 0 .. Lines, dot : Nat] /\ beam'.dot >= 1 /\ beam'.dot <= LastDot
      /\ beam'.dot <= Copying + 1 \/ beam'.dot >= Prefetch
  BY AfterTheDot DEF Rendered
<1>2. latched' \in [tile : Tilings, attribute : Nat \X Nat, low : Tilings, high : Tilings]
  BY Fetching DEF Fetched
<1>3. showing' \in BOOLEAN
  BY DEF ScrollTypes, Rendered
<1>4. asked' = asked
  BY DEF Rendered
<1>5. ScrollTypes'
  BY <1>1, <1>2, <1>3, <1>4, RenderedWalk, RenderedAim, ShifterMoves DEF ScrollTypes
<1>6. AskedFollows'
  BY <1>4, RenderedWalk DEF AskedFollows
<1> QED BY <1>5, <1>6

(* A dot with rendering off, from which no aim is left. *)
LEMMA IdleDot ==
  ASSUME ScrollIInv, Dot, ~showing
  PROVE  ScrollIInv'
<1>1. /\ beam' \in [line : 0 .. Lines, dot : Nat] /\ beam'.dot >= 1 /\ beam'.dot <= LastDot
      /\ beam'.dot <= Copying + 1 \/ beam'.dot >= Prefetch
  BY AfterTheDot DEF Dot, ScrollIInv
<1>2. /\ loopy' = loopy /\ showing' = showing /\ latched' = latched /\ shifter' = shifter
      /\ aim' = aim /\ asked' = asked
  BY DEF Dot
<1>3. ScrollTypes' /\ AskedFollows'
  BY <1>1, <1>2 DEF ScrollIInv, ScrollTypes, AskedFollows
<1>4. ~aim'.across /\ ~aim'.down
  BY <1>2 DEF ScrollIInv, AddressFollows
<1> QED BY <1>3, <1>4
       DEF ScrollIInv, AddressFollows, FetchFollows, TileFollows, ShifterFollows, Aimed

(* The gap, in which the pre-render line copies the vertical half. *)
LEMMA GapKeeps ==
  ASSUME ScrollIInv, AcrossGap
  PROVE  ScrollIInv'
<1>1. PICK c \in Nat, tiles \in Nat, l \in 0 .. Lines :
        /\ c = Copying /\ tiles = Tiles /\ c = 8 * tiles + 1 /\ tiles > 0 /\ Prefetch = c + 64
        /\ LastDot = c + 80 /\ l = beam.line /\ beam.dot = c + 1
  <2>1. beam.line \in 0 .. Lines /\ beam.dot = Copying + 1
    BY DEF ScrollIInv, ScrollTypes, AcrossGap
  <2>2. PICK c \in Nat, tiles \in Nat :
          /\ c = Copying /\ tiles = Tiles /\ c = 8 * tiles + 1 /\ tiles > 0 /\ Prefetch = c + 64
          /\ LastDot = c + 80
    BY ScrollDots
  <2> QED BY <2>1, <2>2
<1>2. beam' = [line |-> l, dot |-> Prefetch]
  <2>1. beam \in [line : 0 .. Lines, dot : Nat] /\ beam' = [beam EXCEPT !.dot = Prefetch]
    BY DEF ScrollIInv, ScrollTypes, AcrossGap
  <2> QED BY <1>1, <2>1
<1>3. beam' \in [line : 0 .. Lines, dot : Nat] /\ beam'.line = l /\ beam'.dot = c + 64
  BY <1>1, <1>2
<1>4. PICK v \in Vs, t \in Vs : v = loopy.v /\ t = loopy.t
  BY DEF ScrollIInv, ScrollTypes
<1>5. PICK y \in Nat : y = PlaneY(t) /\ (CoarseY(t) < 30 => y < 480)
  BY OnThePlane DEF Places
<1>6. showing' = showing /\ latched' = latched /\ shifter' = shifter /\ asked' = asked
  BY DEF AcrossGap
<1>7. Phase(beam'.dot) = 0 /\ beam'.dot = Prefetch /\ Ahead(beam'.dot) = 0
      /\ ~(beam'.dot <= Copying) /\ ~(beam'.dot > Prefetch + 8)
  <2>1. ~(c + 64 <= Copying) /\ ~(c + 64 < Prefetch) /\ ~(c + 64 > Prefetch + 8)
        /\ (c + 64) - Prefetch = 0 /\ (c + 63) % 8 = 0 /\ 0 \div 8 = 0 /\ (c + 64) - 1 = c + 63
    BY <1>1
  <2> QED BY <1>1, <1>3, <2>1 DEF Phase, Ahead
<1>8. FetchFollows' /\ TileFollows' /\ ShifterFollows'
  BY <1>7 DEF FetchFollows, TileFollows, ShifterFollows
<1>9. aim.across => PlaneX(v) = (aim.x + 8 * Ahead(beam.dot)) % 512
  BY <1>4 DEF ScrollIInv, AddressFollows
<1>10. Ahead(beam.dot) = 0
  <2>1. ~(c + 1 <= Copying) /\ c + 1 < Prefetch
    BY <1>1
  <2> QED BY <1>1, <2>1 DEF Ahead
<1>11. CASE showing /\ beam.line = Lines
  <2>1. PICK u : u = CopyY(v, t) /\ u \in Vs /\ SameAcross(v, u) /\ SameDown(t, u)
    BY Copies
  <2>2. loopy' = [loopy EXCEPT !.v = u]
    BY <1>4, <1>11, <2>1 DEF AcrossGap
  <2>3. aim' = [aim EXCEPT !.y = y, !.down = (CoarseY(t) < 30)]
    <3>1. aim' = [aim EXCEPT !.y = 240 * (asked.table \div 2) + 8 * asked.row + asked.scan,
                             !.down = (asked.row < 30)]
      BY <1>11 DEF AcrossGap
    <3>2. /\ FineDown(t) = asked.table \div 2 /\ CoarseY(t) = asked.row /\ FineY(t) = asked.scan
      BY <1>4 DEF ScrollIInv, AskedFollows, Asks
    <3> QED BY <1>5, <3>1, <3>2 DEF PlaneY
  <2>4. PlaneX(u) = PlaneX(v) /\ PlaneY(u) = y /\ CoarseY(u) = CoarseY(t)
    BY <1>5, <2>1 DEF SameAcross, SameDown, PlaneX, PlaneY
  <2>5. /\ aim' = [x |-> aim.x, y |-> y, across |-> aim.across, down |-> (CoarseY(t) < 30)]
        /\ loopy' = [v |-> u, t |-> t, x |-> loopy.x, w |-> loopy.w]
    BY <1>4, <2>2, <2>3 DEF ScrollIInv, ScrollTypes
  <2>6. ScrollTypes'
    <3>1. loopy' \in [v : Vs, t : Vs, x : 0 .. 7, w : BOOLEAN]
      BY <1>4, <2>1, <2>5 DEF ScrollIInv, ScrollTypes
    <3>2. aim' \in [x : Nat, y : Nat, across : BOOLEAN, down : BOOLEAN]
      BY <1>5, <2>5 DEF ScrollIInv, ScrollTypes
    <3>3. /\ beam'.dot >= 1 /\ beam'.dot <= LastDot
          /\ beam'.dot <= Copying + 1 \/ beam'.dot >= Prefetch
      BY <1>1, <1>3
    <3>4. aim'.x = aim.x
      BY <2>5
    <3> QED BY <1>3, <1>6, <3>1, <3>2, <3>3, <3>4 DEF ScrollIInv, ScrollTypes
  <2>7. Row(beam') = 0
    BY <1>1, <1>3, <1>11 DEF Row
  <2>8. aim'.x = aim.x /\ aim'.across = aim.across /\ aim'.y = y /\ aim'.down = (CoarseY(t) < 30)
        /\ loopy'.v = u
    BY <2>5
  <2>9. aim'.across => PlaneX(loopy'.v) = (aim'.x + 8 * Ahead(beam'.dot)) % 512
    BY <1>7, <1>9, <1>10, <2>4, <2>8
  <2>10. y < 480 => y = (y + 0) % 480
    OBVIOUS
  <2>11. aim'.down => CoarseY(loopy'.v) < 30 /\ PlaneY(loopy'.v) = (aim'.y + Row(beam')) % 480
    <3>1. PlaneY(loopy'.v) = y /\ (aim'.y + Row(beam')) % 480 = (y + 0) % 480
      BY <2>4, <2>7, <2>8
    <3>2. aim'.down => CoarseY(t) < 30 /\ CoarseY(loopy'.v) < 30
      BY <2>4, <2>8
    <3> QED BY <1>5, <2>10, <3>1, <3>2
  <2>12. AddressFollows'
    BY <1>6, <1>11, <2>9, <2>11 DEF AddressFollows
  <2>13. AskedFollows'
    BY <1>4, <1>6, <2>5 DEF ScrollIInv, AskedFollows
  <2> QED BY <1>8, <2>6, <2>12, <2>13 DEF ScrollIInv
<1>12. CASE ~(showing /\ beam.line = Lines)
  <2>1. loopy' = loopy /\ aim' = aim
    BY <1>12 DEF AcrossGap
  <2>2. ScrollTypes'
    <3>1. /\ beam'.dot >= 1 /\ beam'.dot <= LastDot
          /\ beam'.dot <= Copying + 1 \/ beam'.dot >= Prefetch
      BY <1>1, <1>3
    <3> QED BY <1>3, <1>6, <2>1, <3>1 DEF ScrollIInv, ScrollTypes
  <2>3. showing => Row(beam') = Row(beam)
    BY <1>1, <1>3, <1>12 DEF Row
  <2>4. AddressFollows'
    BY <1>6, <1>7, <1>10, <2>1, <2>3 DEF ScrollIInv, AddressFollows
  <2>5. AskedFollows'
    BY <1>6, <2>1 DEF ScrollIInv, AskedFollows
  <2> QED BY <1>8, <2>2, <2>4, <2>5 DEF ScrollIInv
<1> QED BY <1>11, <1>12

(* What the game does moves neither the beam nor the pipeline. *)
LEMMA GameWrites ==
  ASSUME ScrollIInv, WriteScroll \/ WriteAddress \/ AccessData \/ ReadStatusToggle \/ WriteNametable
                     \/ WriteShowing
  PROVE  ScrollIInv'
<1>1. beam' = beam /\ latched' = latched /\ shifter' = shifter
  <2>1. WriteScroll \/ WriteAddress => beam' = beam /\ latched' = latched /\ shifter' = shifter
    BY DEF WriteScroll, WriteAddress
  <2>2. AccessData \/ ReadStatusToggle => beam' = beam /\ latched' = latched /\ shifter' = shifter
    BY DEF AccessData, ReadStatusToggle
  <2>3. WriteNametable \/ WriteShowing => beam' = beam /\ latched' = latched /\ shifter' = shifter
    BY DEF WriteNametable, WriteShowing
  <2> QED BY <2>1, <2>2, <2>3
<1>2. loopy \in [v : Vs, t : Vs, x : 0 .. 7, w : BOOLEAN] /\ loopy.v \in Vs /\ loopy.t \in Vs
      /\ showing \in BOOLEAN
  BY DEF ScrollIInv, ScrollTypes
<1>3. \A b \in ScrollBytes \cup AddressBytes : b \in Nat /\ b < 256
  BY ScrollAssumption
<1>4. PICK t \in Vs, v \in Vs, x \in 0 .. 7, w \in BOOLEAN :
        /\ t = loopy.t /\ v = loopy.v /\ x = loopy.x /\ w = loopy.w
        /\ loopy = [v |-> v, t |-> t, x |-> x, w |-> w]
  BY <1>2
<1>5. PICK column \in Nat, row \in Nat, fy \in Nat, table \in Nat :
        /\ asked = [column |-> column, fine |-> x, row |-> row, scan |-> fy, table |-> table,
                    second |-> w]
        /\ column = CoarseX(t) /\ row = CoarseY(t) /\ fy = FineY(t)
        /\ table % 2 = Across(t) /\ table \div 2 = FineDown(t)
  <2>1. /\ asked \in [column : Nat, fine : Nat, row : Nat, scan : Nat, table : Nat, second : BOOLEAN]
        /\ Asks(asked, t) /\ x = asked.fine /\ w = asked.second
    BY <1>4 DEF ScrollIInv, ScrollTypes, AskedFollows
  <2> QED BY <2>1 DEF Asks
<1>6. /\ loopy' \in [v : Vs, t : Vs, x : 0 .. 7, w : BOOLEAN] /\ showing' \in BOOLEAN
      /\ asked' \in [column : Nat, fine : Nat, row : Nat, scan : Nat, table : Nat, second : BOOLEAN]
      /\ AskedFollows'
      /\ \/ aim' = aim /\ loopy'.v = loopy.v /\ showing' = showing
         \/ aim' = Astray
  <2>1. CASE WriteScroll
    <3>1. PICK b \in ScrollBytes :
            /\ loopy' = IF ~loopy.w
                        THEN [loopy EXCEPT !.t = Put(@, 1, 32, b \div 8), !.x = b % 8, !.w = TRUE]
                        ELSE [loopy EXCEPT !.t = Put(Put(@, 32, 32, b \div 8), 4096, 8, b % 8),
                                           !.w = FALSE]
            /\ asked' = Scrolled(b)
      BY <2>1 DEF WriteScroll
    <3>2. b \in Nat /\ b < 256
      BY <1>3
    <3>3. aim' = aim /\ showing' = showing
      BY <2>1 DEF WriteScroll
    <3>4. PICK high \in Nat, low \in 0 .. 7 : high = b \div 8 /\ low = b % 8
      BY <3>2
    <3>5. PICK one, two :
            /\ one = Put(t, 1, 32, high) /\ two = Put(Put(t, 32, 32, high), 4096, 8, low)
            /\ HasFields(one, high, CoarseY(t), Across(t), FineDown(t), FineY(t))
            /\ HasFields(two, CoarseX(t), high, Across(t), FineDown(t), low)
      BY <3>2, <3>4, ScrollWrites
    <3>6. CASE ~w
      <4>1. loopy' = [v |-> v, t |-> one, x |-> low, w |-> TRUE]
        <5>1. loopy' = [loopy EXCEPT !.t = Put(@, 1, 32, high), !.x = low, !.w = TRUE]
          BY <1>4, <3>1, <3>4, <3>6
        <5>2. loopy' = [loopy EXCEPT !.t = one, !.x = low, !.w = TRUE]
          BY <1>4, <3>5, <5>1
        <5> QED BY <1>4, <5>2
      <4>2. asked' = [column |-> high, fine |-> low, row |-> row, scan |-> fy, table |-> table,
                      second |-> TRUE]
        BY <1>5, <3>1, <3>4, <3>6 DEF Scrolled
      <4>3. AskedFollows'
        BY <1>5, <3>5, <4>1, <4>2 DEF AskedFollows, Asks, HasFields
      <4>4. one \in Vs
        BY <3>5 DEF HasFields
      <4> QED BY <1>2, <1>4, <3>3, <4>1, <4>2, <4>3, <4>4
    <3>7. CASE w
      <4>1. loopy' = [v |-> v, t |-> two, x |-> x, w |-> FALSE]
        <5>1. loopy' = [loopy EXCEPT !.t = Put(Put(@, 32, 32, high), 4096, 8, low), !.w = FALSE]
          BY <1>4, <3>1, <3>4, <3>7
        <5>2. loopy' = [loopy EXCEPT !.t = two, !.w = FALSE]
          BY <1>4, <3>5, <5>1
        <5> QED BY <1>4, <5>2
      <4>2. asked' = [column |-> column, fine |-> x, row |-> high, scan |-> low, table |-> table,
                      second |-> FALSE]
        BY <1>5, <3>1, <3>4, <3>7 DEF Scrolled
      <4>3. AskedFollows'
        BY <1>5, <3>5, <4>1, <4>2 DEF AskedFollows, Asks, HasFields
      <4>4. two \in Vs
        BY <3>5 DEF HasFields
      <4> QED BY <1>2, <1>4, <3>3, <3>4, <4>1, <4>2, <4>3, <4>4
    <3> QED BY <3>6, <3>7
  <2>2. CASE WriteAddress
    <3>1. PICK b \in AddressBytes :
            /\ asked' = Addressed(b)
            /\ IF ~loopy.w
               THEN /\ loopy' = [loopy EXCEPT !.t = Put(loopy.t, 256, 128, b % 64), !.w = TRUE]
                    /\ aim' = aim
               ELSE /\ loopy' = [loopy EXCEPT !.t = Put(loopy.t, 1, 256, b),
                                              !.v = Put(loopy.t, 1, 256, b), !.w = FALSE]
                    /\ aim' = Astray
      BY <2>2, Zenon DEF WriteAddress
    <3>2. b \in Nat /\ b < 256 /\ showing' = showing
      BY <1>3, <2>2 DEF WriteAddress
    <3>3. PICK column1 \in Nat, row1 \in Nat, row2 \in Nat, fy1 \in Nat, table1 \in Nat :
            /\ column1 = b % 32 /\ row1 = 8 * (b % 4) + (row % 8)
            /\ row2 = 8 * (row \div 8) + (b \div 32)
            /\ fy1 = (b \div 16) % 4 /\ table1 = (b \div 4) % 4
      <4>1. b % 32 \in Nat /\ b % 4 \in Nat /\ row % 8 \in Nat /\ row \div 8 \in Nat
            /\ b \div 32 \in Nat /\ (b \div 16) % 4 \in Nat /\ (b \div 4) % 4 \in Nat
        BY <3>2
      <4>2. 8 * (b % 4) + (row % 8) \in Nat /\ 8 * (row \div 8) + (b \div 32) \in Nat
        BY <4>1
      <4> QED BY <4>1, <4>2, Zenon
    <3>4. PICK high, low :
            /\ high = Put(t, 256, 128, b % 64) /\ low = Put(t, 1, 256, b)
            /\ HasFields(high, CoarseX(t), row1, table1 % 2, table1 \div 2, fy1)
            /\ HasFields(low, column1, row2, Across(t), FineDown(t), FineY(t))
      BY <1>5, <3>2, <3>3, AddressWrites
    <3>5. high \in Vs /\ low \in Vs
      BY <3>4 DEF HasFields
    <3>6. CASE ~w
      <4>1. loopy' = [v |-> v, t |-> high, x |-> x, w |-> TRUE] /\ aim' = aim
        <5>1. /\ loopy' = [loopy EXCEPT !.t = Put(loopy.t, 256, 128, b % 64), !.w = TRUE]
              /\ aim' = aim
          BY <1>4, <3>1, <3>6, Zenon
        <5>2. loopy' = [loopy EXCEPT !.t = high, !.w = TRUE]
          BY <1>4, <3>4, <5>1, Zenon
        <5> QED BY <1>4, <5>1, <5>2
      <4>2. asked' = [asked EXCEPT !.scan = fy1, !.table = table1, !.row = row1, !.second = TRUE]
        BY <1>5, <3>1, <3>3, <3>6 DEF Addressed
      <4>3. asked' = [column |-> column, fine |-> x, row |-> row1, scan |-> fy1,
                      table |-> table1, second |-> TRUE]
        BY <1>5, <4>2
      <4>4. AskedFollows'
        BY <1>5, <3>4, <4>1, <4>3 DEF AskedFollows, Asks, HasFields
      <4> QED BY <1>2, <1>4, <3>2, <3>5, <4>1, <4>3, <4>4
    <3>7. CASE w
      <4>1. loopy' = [v |-> low, t |-> low, x |-> x, w |-> FALSE] /\ aim' = Astray
        <5>1. /\ loopy' = [loopy EXCEPT !.t = Put(loopy.t, 1, 256, b),
                                         !.v = Put(loopy.t, 1, 256, b), !.w = FALSE]
              /\ aim' = Astray
          BY <1>4, <3>1, <3>7, Zenon
        <5>2. loopy' = [loopy EXCEPT !.t = low, !.v = low, !.w = FALSE]
          BY <1>4, <3>4, <5>1, Zenon
        <5> QED BY <1>4, <5>1, <5>2
      <4>2. asked' = [asked EXCEPT !.column = column1, !.row = row2, !.second = FALSE]
        BY <1>5, <3>1, <3>3, <3>7 DEF Addressed
      <4>3. asked' = [column |-> column1, fine |-> x, row |-> row2, scan |-> fy,
                      table |-> table, second |-> FALSE]
        BY <1>5, <4>2
      <4>4. AskedFollows'
        BY <1>5, <3>4, <4>1, <4>3 DEF AskedFollows, Asks, HasFields
      <4> QED BY <1>2, <1>4, <3>2, <3>5, <4>1, <4>3, <4>4
    <3> QED BY <3>6, <3>7
  <2>3. CASE AccessData
    <3>1. PICK n \in {1, 32} : loopy' = [loopy EXCEPT !.v = (@ + n) % 32768]
      BY <2>3 DEF AccessData
    <3>2. (loopy.v + n) % 32768 \in Vs
      BY <1>2 DEF Vs
    <3>3. asked' = asked /\ aim' = Astray /\ showing' = showing
      BY <2>3 DEF AccessData
    <3>4. PICK u \in Vs : loopy' = [v |-> u, t |-> t, x |-> x, w |-> w]
      BY <1>4, <3>1, <3>2
    <3>5. AskedFollows'
      BY <1>5, <3>3, <3>4 DEF AskedFollows, Asks
    <3> QED BY <1>2, <1>5, <3>3, <3>4, <3>5
  <2>4. CASE ReadStatusToggle
    <3>1. /\ loopy' = [loopy EXCEPT !.w = FALSE] /\ asked' = [asked EXCEPT !.second = FALSE]
          /\ aim' = aim /\ showing' = showing
      BY <2>4 DEF ReadStatusToggle
    <3>2. loopy' = [v |-> v, t |-> t, x |-> x, w |-> FALSE]
      BY <1>4, <3>1
    <3>3. asked' = [column |-> column, fine |-> x, row |-> row, scan |-> fy, table |-> table,
                    second |-> FALSE]
      BY <1>5, <3>1
    <3>4. AskedFollows'
      BY <1>5, <3>2, <3>3 DEF AskedFollows, Asks
    <3>5. /\ loopy' \in [v : Vs, t : Vs, x : 0 .. 7, w : BOOLEAN] /\ loopy'.v = loopy.v
      BY <1>4, <3>2
    <3>6. asked' \in [column : Nat, fine : Nat, row : Nat, scan : Nat, table : Nat, second : BOOLEAN]
      BY <1>4, <1>5, <3>3
    <3> QED BY <1>2, <3>1, <3>4, <3>5, <3>6
  <2>5. CASE WriteNametable
    <3>1. PICK n \in 0 .. 3 : /\ loopy' = [loopy EXCEPT !.t = Put(@, 1024, 4, n)]
                             /\ asked' = [asked EXCEPT !.table = n]
      BY <2>5 DEF WriteNametable
    <3>2. aim' = aim /\ showing' = showing /\ n \in Nat /\ n < 4
      BY <2>5 DEF WriteNametable
    <3>3. PICK u : /\ u = Put(t, 1024, 4, n)
                   /\ HasFields(u, CoarseX(t), CoarseY(t), n % 2, n \div 2, FineY(t))
      BY <3>2, NametableWrites
    <3>4. loopy' = [v |-> v, t |-> u, x |-> x, w |-> w] /\ u \in Vs
      BY <1>4, <3>1, <3>3 DEF HasFields
    <3>5. asked' = [column |-> column, fine |-> x, row |-> row, scan |-> fy, table |-> n,
                    second |-> w]
      BY <1>5, <3>1
    <3>6. AskedFollows'
      BY <1>5, <3>3, <3>4, <3>5 DEF AskedFollows, Asks, HasFields
    <3> QED BY <1>2, <1>4, <3>2, <3>4, <3>5, <3>6
  <2>6. CASE WriteShowing
    <3>1. showing' = ~showing /\ aim' = Astray /\ loopy' = loopy /\ asked' = asked
      BY <2>6 DEF WriteShowing
    <3>2. AskedFollows'
      BY <3>1 DEF ScrollIInv, AskedFollows
    <3> QED BY <1>2, <1>5, <3>1, <3>2
  <2> QED BY <2>1, <2>2, <2>3, <2>4, <2>5, <2>6
<1>7. CASE aim' = aim /\ loopy'.v = loopy.v /\ showing' = showing
  BY <1>1, <1>6, <1>7
     DEF ScrollIInv, ScrollTypes, AddressFollows, FetchFollows, TileFollows, ShifterFollows, Aimed
<1>8. CASE aim' = Astray
  <2>1. aim' = [x |-> aim.x, y |-> aim.y, across |-> FALSE, down |-> FALSE]
    BY <1>8 DEF Astray, ScrollIInv, ScrollTypes
  <2>2. aim' \in [x : Nat, y : Nat, across : BOOLEAN, down : BOOLEAN] /\ aim'.x = aim.x
        /\ ~aim'.across /\ ~aim'.down
    BY <2>1 DEF ScrollIInv, ScrollTypes
  <2>3. ScrollTypes'
    BY <1>1, <1>6, <2>2 DEF ScrollIInv, ScrollTypes
  <2> QED BY <1>6, <2>2, <2>3
          DEF ScrollIInv, AddressFollows, FetchFollows, TileFollows, ShifterFollows, Aimed
<1> QED BY <1>6, <1>7, <1>8

(* The invariant holds in the initial states. *)
LEMMA ScrollBegins ==
  ScrollInit => ScrollIInv
<1> SUFFICES ASSUME ScrollInit PROVE ScrollIInv
  OBVIOUS
<1>1. /\ latched = [tile |-> Blank, attribute |-> AttributeAt(0), low |-> Blank, high |-> Blank]
      /\ shifter = [i \in 1 .. 16 |-> Blank] /\ showing = TRUE
      /\ aim = [x |-> 0, y |-> 0, across |-> FALSE, down |-> FALSE]
      /\ beam = [line |-> Lines, dot |-> Copying]
  BY DEF ScrollInit
<1>2. /\ loopy \in [v : Vs, t : Vs, x : 0 .. 7, w : BOOLEAN]
      /\ asked \in [column : Nat, fine : Nat, row : Nat, scan : Nat, table : Nat, second : BOOLEAN]
      /\ AskedFollows
  <2>1. PICK b \in ScrollBytes, n \in 0 .. 3, second \in BOOLEAN :
          /\ loopy = [v |-> 0, t |-> (b \div 8) * 33 + n * 1024 + (b % 8) * 4096,
                      x |-> b % 8, w |-> second]
          /\ asked = [column |-> b \div 8, fine |-> b % 8, row |-> b \div 8, scan |-> b % 8,
                      table |-> n, second |-> second]
    BY DEF ScrollInit
  <2>2. b \in Nat /\ b < 256
    BY ScrollAssumption
  <2>3. PICK high \in Nat, low \in Nat : high = b \div 8 /\ low = b % 8 /\ high < 32 /\ low < 8
    BY <2>2
  <2>4. PICK a \in Nat, d \in Nat : a = n % 2 /\ d = n \div 2 /\ a < 2 /\ d < 2 /\ n = a + 2 * d
    OBVIOUS
  <2>5. PICK t : t = high * 33 + n * 1024 + low * 4096
    OBVIOUS
  <2>6. t = Address(high, high, a, d, low)
    BY <2>3, <2>4, <2>5 DEF Address
  <2>7. /\ t \in Vs /\ CoarseX(t) = high /\ CoarseY(t) = high /\ Across(t) = a /\ FineDown(t) = d
        /\ FineY(t) = low
    BY <2>3, <2>4, <2>6, FieldsOf
  <2>8. 0 \in Vs /\ low \in 0 .. 7 /\ n \in Nat
    BY <2>3 DEF Vs
  <2>9. /\ loopy = [v |-> 0, t |-> t, x |-> low, w |-> second]
        /\ asked = [column |-> high, fine |-> low, row |-> high, scan |-> low, table |-> n,
                    second |-> second]
    BY <2>1, <2>3, <2>5
  <2>10. AskedFollows
    BY <2>4, <2>7, <2>9 DEF AskedFollows, Asks
  <2> QED BY <2>3, <2>7, <2>8, <2>9, <2>10
<1>3. AttributeAt(0) \in Nat \X Nat
  <2>1. 0 \in Vs
    BY DEF Vs
  <2> QED BY <2>1, RowOfTile
<1>4. PICK n \in Nat : n = 16
  OBVIOUS
<1>5. shifter \in [1 .. n -> Pixels]
  <2>1. Blank \in Pixels
    BY DEF Pixels
  <2> QED BY <1>1, <1>4, <2>1
<1>6. shifter \in Seq(Pixels) /\ Len(shifter) = n
  BY <1>5
<1>7. ScrollTypes
  <2>1. latched \in [tile : Tilings, attribute : Nat \X Nat, low : Tilings, high : Tilings]
    BY <1>1, <1>3 DEF Tilings
  <2>2. beam \in [line : 0 .. Lines, dot : Nat] /\ beam.dot = Copying
    BY <1>1, ScrollDots
  <2>3. beam.dot >= 1 /\ beam.dot <= LastDot /\ beam.dot <= Copying + 1
    BY <2>2, ScrollDots
  <2>4. aim \in [x : Nat, y : Nat, across : BOOLEAN, down : BOOLEAN] /\ aim.x = 0
    BY <1>1
  <2> QED BY <1>1, <1>2, <1>4, <1>6, <2>1, <2>2, <2>3, <2>4 DEF ScrollTypes
<1>8. ~aim.across /\ ~aim.down
  BY <1>1
<1> QED BY <1>2, <1>7, <1>8
       DEF ScrollIInv, AddressFollows, FetchFollows, TileFollows, ShifterFollows, Aimed

(* Every step keeps the invariant. *)
LEMMA ScrollKept ==
  ScrollIInv /\ [ScrollNext]_scrollVars => ScrollIInv'
<1> SUFFICES ASSUME ScrollIInv, [ScrollNext]_scrollVars PROVE ScrollIInv'
  OBVIOUS
<1>1. CASE Dot
  <2>1. CASE showing
    <3>1. /\ Rendered /\ ScrollTypes /\ AskedFollows /\ AddressFollows
          /\ FetchFollows /\ TileFollows /\ ShifterFollows
      BY <1>1, <2>1, DotRenders DEF ScrollIInv
    <3>2. ScrollTypes' /\ AskedFollows'
      BY <3>1, RenderedTypes
    <3>3. AddressFollows' /\ FetchFollows'
      BY <3>1, AddressKept, FetchKept
    <3>4. TileFollows' /\ ShifterFollows'
      BY <3>1, TileKept, ShifterKept
    <3> QED BY <3>2, <3>3, <3>4 DEF ScrollIInv
  <2>2. CASE ~showing
    BY <1>1, <2>2, IdleDot
  <2> QED BY <2>1, <2>2
<1>2. CASE AcrossGap
  BY <1>2, GapKeeps
<1>3. CASE \/ WriteScroll \/ WriteAddress \/ AccessData \/ ReadStatusToggle \/ WriteNametable
           \/ WriteShowing
  BY <1>3, GameWrites
<1>4. CASE UNCHANGED scrollVars
  BY <1>4 DEF scrollVars, ScrollIInv, ScrollTypes, AskedFollows, AddressFollows, FetchFollows, TileFollows,
              ShifterFollows, Aimed
<1> QED BY <1>1, <1>2, <1>3, <1>4 DEF ScrollNext

(* The pixel that fine x selects is the one the invariant places. *)
LEMMA ScrollPictured ==
  ScrollIInv => PictureFollowsScroll
<1> SUFFICES ASSUME ScrollIInv, Drawing, showing, aim.across, aim.down
             PROVE  /\ shifter[1 + loopy.x] \notin {Blank, Torn}
                    /\ PlaneOf(shifter[1 + loopy.x])
                         = <<(aim.x + loopy.x + Column) % 512, (aim.y + beam.line) % 480>>
  BY DEF PictureFollowsScroll, ScrollIInv, AskedFollows
<1>1. PICK d \in Nat, x \in Nat, a \in Nat, c \in Nat :
        d = beam.dot /\ x = loopy.x /\ x <= 7 /\ a = aim.x /\ c = Copying /\ d >= 2 /\ d <= c
  <2>1. beam.dot \in Nat /\ loopy.x \in 0 .. 7 /\ aim.x \in Nat
    BY DEF ScrollIInv, ScrollTypes
  <2>2. beam.dot >= 2 /\ beam.dot <= Copying
    BY ScrollDots DEF Drawing
  <2> QED BY <2>1, <2>2, ScrollDots
<1>2. PICK i \in Nat : i = 1 + x /\ i \in Cells /\ i <= 8
  BY <1>1 DEF Cells
<1>3. First(d) = 1 /\ Offset(d) = d - 3 /\ Last(d) = 16 - ((d - 2) % 8)
  BY <1>1 DEF First, Last, Offset
<1>4. i <= Last(d)
  <2>1. (d - 2) % 8 \in 0 .. 7
    BY <1>1
  <2> QED BY <1>2, <1>3, <2>1
<1>5. Lies(shifter[i], a + i + (d - 3), aim.y + beam.line)
  <2>1. ShownRow(beam) = beam.line
    BY <1>1 DEF ShownRow
  <2>2. First(d) <= i
    BY <1>2, <1>3
  <2> QED BY <1>1, <1>2, <1>3, <1>4, <2>1, <2>2 DEF ScrollIInv, ShifterFollows, Aimed
<1>6. PICK pixel : pixel = shifter[1 + loopy.x] /\ pixel = shifter[i]
  BY <1>1, <1>2
<1>7. a + i + (d - 3) = aim.x + loopy.x + Column
  BY <1>1, <1>2 DEF Column
<1>8. pixel \in Vs \X (0 .. 7) /\ PlaneX(pixel[1]) + pixel[2] = (aim.x + loopy.x + Column) % 512
      /\ PlaneY(pixel[1]) = (aim.y + beam.line) % 480
  BY <1>5, <1>6, <1>7 DEF Lies
<1>9. pixel \in Nat \X Nat
  BY <1>8 DEF Vs
<1>10. pixel \notin {Blank, Torn}
  BY <1>9, ScrollAssumption
<1> QED BY <1>6, <1>8, <1>10 DEF PlaneOf, PlaneX, PlaneY

(* The picture is the window of the plane that the game's writes ask for, for *)
(* every size of the picture, every byte a game writes and any number of     *)
(* accesses at any dots (run_fetch_pipeline, output_pixel).                  *)
THEOREM PictureHolds ==
  ScrollSpec => []PictureFollowsScroll
BY ScrollBegins, ScrollKept, ScrollPictured, PTL DEF ScrollSpec

(***************************************************************************)
(* Sprites.                                                                *)
(***************************************************************************)
(* The naturals are well-founded: a set of them has a least element.         *)
LEMMA Least ==
  ASSUME NEW T \in SUBSET Nat, NEW n \in T
  PROVE  \E m \in T : \A k \in T : m <= k
<1> DEFINE R == {q \in Nat \X Nat : q[1] < q[2]}
<1>1. IsWellFoundedOn(R, Nat)
  BY NatLessThanWellFounded DEF OpToRel
<1>2. PICK m \in T : \A k \in T : <<k, m>> \notin R
  <2> HIDE DEF R
  <2> QED BY <1>1, WFMin
<1>3. \A k \in T : m <= k
  <2> SUFFICES ASSUME NEW k \in T PROVE m <= k
    OBVIOUS
  <2>1. m \in Nat /\ k \in Nat /\ <<k, m>> \notin R
    BY <1>2
  <2>2. ~(k < m)
    BY <2>1
  <2> QED BY <2>1, <2>2
<1> QED BY <1>3

(***************************************************************************)
(* Evaluation.                                                             *)
(***************************************************************************)
Rank(list, line, height, i) == Cardinality(Before(list, line, height, i))

(* The ranks of a line's sprites count them up. *)
LEMMA Ranks ==
  ASSUME NEW list, NEW line, NEW height, NEW i \in Nat \ {0}
  PROVE  /\ Before(list, line, height, i) \in SUBSET (1 .. i - 1)
         /\ IsFiniteSet(Before(list, line, height, i)) /\ Rank(list, line, height, i) \in Nat
         /\ \A j \in 1 .. i - 1 : Covers(list[j], line, height)
              => Rank(list, line, height, j) < Rank(list, line, height, i)
<1>1. \A j \in Nat \ {0} :
        /\ Before(list, line, height, j) \in SUBSET (1 .. j - 1)
        /\ IsFiniteSet(Before(list, line, height, j)) /\ Rank(list, line, height, j) \in Nat
  <2> SUFFICES ASSUME NEW j \in Nat \ {0}
               PROVE  /\ Before(list, line, height, j) \in SUBSET (1 .. j - 1)
                      /\ IsFiniteSet(Before(list, line, height, j))
                      /\ Rank(list, line, height, j) \in Nat
    OBVIOUS
  <2>1. Before(list, line, height, j) \in SUBSET (1 .. j - 1)
    BY DEF Before
  <2>2. IsFiniteSet(1 .. j - 1)
    BY FS_Interval
  <2>3. IsFiniteSet(Before(list, line, height, j))
    BY <2>1, <2>2, FS_Subset
  <2> QED BY <2>1, <2>3, FS_CardinalityType DEF Rank
<1>2. ASSUME NEW j \in 1 .. i - 1, Covers(list[j], line, height)
      PROVE  Rank(list, line, height, j) < Rank(list, line, height, i)
  <2> DEFINE B == Before(list, line, height, j)
  <2>1. j \in Nat \ {0} /\ j \notin B /\ IsFiniteSet(B)
    BY <1>1
  <2>2. B \cup {j} \in SUBSET Before(list, line, height, i)
    BY <1>2 DEF Before
  <2>3. Cardinality(B \cup {j}) = Rank(list, line, height, j) + 1
    BY <2>1, FS_AddElement DEF Rank
  <2>4. Cardinality(B \cup {j}) <= Rank(list, line, height, i)
    <3> HIDE DEF B
    <3> QED BY <1>1, <2>2, FS_Subset DEF Rank
  <2> QED BY <1>1, <2>1, <2>3, <2>4
<1> QED BY <1>1, <1>2

(* A line keeps MaxPerLine sprites at most, and they are numbered by their ranks. *)
LEMMA KeptInOrder ==
  ASSUME NEW list, NEW line, NEW height, Len(list) \in Nat
  PROVE  LET K == Kept(list, line, height)
             n == Cardinality(K)
         IN  /\ n \in Nat /\ n <= MaxPerLine
             /\ \A i \in K : Rank(list, line, height, i) + 1 \in 1 .. n
             /\ \A k \in 1 .. n : /\ Nth(list, line, height, k) \in K
                                  /\ Rank(list, line, height, Nth(list, line, height, k)) = k - 1
             /\ \A i, j \in K : i < j <=> Rank(list, line, height, i) < Rank(list, line, height, j)
<1> DEFINE K == Kept(list, line, height)
           n == Cardinality(K)
           rank(i) == Rank(list, line, height, i)
<1>1. K \in SUBSET (1 .. Len(list)) /\ IsFiniteSet(K) /\ n \in Nat
  <2>1. K \in SUBSET (1 .. Len(list))
    BY DEF Kept
  <2>2. IsFiniteSet(1 .. Len(list))
    BY FS_Interval
  <2> QED BY <2>1, <2>2, FS_Subset, FS_CardinalityType
<1>2. \A i \in K : /\ i \in Nat \ {0} /\ rank(i) \in Nat /\ rank(i) < MaxPerLine
                   /\ Covers(list[i], line, height)
  <2>1. \A i \in K : i \in Nat \ {0}
    BY <1>1
  <2>2. \A i \in K : rank(i) \in Nat
    BY <2>1, Ranks
  <2> QED BY <2>1, <2>2 DEF Kept, HasRoom, Rank
<1>3. \A i, j \in K : i < j => rank(i) < rank(j)
  <2> SUFFICES ASSUME NEW i \in K, NEW j \in K, i < j PROVE rank(i) < rank(j)
    OBVIOUS
  <2>1. i \in 1 .. j - 1
    BY <1>2
  <2> QED BY <1>2, <2>1, Ranks
<1>4. \A i, j \in K : i < j <=> rank(i) < rank(j)
  <2> SUFFICES ASSUME NEW i \in K, NEW j \in K, rank(i) < rank(j) PROVE i < j
    BY <1>3
  <2>1. i \in Nat /\ j \in Nat /\ rank(i) \in Nat /\ rank(j) \in Nat
    BY <1>2
  <2>2. ~(j < i) /\ i # j
    <3>1. j < i => rank(j) < rank(i)
      BY <1>3
    <3> HIDE DEF rank
    <3> QED BY <2>1, <3>1
  <2> QED BY <2>1, <2>2
<1>5. ASSUME NEW i \in K PROVE rank(i) < n
  <2>1. Before(list, line, height, i) \in SUBSET (K \ {i})
    <3> SUFFICES ASSUME NEW j \in Before(list, line, height, i) PROVE j \in K /\ j # i
      OBVIOUS
    <3>1. j \in 1 .. i - 1 /\ Covers(list[j], line, height) /\ i \in Nat \ {0}
      BY <1>2 DEF Before
    <3>2. j \in Nat \ {0} /\ j < i /\ rank(j) < rank(i) /\ rank(j) \in Nat
      BY <3>1, Ranks
    <3>3. rank(j) < MaxPerLine
      <4> HIDE DEF rank
      <4> QED BY <1>2, <3>2, SpriteAssumption
    <3>4. j \in 1 .. Len(list)
      BY <1>1, <3>1
    <3> QED BY <3>1, <3>2, <3>3, <3>4 DEF Kept, HasRoom, Rank
  <2>2. IsFiniteSet(K \ {i}) /\ Cardinality(K \ {i}) = n - 1
    BY <1>1, FS_RemoveElement
  <2>3. rank(i) <= n - 1
    <3> HIDE DEF K
    <3> QED BY <2>1, <2>2, FS_Subset DEF Rank
  <2> QED BY <1>1, <1>2, <2>3
<1>6. ASSUME NEW k \in 1 .. n PROVE \E i \in K : rank(i) = k - 1
  <2> DEFINE F == [i \in K |-> rank(i)]
             R == 0 .. n - 1
  <2>1. F \in [K -> R]
    BY <1>1, <1>2, <1>5
  <2>2. \A i, j \in K : F[i] = F[j] => i = j
    <3> SUFFICES ASSUME NEW i \in K, NEW j \in K, rank(i) = rank(j) PROVE i = j
      OBVIOUS
    <3>1. i \in Nat /\ j \in Nat /\ rank(i) \in Nat
      BY <1>2
    <3>2. ~(i < j) /\ ~(j < i)
      <4>1. (i < j => rank(i) < rank(j)) /\ (j < i => rank(j) < rank(i))
        BY <1>3
      <4> HIDE DEF rank
      <4> QED BY <3>1, <4>1
    <3> QED BY <3>1, <3>2
  <2>3. IsFiniteSet(R) /\ Cardinality(R) = n
    <3> HIDE DEF n
    <3>1. n \in Nat /\ 0 \in Int /\ n - 1 \in Int
      BY <1>1
    <3>2. IsFiniteSet(R) /\ Cardinality(R) = IF 0 > n - 1 THEN 0 ELSE n - 1 - 0 + 1
      BY <3>1, FS_Interval
    <3> QED BY <3>1, <3>2
  <2>4. F \in Injection(K, R)
    <3> HIDE DEF F, R, K
    <3> QED BY <2>1, <2>2, Fun_IsInj
  <2>5. F \in Surjection(K, R)
    <3> HIDE DEF F, R, K
    <3> QED BY <2>3, <2>4, FS_Injection
  <2>6. \A r \in R : \E i \in K : F[i] = r
    <3> HIDE DEF F, R, K
    <3> QED BY <2>5, Fun_SurjectionProperties
  <2>7. k - 1 \in R
    BY <1>1
  <2> QED BY <2>6, <2>7
<1>7. ASSUME NEW k \in 1 .. n
      PROVE  Nth(list, line, height, k) \in K /\ rank(Nth(list, line, height, k)) = k - 1
  BY <1>6 DEF Nth, Rank
<1>8. n <= MaxPerLine
  <2>1. CASE n = 0
    BY <2>1, SpriteAssumption
  <2>2. CASE n # 0
    <3>1. n \in 1 .. n
      BY <1>1, <2>2
    <3>2. PICK i \in K : rank(i) = n - 1
      BY <1>6, <3>1
    <3>3. n - 1 < MaxPerLine
      BY <1>2, <3>2
    <3> HIDE DEF n
    <3> QED BY <1>1, <3>3, SpriteAssumption
  <2> QED BY <2>1, <2>2
<1>9. \A i \in K : rank(i) + 1 \in 1 .. n
  <2> HIDE DEF n, rank
  <2> QED BY <1>1, <1>2, <1>5
<1> QED BY <1>1, <1>4, <1>7, <1>8, <1>9

(***************************************************************************)
(* What holds of the sprites at each stage of the line.                    *)
(***************************************************************************)
Slots ==
  [x : Nat, front : BOOLEAN, colour : Nat, flip : BOOLEAN, zero : BOOLEAN,
   low : Nat \X Nat, high : Nat \X Nat]
SlotNumbers == {k \in Nat : k >= 1 /\ k <= MaxPerLine}

SpriteTypes ==
  /\ sprites \in SpriteLists /\ tall \in BOOLEAN /\ steady \in BOOLEAN
  /\ mask \in [bg : BOOLEAN, spr : BOOLEAN, bgLeft : BOOLEAN, sprLeft : BOOLEAN]
  /\ scan \in [line : 0 .. Rows, at : {"draw", "evaluate", "fetch", "end"}, n : Nat]
  /\ scan.at = "draw" => scan.line # Rows /\ scan.n < Columns
  /\ scan.at = "fetch" => scan.n < 2 * MaxPerLine
  /\ scan.at = "evaluate" => scan.n = 0
  /\ found \in Seq(SpriteEntries) /\ Len(found) <= MaxPerLine
  /\ fetched \in [SlotNumbers -> Slots]
  /\ flags \in [overflow : BOOLEAN, zeroHit : BOOLEAN]

(* A slot's plane has been fetched for the sprite, as the line after is to   *)
(* show it.                                                                  *)
SlotOf(slot, s) ==
  /\ slot.x = s.x /\ slot.front = s.front /\ slot.colour = s.colour
  /\ slot.flip = s.flip /\ slot.zero = s.zero

(* The game has left things alone since the evaluation. *)
Settled == steady /\ Rendering

(* The evaluation's choice stands until the line ends. *)
ChoiceStands ==
  Settled /\ scan.at \in {"fetch", "end"} =>
    found = IF scan.line = Rows THEN << >> ELSE Chosen(sprites, scan.line, Height)

(* The slots before the next fetch hold their sprites' patterns. *)
SlotsFollow ==
  Settled /\ scan.at \in {"fetch", "end"} =>
    \A k \in SlotNumbers : k <= Len(found) =>
      /\ scan.at = "end" \/ 2 * k - 2 < scan.n =>
           /\ SlotOf(fetched[k], found[k])
           /\ fetched[k].low = RightPlace(found[k], scan.line + 1, Height)
      /\ scan.at = "end" \/ 2 * k - 1 < scan.n =>
           fetched[k].high = RightPlace(found[k], scan.line + 1, Height)

(* A line draws the sprites chosen for it. *)
LineFollows ==
  Settled /\ scan.at = "draw" =>
    IF scan.line = 0 THEN lineUp = << >>
    ELSE LET list == Chosen(sprites, scan.line - 1, Height)
         IN  /\ lineUp \in Seq(Slots) /\ Len(lineUp) = Len(list)
             /\ \A k \in 1 .. Len(list) :
                  /\ SlotOf(lineUp[k], list[k])
                  /\ lineUp[k].low = RightPlace(list[k], scan.line, Height)
                  /\ lineUp[k].high = RightPlace(list[k], scan.line, Height)

SpriteIInv == SpriteTypes /\ ChoiceStands /\ SlotsFollow /\ LineFollows

-----------------------------------------------------------------------------
(* What the evaluation chooses is a list of the line's sprites.              *)
LEMMA ChosenList ==
  ASSUME NEW list \in SpriteLists, NEW line \in Int, NEW height \in Nat
  PROVE  LET K == Kept(list, line, height)
             n == Cardinality(K)
         IN  /\ Chosen(list, line, height) \in Seq(SpriteEntries)
             /\ Len(Chosen(list, line, height)) = n /\ n \in Nat /\ n <= MaxPerLine
             /\ \A k \in 1 .. n :
                  LET i == Nth(list, line, height, k)
                      s == Chosen(list, line, height)[k]
                  IN  /\ i \in K /\ i \in 1 .. Len(list) /\ Covers(list[i], line, height)
                      /\ list[i] \in SpriteEntries /\ s \in SpriteEntries
                      /\ s.y = list[i].y /\ s.x = list[i].x /\ s.tile = list[i].tile
                      /\ s.front = list[i].front /\ s.colour = list[i].colour
                      /\ s.flip = list[i].flip /\ s.upside = list[i].upside
                      /\ s.zero = (i = 1)
<1> DEFINE K == Kept(list, line, height)
           n == Cardinality(K)
           C == Chosen(list, line, height)
<1>1. list \in Seq(SpriteEntries) /\ Len(list) \in Nat
  BY SpriteAssumption
<1>2. n \in Nat /\ n <= MaxPerLine
  BY <1>1, KeptInOrder
<1>3. ASSUME NEW k \in 1 .. n
      PROVE  /\ Nth(list, line, height, k) \in K /\ Nth(list, line, height, k) \in 1 .. Len(list)
             /\ Covers(list[Nth(list, line, height, k)], line, height)
             /\ list[Nth(list, line, height, k)] \in SpriteEntries
  <2>1. Nth(list, line, height, k) \in K
    BY <1>1, KeptInOrder
  <2> QED BY <1>1, <2>1, ElementOfSeq DEF Kept
<1>4. ASSUME NEW s \in SpriteEntries, NEW zero \in BOOLEAN
      PROVE  LET e == [s EXCEPT !.zero = zero]
             IN  /\ e \in SpriteEntries /\ e.y = s.y /\ e.x = s.x /\ e.tile = s.tile
                 /\ e.front = s.front /\ e.colour = s.colour /\ e.flip = s.flip
                 /\ e.upside = s.upside /\ e.zero = zero
  BY DEF SpriteEntries
<1>5. ASSUME NEW k \in 1 .. n
      PROVE  C[k] = [list[Nth(list, line, height, k)] EXCEPT
                        !.zero = (Nth(list, line, height, k) = 1)]
  BY DEF Chosen
<1>6. ASSUME NEW k \in 1 .. n
      PROVE  LET i == Nth(list, line, height, k)
                 s == C[k]
             IN  /\ s \in SpriteEntries
                 /\ s.y = list[i].y /\ s.x = list[i].x /\ s.tile = list[i].tile
                 /\ s.front = list[i].front /\ s.colour = list[i].colour
                 /\ s.flip = list[i].flip /\ s.upside = list[i].upside
                 /\ s.zero = (i = 1)
  <2>1. PICK i : i = Nth(list, line, height, k)
    OBVIOUS
  <2>2. list[i] \in SpriteEntries /\ C[k] = [list[i] EXCEPT !.zero = (i = 1)]
    BY <1>3, <1>5, <2>1
  <2>3. PICK zero \in BOOLEAN : zero = (i = 1)
    OBVIOUS
  <2>4. PICK e : e = [list[i] EXCEPT !.zero = zero]
    OBVIOUS
  <2>5. /\ e \in SpriteEntries /\ e.y = list[i].y /\ e.x = list[i].x /\ e.tile = list[i].tile
        /\ e.front = list[i].front /\ e.colour = list[i].colour /\ e.flip = list[i].flip
        /\ e.upside = list[i].upside /\ e.zero = zero
    BY <1>4, <2>2, <2>4
  <2>6. C[k] = e
    BY <2>2, <2>3, <2>4
  <2>7. e.zero = (i = 1)
    BY <2>3, <2>5
  <2> HIDE DEF C
  <2> QED BY <2>1, <2>5, <2>6, <2>7
<1>7. C \in [1 .. n -> SpriteEntries]
  <2>1. C = [k \in 1 .. n |-> C[k]]
    BY DEF Chosen
  <2>2. \A k \in 1 .. n : C[k] \in SpriteEntries
    BY <1>6
  <2> HIDE DEF C, n
  <2> QED BY <2>1, <2>2
<1>8. C \in Seq(SpriteEntries) /\ Len(C) = n
  <2> HIDE DEF C, n
  <2> QED BY <1>2, <1>7
<1> QED BY <1>2, <1>3, <1>6, <1>8

-----------------------------------------------------------------------------
(* Division by the size of a sprite, whatever it is.                         *)
LEMMA Quotients ==
  ASSUME NEW n \in Nat \ {0}, NEW x \in Int
  PROVE  /\ x % n \in Nat /\ x % n < n
         /\ 0 <= x /\ x < n => x % n = x /\ x \div n = 0
         /\ n <= x /\ x < 2 * n => x % n = x - n /\ x \div n = 1
         /\ 0 <= x => x \div n \in Nat
<1>1. PICK q \in Int, r \in Int : q = x \div n /\ r = x % n
  OBVIOUS
<1>2. 0 <= r /\ r < n /\ x = n * q + r
  BY <1>1
<1>3. (q >= 1 => n * q >= n) /\ (q >= 2 => n * q >= 2 * n) /\ (q <= -1 => n * q <= -n)
      /\ (q <= 0 => n * q <= 0)
  OBVIOUS
<1>4. n * 0 = 0 /\ n * 1 = n /\ n * q \in Int
  OBVIOUS
<1>5. ASSUME 0 <= x, x < n PROVE q = 0 /\ r = x
  <2>1. ~(q >= 1) /\ ~(q <= -1)
    BY <1>2, <1>3, <1>4, <1>5
  <2> QED BY <1>2, <1>4, <2>1
<1>6. ASSUME n <= x, x < 2 * n PROVE q = 1 /\ r = x - n
  <2>1. ~(q >= 2) /\ ~(q <= 0)
    BY <1>2, <1>3, <1>4, <1>6
  <2> QED BY <1>2, <1>4, <2>1
<1>7. ASSUME 0 <= x PROVE q \in Nat
  BY <1>2, <1>3, <1>4, <1>7
<1> QED BY <1>1, <1>2, <1>5, <1>6, <1>7

(* A sprite has Size rows or twice as many.                                  *)
LEMMA Heights ==
  ASSUME tall \in BOOLEAN
  PROVE  /\ Height \in Nat \ {0} /\ Size \in Nat \ {0}
         /\ Height = IF tall THEN 2 * Size ELSE Size
BY SpriteAssumption DEF Height

(* A slot is fetched from the row that the next line is to show.             *)
LEMMA PlacesAreRight ==
  ASSUME tall \in BOOLEAN, scan.line \in Int, NEW s \in SpriteEntries
  PROVE  /\ PlaceOf(s) \in Nat \X Nat
         /\ Covers(s, scan.line, Height) => PlaceOf(s) = RightPlace(s, scan.line + 1, Height)
<1> DEFINE row == (scan.line - s.y) % Height
           at == IF s.upside THEN Height - 1 - row ELSE row
<1>1. Height \in Nat \ {0} /\ Size \in Nat \ {0} /\ Height = IF tall THEN 2 * Size ELSE Size
  BY Heights
<1>2. s.y \in Nat /\ s.tile \in Nat /\ s.upside \in BOOLEAN
  BY DEF SpriteEntries
<1>3. row \in Nat /\ row < Height /\ (Covers(s, scan.line, Height) => row = scan.line - s.y)
  <2>1. PICK x \in Int : x = scan.line - s.y
    BY <1>2
  <2>2. x % Height \in Nat /\ x % Height < Height /\ (0 <= x /\ x < Height => x % Height = x)
    BY <1>1, Quotients
  <2>3. Covers(s, scan.line, Height) => 0 <= x /\ x < Height
    BY <1>1, <2>1 DEF Covers
  <2> QED BY <2>1, <2>2, <2>3
<1>4. at \in Nat /\ at < Height
  <2> HIDE DEF row
  <2> QED BY <1>1, <1>2, <1>3
<1>5. RowOf(s) = at
  BY DEF RowOf
<1>6. PICK half \in Nat : half = s.tile \div 2
  BY <1>2
<1>7. /\ at < Size => at % Size = at /\ at \div Size = 0
      /\ tall /\ ~(at < Size) => at % Size = at - Size /\ at \div Size = 1
      /\ at % Size \in Nat /\ at \div Size \in Nat
  <2> HIDE DEF at
  <2>1. Size <= at /\ tall => at < 2 * Size
    BY <1>1, <1>4
  <2> QED BY <1>1, <1>4, <2>1, Quotients
<1>8. PlaceOf(s) = IF tall THEN <<2 * half + (at \div Size), at % Size>> ELSE <<s.tile, at>>
  BY <1>5, <1>6 DEF PlaceOf
<1>9. PlaceOf(s) \in Nat \X Nat
  <2> HIDE DEF at
  <2> QED BY <1>2, <1>4, <1>6, <1>7, <1>8
<1>10. ASSUME Covers(s, scan.line, Height) PROVE PlaceOf(s) = RightPlace(s, scan.line + 1, Height)
  <2>1. at = IF s.upside THEN Height - 1 - (scan.line - s.y) ELSE scan.line - s.y
    BY <1>3, <1>10
  <2>2. scan.line + 1 - 1 - s.y = scan.line - s.y
    BY <1>2
  <2>3. RightPlace(s, scan.line + 1, Height) =
          IF ~tall THEN <<s.tile, at>>
          ELSE IF at < Size THEN <<2 * half, at>> ELSE <<2 * half + 1, at - Size>>
    <3>1. Height = Size <=> ~tall
      BY <1>1
    <3> HIDE DEF at
    <3> QED BY <1>6, <2>1, <2>2, <3>1 DEF RightPlace
  <2> HIDE DEF at
  <2>4. CASE ~tall
    BY <1>8, <2>3, <2>4
  <2>5. CASE tall /\ at < Size
    <3>1. at \div Size = 0 /\ at % Size = at /\ 2 * half + 0 = 2 * half
      BY <1>6, <1>7, <2>5
    <3> QED BY <1>8, <2>3, <2>5, <3>1
  <2>6. CASE tall /\ ~(at < Size)
    BY <1>7, <1>8, <2>3, <2>6
  <2> QED BY <2>4, <2>5, <2>6
<1> QED BY <1>9, <1>10

-----------------------------------------------------------------------------
(* The invariant holds in the initial states. *)
LEMMA SpritesBegin == SpritesInit => SpriteIInv
<1> SUFFICES ASSUME SpritesInit PROVE SpriteIInv
  OBVIOUS
<1>1. fetched \in [SlotNumbers -> Slots]
  <2>1. EmptySlot \in Slots
    BY DEF EmptySlot, NoFetch, Slots
  <2>2. 1 .. MaxPerLine = SlotNumbers
    BY SpriteAssumption DEF SlotNumbers
  <2> QED BY <2>1, <2>2 DEF SpritesInit
<1>2. found \in Seq(SpriteEntries) /\ Len(found) <= MaxPerLine
  BY SpriteAssumption DEF SpritesInit
<1>3. scan \in [line : 0 .. Rows, at : {"draw", "evaluate", "fetch", "end"}, n : Nat]
      /\ scan.at = "evaluate" /\ scan.n = 0
  BY SpriteAssumption DEF SpritesInit
<1>4. mask \in [bg : BOOLEAN, spr : BOOLEAN, bgLeft : BOOLEAN, sprLeft : BOOLEAN]
  BY DEF SpritesInit
<1>5. flags \in [overflow : BOOLEAN, zeroHit : BOOLEAN] /\ ~steady /\ steady \in BOOLEAN
      /\ sprites \in SpriteLists /\ tall \in BOOLEAN
  BY DEF SpritesInit
<1> QED BY <1>1, <1>2, <1>3, <1>4, <1>5
        DEF SpriteIInv, SpriteTypes, ChoiceStands, SlotsFollow, LineFollows, Settled

(* The game's writes unsettle the line, the PPU's own steps change nothing that *)
(* the game wrote.                                                              *)
LEMMA OwnSteps ==
  ASSUME [SpritesNext]_spriteVars, Settled'
  PROVE  /\ Draw \/ Evaluate \/ FetchSlot \/ EndLine \/ UNCHANGED spriteVars
         /\ sprites' = sprites /\ tall' = tall /\ mask' = mask /\ Height' = Height
         /\ Rendering /\ (steady \/ Evaluate)
<1>1. ~WriteSize /\ ~WriteMaskBits /\ ~WriteSprites
  BY DEF Settled, WriteSize, WriteMaskBits, WriteSprites, Change
<1>2. Draw \/ Evaluate \/ FetchSlot \/ EndLine \/ UNCHANGED spriteVars
  BY <1>1 DEF SpritesNext
<1>3. sprites' = sprites /\ tall' = tall /\ mask' = mask
  BY <1>2 DEF Draw, Evaluate, FetchSlot, EndLine, spriteVars
<1>4. Height' = Height /\ Rendering' = Rendering
  BY <1>3 DEF Height, Rendering
<1>5. steady \/ Evaluate
  BY <1>2 DEF Draw, FetchSlot, EndLine, spriteVars, Settled
<1> QED BY <1>2, <1>3, <1>4, <1>5 DEF Settled

(* What a fetch leaves in a slot. *)
LEMMA Filled ==
  ASSUME SpriteTypes, NEW k \in SlotNumbers, k <= Len(found), NEW plane \in {0, 1},
         NEW slot, slot = Fill(k, plane)
  PROVE  /\ slot \in Slots /\ SlotOf(slot, found[k]) /\ found[k] \in SpriteEntries
         /\ plane = 0 => slot.low = PlaceOf(found[k]) /\ slot.high = fetched[k].high
         /\ plane = 1 => slot.high = PlaceOf(found[k]) /\ slot.low = fetched[k].low
<1>1. PICK f : f = fetched[k] /\ f \in Slots
  BY DEF SpriteTypes
<1>2. PICK s : s = found[k] /\ s \in SpriteEntries
  <2>1. k \in 1 .. Len(found)
    BY DEF SpriteTypes, SlotNumbers
  <2> QED BY <2>1, ElementOfSeq DEF SpriteTypes
<1>3. PICK p : p = PlaceOf(s) /\ p \in Nat \X Nat
  <2>1. tall \in BOOLEAN /\ scan.line \in Int
    BY DEF SpriteTypes
  <2> QED BY <1>2, <2>1, PlacesAreRight
<1>4. PICK b : b = [f EXCEPT !.x = s.x, !.front = s.front, !.colour = s.colour,
                            !.flip = s.flip, !.zero = s.zero]
  OBVIOUS
<1>5. /\ b \in Slots /\ b.x = s.x /\ b.front = s.front /\ b.colour = s.colour
      /\ b.flip = s.flip /\ b.zero = s.zero /\ b.low = f.low /\ b.high = f.high
  BY <1>1, <1>2, <1>4 DEF Slots, SpriteEntries
<1>6. slot = IF plane = 0 THEN [b EXCEPT !.low = p] ELSE [b EXCEPT !.high = p]
  BY <1>1, <1>2, <1>3, <1>4 DEF Fill
<1>7. CASE plane = 0
  <2>1. slot = [b EXCEPT !.low = p]
    BY <1>6, <1>7
  <2>2. /\ slot \in Slots /\ slot.x = b.x /\ slot.front = b.front /\ slot.colour = b.colour
        /\ slot.flip = b.flip /\ slot.zero = b.zero /\ slot.low = p /\ slot.high = b.high
    BY <1>3, <1>5, <2>1 DEF Slots
  <2> QED BY <1>1, <1>2, <1>3, <1>5, <1>7, <2>2 DEF SlotOf
<1>8. CASE plane = 1
  <2>1. slot = [b EXCEPT !.high = p]
    BY <1>6, <1>8
  <2>2. /\ slot \in Slots /\ slot.x = b.x /\ slot.front = b.front /\ slot.colour = b.colour
        /\ slot.flip = b.flip /\ slot.zero = b.zero /\ slot.high = p /\ slot.low = b.low
    BY <1>3, <1>5, <2>1 DEF Slots
  <2> QED BY <1>1, <1>2, <1>3, <1>5, <1>8, <2>2 DEF SlotOf
<1> QED BY <1>7, <1>8

(* The slot of a fetch and the plane. *)
LEMMA FetchNumber ==
  ASSUME SpriteTypes, scan.at = "fetch"
  PROVE  \E k \in SlotNumbers, plane \in {0, 1} :
           /\ scan.n = 2 * (k - 1) + plane
           /\ 1 + scan.n \div 2 = k /\ scan.n % 2 = plane
<1>1. scan.n \in Nat /\ scan.n < 2 * MaxPerLine /\ MaxPerLine \in Nat
  BY SpriteAssumption DEF SpriteTypes
<1>2. PICK h \in Nat, plane \in {0, 1} :
         scan.n = 2 * h + plane /\ scan.n \div 2 = h /\ scan.n % 2 = plane
  BY <1>1
<1>3. h + 1 \in SlotNumbers
  BY <1>1, <1>2 DEF SlotNumbers
<1>4. scan.n = 2 * ((h + 1) - 1) + plane /\ 1 + scan.n \div 2 = h + 1
  BY <1>2
<1> QED BY <1>2, <1>3, <1>4

(* A flag that is raised or stays. *)
LEMMA FlagsKept ==
  ASSUME NEW f \in [overflow : BOOLEAN, zeroHit : BOOLEAN], NEW hit \in BOOLEAN
  PROVE  /\ [f EXCEPT !.zeroHit = @ \/ hit] \in [overflow : BOOLEAN, zeroHit : BOOLEAN]
         /\ [f EXCEPT !.zeroHit = @ \/ hit].zeroHit = (f.zeroHit \/ hit)
         /\ [f EXCEPT !.overflow = @ \/ hit] \in [overflow : BOOLEAN, zeroHit : BOOLEAN]
<1>1. PICK o \in BOOLEAN, z \in BOOLEAN : f = [overflow |-> o, zeroHit |-> z]
  OBVIOUS
<1>2. [f EXCEPT !.zeroHit = @ \/ hit] = [overflow |-> o, zeroHit |-> z \/ hit]
  BY <1>1
<1>3. [f EXCEPT !.overflow = @ \/ hit] = [overflow |-> o \/ hit, zeroHit |-> z]
  BY <1>1
<1>4. (z \/ hit) \in BOOLEAN /\ (o \/ hit) \in BOOLEAN
  OBVIOUS
<1> QED BY <1>1, <1>2, <1>3, <1>4

(* Every step keeps the types. *)
LEMMA SpriteTypesKept ==
  ASSUME SpriteTypes, [SpritesNext]_spriteVars
  PROVE  SpriteTypes'
<1>1. /\ MaxPerLine \in Nat \ {0} /\ Columns \in Nat \ {0} /\ Rows \in Nat /\ Rows > 1
      /\ scan.line \in Nat /\ scan.line <= Rows /\ scan.n \in Nat
  BY SpriteAssumption DEF SpriteTypes
<1>2. CASE Draw
  <2>1. flags' \in [overflow : BOOLEAN, zeroHit : BOOLEAN]
    <3>1. PICK hit \in BOOLEAN : flags' = [flags EXCEPT !.zeroHit = @ \/ hit]
      BY <1>2 DEF Draw, OutputPixel, HitsZero
    <3> QED BY <3>1, FlagsKept DEF SpriteTypes
  <2>2. scan' \in [line : 0 .. Rows, at : {"draw", "evaluate", "fetch", "end"}, n : Nat]
        /\ scan'.at # "fetch" /\ (scan'.at = "evaluate" => scan'.n = 0)
        /\ (scan'.at = "draw" => scan'.line # Rows /\ scan'.n < Columns)
    <3>1. CASE scan.n + 1 < Columns
      <4>1. scan' = [scan EXCEPT !.n = @ + 1] /\ scan.at = "draw"
        BY <1>2, <3>1 DEF Draw
      <4> QED BY <1>1, <3>1, <4>1 DEF SpriteTypes
    <3>2. CASE ~(scan.n + 1 < Columns)
      <4>1. scan' = [scan EXCEPT !.at = "evaluate", !.n = 0]
        BY <1>2, <3>2 DEF Draw
      <4> QED BY <4>1 DEF SpriteTypes
    <3> QED BY <3>1, <3>2
  <2> QED BY <1>2, <2>1, <2>2 DEF SpriteTypes, Draw
<1>3. CASE Evaluate
  <2>1. flags' \in [overflow : BOOLEAN, zeroHit : BOOLEAN]
    <3>1. \/ flags' = flags
          \/ \E hit \in BOOLEAN : flags' = [flags EXCEPT !.overflow = @ \/ hit]
      BY <1>3 DEF Evaluate, Overflows
    <3> QED BY <3>1, FlagsKept DEF SpriteTypes
  <2>2. found' \in Seq(SpriteEntries) /\ Len(found') <= MaxPerLine
    <3>1. found' = found \/ found' = << >> \/ found' = Chosen(sprites, scan.line, Height)
      BY <1>3 DEF Evaluate
    <3>2. PICK c : c = Chosen(sprites, scan.line, Height)
      OBVIOUS
    <3>3. c \in Seq(SpriteEntries) /\ Len(c) <= MaxPerLine
      <4>1. Height \in Nat /\ sprites \in SpriteLists /\ scan.line \in Int
        BY <1>1, Heights DEF SpriteTypes
      <4> QED BY <1>1, <3>2, <4>1, ChosenList
    <3>4. << >> \in Seq(SpriteEntries) /\ Len(<< >>) <= MaxPerLine
      BY <1>1
    <3>5. found' = found \/ found' = << >> \/ found' = c
      BY <3>1, <3>2
    <3> QED BY <3>3, <3>4, <3>5 DEF SpriteTypes
  <2>3. scan' = [scan EXCEPT !.at = "fetch", !.n = scan.n]
        \/ scan' = [scan EXCEPT !.at = "end", !.n = scan.n]
    BY <1>3 DEF Evaluate, SpriteTypes
  <2>4. scan' \in [line : 0 .. Rows, at : {"draw", "evaluate", "fetch", "end"}, n : Nat]
        /\ scan'.at # "draw" /\ scan'.at # "evaluate" /\ scan'.n = scan.n
    BY <2>3 DEF SpriteTypes
  <2>5. scan.n < 2 * MaxPerLine
    BY <1>1, <1>3 DEF SpriteTypes, Evaluate
  <2> QED BY <1>3, <2>1, <2>2, <2>4, <2>5 DEF SpriteTypes, Evaluate
<1>4. CASE FetchSlot
  <2>1. fetched' \in [SlotNumbers -> Slots]
    <3>1. PICK k \in SlotNumbers, plane \in {0, 1} :
             1 + scan.n \div 2 = k /\ scan.n % 2 = plane
      BY <1>4, FetchNumber DEF FetchSlot
    <3>2. fetched' = IF Rendering /\ k <= Len(found)
                     THEN [fetched EXCEPT ![k] = Fill(k, plane)] ELSE fetched
      BY <1>4, <3>1 DEF FetchSlot
    <3>3. k <= Len(found) => Fill(k, plane) \in Slots
      BY Filled
    <3> QED BY <3>2, <3>3 DEF SpriteTypes
  <2>2. scan' \in [line : 0 .. Rows, at : {"draw", "evaluate", "fetch", "end"}, n : Nat]
        /\ scan'.at # "draw" /\ scan'.at # "evaluate"
        /\ (scan'.at = "fetch" => scan'.n < 2 * MaxPerLine)
    <3>1. CASE scan.n + 1 < 2 * MaxPerLine
      <4>1. scan' = [scan EXCEPT !.n = @ + 1] /\ scan.at = "fetch"
        BY <1>4, <3>1 DEF FetchSlot
      <4> QED BY <1>1, <3>1, <4>1 DEF SpriteTypes
    <3>2. CASE ~(scan.n + 1 < 2 * MaxPerLine)
      <4>1. scan' = [scan EXCEPT !.at = "end", !.n = 0]
        BY <1>4, <3>2 DEF FetchSlot
      <4> QED BY <4>1 DEF SpriteTypes
    <3> QED BY <3>1, <3>2
  <2> QED BY <1>4, <2>1, <2>2 DEF SpriteTypes, FetchSlot
<1>5. CASE EndLine
  <2>1. PICK next \in 0 .. Rows : next = (scan.line + 1) % (Rows + 1)
    BY <1>1
  <2>2. scan' = [line |-> next, at |-> IF next = Rows THEN "evaluate" ELSE "draw", n |-> 0]
    BY <1>5, <2>1 DEF EndLine
  <2>3. flags' \in [overflow : BOOLEAN, zeroHit : BOOLEAN]
    <3>1. flags' = flags \/ flags' = [overflow |-> FALSE, zeroHit |-> FALSE]
      BY <1>5, <2>1 DEF EndLine
    <3>2. flags \in [overflow : BOOLEAN, zeroHit : BOOLEAN]
      BY DEF SpriteTypes
    <3>3. [overflow |-> FALSE, zeroHit |-> FALSE] \in [overflow : BOOLEAN, zeroHit : BOOLEAN]
      OBVIOUS
    <3> QED BY <3>1, <3>2, <3>3
  <2>4. scan' \in [line : 0 .. Rows, at : {"draw", "evaluate", "fetch", "end"}, n : Nat]
        /\ scan'.at # "fetch" /\ (scan'.at = "evaluate" => scan'.n = 0)
        /\ (scan'.at = "draw" => scan'.line # Rows /\ scan'.n < Columns)
    BY <1>1, <2>2
  <2> QED BY <1>5, <2>3, <2>4 DEF SpriteTypes, EndLine
<1>6. CASE WriteSize
  BY <1>6 DEF WriteSize, Change, SpriteTypes
<1>7. CASE WriteMaskBits
  <2>1. mask' \in [bg : BOOLEAN, spr : BOOLEAN, bgLeft : BOOLEAN, sprLeft : BOOLEAN]
    BY <1>7 DEF WriteMaskBits, SpriteTypes
  <2> QED BY <1>7, <2>1 DEF WriteMaskBits, Change, SpriteTypes
<1>8. CASE WriteSprites
  BY <1>8 DEF WriteSprites, Change, SpriteTypes
<1>9. CASE UNCHANGED spriteVars
  BY <1>9 DEF spriteVars, SpriteTypes
<1> QED BY <1>2, <1>3, <1>4, <1>5, <1>6, <1>7, <1>8, <1>9 DEF SpritesNext

(* A pixel and the line's end do not lead to a fetch. *)
LEMMA OtherPlaces ==
  ASSUME SpriteTypes, Draw \/ EndLine
  PROVE  scan'.at \notin {"fetch", "end"}
<1>1. CASE Draw
  <2>1. scan.at = "draw"
    BY <1>1 DEF Draw
  <2>2. scan' = [scan EXCEPT !.n = @ + 1] \/ scan' = [scan EXCEPT !.at = "evaluate", !.n = 0]
    BY <1>1 DEF Draw
  <2> QED BY <2>1, <2>2 DEF SpriteTypes
<1>2. CASE EndLine
  <2>1. scan'.at = "evaluate" \/ scan'.at = "draw"
    BY <1>2 DEF EndLine
  <2> QED BY <2>1
<1> QED BY <1>1, <1>2

(* The choice stands. *)
LEMMA ChoiceKept ==
  ASSUME SpriteIInv, [SpritesNext]_spriteVars
  PROVE  ChoiceStands'
<1> SUFFICES ASSUME Settled', scan'.at \in {"fetch", "end"}
             PROVE  found' = IF scan'.line = Rows THEN << >>
                             ELSE Chosen(sprites', scan'.line, Height')
  BY DEF ChoiceStands
<1>1. /\ Draw \/ Evaluate \/ FetchSlot \/ EndLine \/ UNCHANGED spriteVars
      /\ sprites' = sprites /\ tall' = tall /\ mask' = mask /\ Height' = Height
      /\ Rendering /\ (steady \/ Evaluate)
  BY OwnSteps
<1>2. CASE Evaluate
  <2>1. scan'.line = scan.line
    BY <1>2 DEF Evaluate, SpriteIInv, SpriteTypes
  <2>2. found' = IF scan.line = Rows THEN << >> ELSE Chosen(sprites, scan.line, Height)
    BY <1>1, <1>2 DEF Evaluate
  <2> QED BY <1>1, <2>1, <2>2
<1>3. CASE ~Evaluate
  <2>1. FetchSlot \/ UNCHANGED spriteVars
    <3>1. ~Draw /\ ~EndLine
      BY OtherPlaces DEF SpriteIInv
    <3> QED BY <1>1, <1>3, <3>1
  <2>2. scan'.line = scan.line /\ found' = found /\ scan.at \in {"fetch", "end"}
    BY <2>1 DEF FetchSlot, spriteVars, SpriteIInv, SpriteTypes
  <2>3. Settled
    BY <1>1, <1>3 DEF Settled
  <2> QED BY <1>1, <2>2, <2>3 DEF SpriteIInv, ChoiceStands
<1> QED BY <1>2, <1>3

(* What was chosen covers the line. *)
LEMMA FoundCover ==
  ASSUME SpriteIInv, Settled, scan.at \in {"fetch", "end"},
         NEW k \in SlotNumbers, k <= Len(found)
  PROVE  PlaceOf(found[k]) = RightPlace(found[k], scan.line + 1, Height)
<1>1. scan.line \in Int /\ tall \in BOOLEAN /\ Height \in Nat /\ sprites \in SpriteLists
      /\ Len(found) \in Nat
  BY Heights DEF SpriteIInv, SpriteTypes
<1>2. scan.line # Rows /\ found = Chosen(sprites, scan.line, Height)
  <2>1. Len(<< >>) = 0 /\ k >= 1 /\ k \in Nat
    BY DEF SlotNumbers
  <2>2. found # << >>
    BY <1>1, <2>1
  <2> QED BY <2>2 DEF SpriteIInv, ChoiceStands
<1>3. k \in 1 .. Len(found)
  BY <1>1 DEF SlotNumbers
<1>4. PICK i \in 1 .. Len(sprites) :
        /\ Covers(sprites[i], scan.line, Height) /\ found[k].y = sprites[i].y
        /\ found[k] \in SpriteEntries
  BY <1>1, <1>2, <1>3, ChosenList
<1>5. Covers(found[k], scan.line, Height)
  BY <1>4 DEF Covers
<1> QED BY <1>1, <1>4, <1>5, PlacesAreRight

(* The slots hold what was fetched. *)
LEMMA SlotsKept ==
  ASSUME SpriteIInv, [SpritesNext]_spriteVars
  PROVE  SlotsFollow'
<1> SUFFICES ASSUME Settled', scan'.at \in {"fetch", "end"},
                    NEW k \in SlotNumbers, k <= Len(found')
             PROVE  /\ scan'.at = "end" \/ 2 * k - 2 < scan'.n =>
                          /\ SlotOf(fetched'[k], found'[k])
                          /\ fetched'[k].low = RightPlace(found'[k], scan'.line + 1, Height')
                    /\ scan'.at = "end" \/ 2 * k - 1 < scan'.n =>
                          fetched'[k].high = RightPlace(found'[k], scan'.line + 1, Height')
  BY DEF SlotsFollow, SlotOf
<1>1. /\ Draw \/ Evaluate \/ FetchSlot \/ EndLine \/ UNCHANGED spriteVars
      /\ sprites' = sprites /\ tall' = tall /\ mask' = mask /\ Height' = Height
      /\ Rendering /\ (steady \/ Evaluate)
  BY OwnSteps
<1>2. k \in Nat /\ k >= 1 /\ k <= MaxPerLine /\ MaxPerLine \in Nat
  BY SpriteAssumption DEF SlotNumbers
<1>3. CASE Evaluate
  <2>1. scan'.at = "fetch" /\ scan'.n = 0
    BY <1>1, <1>3 DEF Evaluate, SpriteIInv, SpriteTypes
  <2> QED BY <1>2, <2>1
<1>4. CASE ~Evaluate /\ FetchSlot
  <2>1. Settled /\ scan.at = "fetch" /\ found' = found /\ scan'.line = scan.line
    BY <1>1, <1>4 DEF Settled, FetchSlot, SpriteIInv, SpriteTypes
  <2>2. PICK h \in SlotNumbers, plane \in {0, 1} :
           /\ scan.n = 2 * (h - 1) + plane
           /\ 1 + scan.n \div 2 = h /\ scan.n % 2 = plane
    BY <2>1, FetchNumber DEF SpriteIInv
  <2>3. fetched' = IF h <= Len(found) THEN [fetched EXCEPT ![h] = Fill(h, plane)] ELSE fetched
    BY <1>1, <1>4, <2>2 DEF FetchSlot
  <2>4. k # h => fetched'[k] = fetched[k]
    BY <2>3 DEF SpriteIInv, SpriteTypes
  <2>5. k = h => fetched'[k] = Fill(h, plane)
    BY <2>1, <2>3 DEF SpriteIInv, SpriteTypes
  <2>6. PICK right : right = RightPlace(found[k], scan.line + 1, Height)
    OBVIOUS
  <2>7. PlaceOf(found[k]) = right
    BY <2>1, <2>6, FoundCover
  <2>8. /\ 2 * k - 2 < scan.n => SlotOf(fetched[k], found[k]) /\ fetched[k].low = right
        /\ 2 * k - 1 < scan.n => fetched[k].high = right
    BY <2>1, <2>6 DEF SpriteIInv, SlotsFollow
  <2>9. \/ scan'.at = "fetch" /\ scan'.n = scan.n + 1
        \/ scan'.at = "end" /\ scan.n + 1 >= 2 * MaxPerLine
    BY <1>2, <1>4, <2>1 DEF FetchSlot, SpriteIInv, SpriteTypes
  <2>10. /\ scan'.at = "end" \/ 2 * k - 2 < scan'.n => 2 * k - 2 <= scan.n
         /\ scan'.at = "end" \/ 2 * k - 1 < scan'.n => 2 * k - 1 <= scan.n
         /\ scan.n \in Nat
    BY <1>2, <2>9 DEF SpriteIInv, SpriteTypes
  <2>11. h \in Nat /\ h >= 1
    BY DEF SlotNumbers
  <2>12. CASE k # h
    <3>1. 2 * k - 2 # scan.n /\ 2 * k - 1 # scan.n
      BY <1>2, <2>2, <2>11, <2>12
    <3>2. /\ scan'.at = "end" \/ 2 * k - 2 < scan'.n => 2 * k - 2 < scan.n
          /\ scan'.at = "end" \/ 2 * k - 1 < scan'.n => 2 * k - 1 < scan.n
      BY <1>2, <2>10, <3>1
    <3> QED BY <1>1, <2>1, <2>4, <2>6, <2>8, <2>12, <3>2
  <2>13. CASE k = h /\ plane = 0
    <3>1. ~(2 * k - 1 <= scan.n)
      BY <1>2, <2>2, <2>13
    <3>2. SlotOf(fetched'[k], found[k]) /\ fetched'[k].low = right
      BY <2>1, <2>5, <2>7, <2>13, Filled DEF SpriteIInv
    <3> QED BY <1>1, <2>1, <2>6, <2>10, <3>1, <3>2
  <2>14. CASE k = h /\ plane = 1
    <3>1. 2 * k - 2 < scan.n
      BY <1>2, <2>2, <2>14
    <3>2. SlotOf(fetched'[k], found[k]) /\ fetched'[k].high = right
          /\ fetched'[k].low = fetched[k].low
      BY <2>1, <2>5, <2>7, <2>14, Filled DEF SpriteIInv
    <3> QED BY <1>1, <2>1, <2>6, <2>8, <3>1, <3>2
  <2> QED BY <2>12, <2>13, <2>14
<1>5. CASE ~Evaluate /\ ~FetchSlot
  <2>1. UNCHANGED spriteVars
    <3>1. ~Draw /\ ~EndLine
      BY OtherPlaces DEF SpriteIInv
    <3> QED BY <1>1, <1>5, <3>1
  <2>2. Settled /\ scan' = scan /\ found' = found /\ fetched' = fetched
    BY <1>1, <1>5, <2>1 DEF Settled, spriteVars
  <2> QED BY <1>1, <2>2 DEF SpriteIInv, SlotsFollow
<1> QED BY <1>3, <1>4, <1>5

(* The next line is given the slots that were fetched for it. *)
LEMMA LineKept ==
  ASSUME SpriteIInv, [SpritesNext]_spriteVars
  PROVE  LineFollows'
<1> SUFFICES ASSUME Settled', scan'.at = "draw"
             PROVE  IF scan'.line = 0 THEN lineUp' = << >>
                    ELSE LET list == Chosen(sprites', scan'.line - 1, Height')
                         IN  /\ lineUp' \in Seq(Slots) /\ Len(lineUp') = Len(list)
                             /\ \A k \in 1 .. Len(list) :
                                  /\ SlotOf(lineUp'[k], list[k])
                                  /\ lineUp'[k].low = RightPlace(list[k], scan'.line, Height')
                                  /\ lineUp'[k].high = RightPlace(list[k], scan'.line, Height')
  BY DEF LineFollows, SlotOf
<1>1. /\ Draw \/ Evaluate \/ FetchSlot \/ EndLine \/ UNCHANGED spriteVars
      /\ sprites' = sprites /\ tall' = tall /\ mask' = mask /\ Height' = Height
      /\ Rendering /\ (steady \/ Evaluate)
  BY OwnSteps
<1>2. ~Evaluate /\ ~FetchSlot
  <2>1. Evaluate => scan'.at = "fetch" \/ scan'.at = "end"
    BY DEF Evaluate, SpriteIInv, SpriteTypes
  <2>2. FetchSlot => scan'.at = "fetch" \/ scan'.at = "end"
    <3> SUFFICES ASSUME FetchSlot PROVE scan'.at = "fetch" \/ scan'.at = "end"
      OBVIOUS
    <3>1. /\ scan.at = "fetch"
          /\ scan' = [scan EXCEPT !.n = @ + 1] \/ scan' = [scan EXCEPT !.at = "end", !.n = 0]
      BY DEF FetchSlot
    <3> QED BY <3>1 DEF SpriteIInv, SpriteTypes
  <2> QED BY <2>1, <2>2
<1>3. Settled
  BY <1>1, <1>2 DEF Settled
<1>4. CASE Draw \/ UNCHANGED spriteVars
  <2>1. scan'.line = scan.line /\ scan.at = "draw" /\ lineUp' = lineUp
    <3>1. CASE Draw
      <4>1. scan.at = "draw" /\ lineUp' = lineUp
        BY <3>1 DEF Draw
      <4>2. scan' = [scan EXCEPT !.n = @ + 1]
            \/ scan' = [scan EXCEPT !.at = "evaluate", !.n = 0]
        BY <3>1 DEF Draw
      <4> QED BY <4>1, <4>2 DEF SpriteIInv, SpriteTypes
    <3>2. CASE UNCHANGED spriteVars
      BY <3>2 DEF spriteVars
    <3> QED BY <1>4, <3>1, <3>2
  <2> QED BY <1>1, <1>3, <2>1 DEF SpriteIInv, LineFollows
<1>5. CASE EndLine
  <2>1. Rows \in Nat /\ scan.line \in Nat /\ scan.line <= Rows
    BY SpriteAssumption DEF SpriteIInv, SpriteTypes
  <2>2. PICK next \in 0 .. Rows : next = (scan.line + 1) % (Rows + 1)
    BY <2>1
  <2>3. next # 0 => next = scan.line + 1 /\ scan.line # Rows
    <3>1. PICK m \in Nat \ {0}, x \in Nat : m = Rows + 1 /\ x = scan.line + 1
      BY <2>1
    <3>2. x < m => x % m = x
      BY <3>1, Quotients
    <3>3. x = m => x % m = 0
      <4>1. m <= m /\ m < 2 * m => m % m = m - m
        BY <3>1, Quotients
      <4> QED BY <3>1, <4>1
    <3> QED BY <2>1, <2>2, <3>1, <3>2, <3>3
  <2>4. /\ scan' = [line |-> next, at |-> IF next = Rows THEN "evaluate" ELSE "draw", n |-> 0]
        /\ scan.at = "end"
    BY <1>5, <2>2 DEF EndLine
  <2>5. scan'.line = next /\ next # Rows
    BY <2>4
  <2>6. lineUp' = IF next # 0 THEN SubSeq(fetched, 1, Len(found)) ELSE << >>
    BY <1>1, <1>5, <2>2, <2>5 DEF EndLine
  <2>7. CASE next = 0
    BY <2>5, <2>6, <2>7
  <2>8. CASE next # 0
    <3>1. PICK list : list = Chosen(sprites, scan.line, Height)
      OBVIOUS
    <3>2. found = list
      BY <1>3, <2>3, <2>4, <2>8, <3>1 DEF SpriteIInv, ChoiceStands
    <3>3. PICK n \in Nat : n = Len(list) /\ n <= MaxPerLine /\ MaxPerLine \in Nat
      BY <3>2, SpriteAssumption DEF SpriteIInv, SpriteTypes
    <3>4. 1 .. MaxPerLine = SlotNumbers
      BY <3>3 DEF SlotNumbers
    <3>5. /\ lineUp' \in Seq(Slots) /\ Len(lineUp') = n
          /\ \A k \in 1 .. n : lineUp'[k] = fetched[k]
      <4>1. fetched \in Seq(Slots) /\ Len(fetched) = MaxPerLine
        BY <3>3, <3>4 DEF SpriteIInv, SpriteTypes
      <4>2. lineUp' = SubSeq(fetched, 1, n)
        BY <2>6, <2>8, <3>2, <3>3
      <4> QED BY <3>3, <4>1, <4>2
    <3>6. ASSUME NEW k \in 1 .. n
          PROVE  /\ SlotOf(lineUp'[k], list[k])
                 /\ lineUp'[k].low = RightPlace(list[k], next, Height)
                 /\ lineUp'[k].high = RightPlace(list[k], next, Height)
      <4>1. k \in SlotNumbers /\ k <= Len(found)
        BY <3>2, <3>3, <3>4
      <4>2. /\ SlotOf(fetched[k], list[k])
            /\ fetched[k].low = RightPlace(list[k], scan.line + 1, Height)
            /\ fetched[k].high = RightPlace(list[k], scan.line + 1, Height)
        BY <1>3, <2>4, <3>2, <4>1 DEF SpriteIInv, SlotsFollow
      <4> QED BY <2>3, <2>8, <3>5, <4>2
    <3>7. scan'.line - 1 = scan.line
      BY <2>1, <2>3, <2>5, <2>8
    <3>8. list = Chosen(sprites', scan'.line - 1, Height')
      BY <1>1, <3>1, <3>7
    <3> QED BY <1>1, <2>5, <2>8, <3>3, <3>5, <3>6, <3>8
  <2> QED BY <2>7, <2>8
<1> QED BY <1>1, <1>2, <1>4, <1>5

(* The invariant is kept. *)
LEMMA SpritesKept == SpriteIInv /\ [SpritesNext]_spriteVars => SpriteIInv'
BY SpriteTypesKept, ChoiceKept, SlotsKept, LineKept DEF SpriteIInv

-----------------------------------------------------------------------------
(* The sprites that a line should show are those that the evaluation of the  *)
(* line before keeps.                                                        *)
LEMMA KeptAreFirst ==
  ASSUME SpriteTypes, NEW line \in Nat, line # 0, NEW i \in 1 .. Len(sprites)
  PROVE  AmongFirst(line, i) <=> i \in Kept(sprites, line - 1, Height)
<1>1. sprites \in Seq(SpriteEntries) /\ Len(sprites) \in Nat
  BY SpriteAssumption DEF SpriteTypes
<1>2. Height \in Nat
  BY Heights DEF SpriteTypes
<1>3. ASSUME NEW j \in 1 .. Len(sprites)
      PROVE  OnLine(line, j) <=> Covers(sprites[j], line - 1, Height)
  <2>1. sprites[j] \in SpriteEntries
    BY <1>1, ElementOfSeq
  <2>2. PICK y \in Nat : y = sprites[j].y
    BY <2>1 DEF SpriteEntries
  <2>3. line \in y + 1 .. y + Height <=> line - 1 - y \in 0 .. Height - 1
    BY <1>2
  <2> QED BY <2>2, <2>3 DEF OnLine, Covers
<1>4. \A j \in 1 .. i - 1 : j \in 1 .. Len(sprites)
  BY <1>1
<1>5. {j \in 1 .. i - 1 : OnLine(line, j)} = Before(sprites, line - 1, Height, i)
  BY <1>3, <1>4 DEF Before
<1> QED BY <1>3, <1>5 DEF AmongFirst, Kept, HasRoom

(* A slot that was fetched for a sprite shows the sprite's pixels.           *)
LEMMA PixelsAreRight ==
  ASSUME SpriteTypes, NEW line \in Nat, NEW column \in Nat, NEW slot \in Slots,
         NEW i \in 1 .. Len(sprites), NEW s \in SpriteEntries, SlotOf(slot, s),
         Covers(sprites[i], line - 1, Height), slot.low = RightPlace(s, line, Height),
         slot.high = slot.low, s.y = sprites[i].y, s.x = sprites[i].x, s.tile = sprites[i].tile,
         s.flip = sprites[i].flip, s.upside = sprites[i].upside
  PROVE  LET pixel == RightPixel(sprites[i], line, column)
         IN  /\ Opaque(slot, column) <=> pixel # 0
             /\ pixel # 0 => PixelOf(slot, column - slot.x) = pixel
<1>1. PICK e \in SpriteEntries : e = sprites[i]
  BY SpriteAssumption, ElementOfSeq DEF SpriteTypes
<1>2. /\ Height \in Nat \ {0} /\ Size \in Nat \ {0}
      /\ Height = IF tall THEN 2 * Size ELSE Size
  BY Heights DEF SpriteTypes
<1>3. PICK y \in Nat, x \in Nat, t \in Nat, flip \in BOOLEAN, upside \in BOOLEAN :
        y = e.y /\ x = e.x /\ t = e.tile /\ flip = e.flip /\ upside = e.upside
  BY DEF SpriteEntries
<1>4. PICK spot : spot = RightPlace(e, line, Height)
  OBVIOUS
<1>5. slot.low = spot /\ slot.high = spot /\ slot.x = x /\ slot.flip = flip
  BY <1>1, <1>3, <1>4 DEF RightPlace, SlotOf
<1>6. PICK half \in Nat : half = t \div 2
  BY <1>3
<1>7. PICK row \in Int : row = IF upside THEN Height - 1 - (line - 1 - y) ELSE line - 1 - y
  BY <1>2, <1>3
<1>8. 0 <= row /\ row < Height
  <2>1. PICK down \in Int : down = line - 1 - y
    BY <1>3
  <2>2. sprites[i].y = y
    BY <1>1, <1>3
  <2>3. down \in 0 .. Height - 1
    BY <2>1, <2>2 DEF Covers
  <2>4. row = IF upside THEN Height - 1 - down ELSE down
    BY <1>7, <2>1
  <2>5. 0 <= down /\ down < Height
    BY <1>2, <2>3
  <2> QED BY <1>2, <2>4, <2>5
<1>9. \E tile \in TilesOf(e), r \in 0 .. Size - 1 : spot = <<tile, r>>
  <2>1. spot = IF Height = Size THEN <<t, row>>
                ELSE IF row < Size THEN <<2 * half, row>> ELSE <<2 * half + 1, row - Size>>
    BY <1>3, <1>4, <1>6, <1>7 DEF RightPlace
  <2>2. t \in TilesOf(e) /\ 2 * half \in TilesOf(e) /\ 2 * half + 1 \in TilesOf(e)
    BY <1>3, <1>6 DEF TilesOf
  <2>3. CASE row < Size
    <3>1. row \in 0 .. Size - 1
      BY <1>2, <1>8, <2>3
    <3> QED BY <2>1, <2>2, <2>3, <3>1
  <2>4. CASE ~(row < Size)
    <3>1. Height # Size /\ row - Size \in 0 .. Size - 1
      BY <1>2, <1>8, <2>4
    <3> QED BY <2>1, <2>2, <2>4, <3>1
  <2> QED BY <2>3, <2>4
<1>10. CASE column - x \in 0 .. Size - 1
  <2>1. PICK c \in 0 .. Size - 1 : c = IF flip THEN Size - 1 - (column - x) ELSE column - x
    <3>1. PICK d \in 0 .. Size - 1 : d = column - x
      BY <1>10
    <3>2. Size - 1 - d \in 0 .. Size - 1
      BY <1>2, <3>1
    <3>3. (IF flip THEN Size - 1 - d ELSE d) \in 0 .. Size - 1
      BY <3>2
    <3> QED BY <3>1, <3>3
  <2>2. PICK pixel \in 0 .. 3 : pixel = Pattern[spot][c]
    <3>1. PICK tile \in TilesOf(e), r \in 0 .. Size - 1 : spot = <<tile, r>>
      BY <1>9
    <3>2. sprites \in SpriteLists /\ tile \in TilesOf(sprites[i])
      BY <1>1, <3>1 DEF SpriteTypes
    <3>3. Pattern[<<tile, r>>][c] \in 0 .. 3
      BY <3>2, SpriteAssumption
    <3> QED BY <3>1, <3>3
  <2>3. RightPixel(sprites[i], line, column) = pixel
    BY <1>1, <1>3, <1>4, <1>10, <2>1, <2>2 DEF RightPixel
  <2>4. PixelOf(slot, column - slot.x) = (pixel % 2) + 2 * (pixel \div 2)
    BY <1>5, <2>1, <2>2 DEF PixelOf
  <2>5. (pixel % 2) + 2 * (pixel \div 2) = pixel
    OBVIOUS
  <2>6. Opaque(slot, column) <=> pixel # 0
    BY <1>5, <1>10, <2>4, <2>5 DEF Opaque
  <2> QED BY <2>3, <2>4, <2>5, <2>6
<1>11. CASE column - x \notin 0 .. Size - 1
  <2>1. ~Opaque(slot, column)
    BY <1>5, <1>11 DEF Opaque
  <2>2. RightPixel(sprites[i], line, column) = 0
    BY <1>1, <1>3, <1>11 DEF RightPixel
  <2> QED BY <2>1, <2>2
<1> QED BY <1>10, <1>11

(* The first opaque sprite of a list is before every other. *)
LEMMA FirstIsFirst ==
  ASSUME NEW list, Len(list) \in Nat, NEW column, NEW k, k = FirstOpaque(list, column)
  PROVE  \/ k = 0 /\ \A j \in 1 .. Len(list) : ~Opaque(list[j], column)
         \/ /\ k \in 1 .. Len(list) /\ Opaque(list[k], column)
            /\ \A j \in 1 .. Len(list) : j < k => ~Opaque(list[j], column)
<1> DEFINE hits == {j \in 1 .. Len(list) : Opaque(list[j], column)}
<1>1. CASE hits = {}
  BY <1>1 DEF FirstOpaque
<1>2. CASE hits # {}
  <2>1. hits \in SUBSET Nat
    OBVIOUS
  <2>2. \E m \in hits : \A j \in hits : m <= j
    <3> HIDE DEF hits
    <3> QED BY <1>2, <2>1, Least
  <2>3. k = CHOOSE m \in hits : \A j \in hits : m <= j
    BY <1>2 DEF FirstOpaque
  <2>4. k \in hits /\ \A j \in hits : k <= j
    <3> HIDE DEF hits
    <3> QED BY <2>2, <2>3
  <2> QED BY <2>4
<1> QED BY <1>1, <1>2

(* The line's first opaque slot is that of the sprite on top. *)
ListShown == IF Shows(mask.spr, mask.sprLeft, scan.n) THEN lineUp ELSE << >>
TopSprites == {i \in 1 .. Len(sprites) : OnTop(scan.line, scan.n, i)}

LEMMA FirstIsOnTop ==
  ASSUME SpriteIInv, Settled, scan.at = "draw", NEW k, k = FirstOpaque(ListShown, scan.n)
  PROVE  \/ k = 0 /\ TopSprites = {}
         \/ /\ k # 0
            /\ \E i \in 1 .. Len(sprites) :
                 /\ TopSprites = {i}
                 /\ ListShown[k].front = sprites[i].front
                 /\ ListShown[k].colour = sprites[i].colour
                 /\ ListShown[k].zero = (i = 1)
                 /\ PixelOf(ListShown[k], scan.n - ListShown[k].x)
                      = RightPixel(sprites[i], scan.line, scan.n)
<1> DEFINE line == scan.line
           column == scan.n
           seen(i) == Seen(line, column, i)
<1>1. /\ SpriteTypes /\ line \in Nat /\ column \in Nat /\ sprites \in SpriteLists
      /\ sprites \in Seq(SpriteEntries) /\ Len(sprites) \in Nat /\ Height \in Nat
  <2>1. SpriteTypes /\ sprites \in SpriteLists /\ line \in Nat /\ column \in Nat
        /\ tall \in BOOLEAN
    BY DEF SpriteIInv, SpriteTypes
  <2> QED BY <2>1, Heights, SpriteAssumption
<1>2. CASE ~Shows(mask.spr, mask.sprLeft, scan.n) \/ line = 0
  <2>1. ListShown = << >>
    BY <1>2 DEF SpriteIInv, LineFollows, ListShown
  <2>2. Len(ListShown) = 0
    BY <2>1
  <2>3. k = 0
    BY <2>2, FirstIsFirst
  <2>4. \A i \in 1 .. Len(sprites) : ~seen(i)
    BY <1>2 DEF Seen, AmongFirst, OnLine
  <2> QED BY <2>3, <2>4 DEF TopSprites, OnTop
<1>3. CASE Shows(mask.spr, mask.sprLeft, scan.n) /\ line # 0
  <2> DEFINE K == Kept(sprites, line - 1, Height)
             C == Chosen(sprites, line - 1, Height)
             n == Cardinality(K)
             nth(m) == Nth(sprites, line - 1, Height, m)
             rank(i) == Rank(sprites, line - 1, Height, i)
  <2>1. ListShown = lineUp
    BY <1>3 DEF ListShown
  <2>2. n \in Nat /\ Len(C) = n /\ K \in SUBSET (1 .. Len(sprites))
    <3>1. line - 1 \in Int
      BY <1>1
    <3>2. n \in Nat /\ Len(C) = n
      BY <1>1, <3>1, ChosenList
    <3>3. K \in SUBSET (1 .. Len(sprites))
      BY DEF Kept
    <3> QED BY <3>2, <3>3
  <2>3. /\ lineUp \in Seq(Slots) /\ Len(lineUp) = n
        /\ \A m \in 1 .. n : /\ SlotOf(lineUp[m], C[m])
                             /\ lineUp[m].low = RightPlace(C[m], line, Height)
                             /\ lineUp[m].high = RightPlace(C[m], line, Height)
    <3> HIDE DEF n
    <3> QED BY <1>3, <2>2 DEF SpriteIInv, LineFollows
  <2>4. ASSUME NEW m \in 1 .. n
        PROVE  LET i == nth(m)
                   slot == lineUp[m]
               IN  /\ i \in K /\ i \in 1 .. Len(sprites)
                   /\ slot.front = sprites[i].front /\ slot.colour = sprites[i].colour
                   /\ slot.zero = (i = 1)
                   /\ Opaque(slot, column) <=> seen(i)
                   /\ seen(i) => PixelOf(slot, column - slot.x)
                                   = RightPixel(sprites[i], line, column)
    <3>1. PICK i : i = nth(m)
      OBVIOUS
    <3>2. PICK s : s = C[m]
      OBVIOUS
    <3>3. /\ i \in K /\ i \in 1 .. Len(sprites) /\ Covers(sprites[i], line - 1, Height)
          /\ s \in SpriteEntries /\ s.y = sprites[i].y /\ s.x = sprites[i].x
          /\ s.tile = sprites[i].tile /\ s.front = sprites[i].front
          /\ s.colour = sprites[i].colour /\ s.flip = sprites[i].flip
          /\ s.upside = sprites[i].upside /\ s.zero = (i = 1)
      BY <1>1, <3>1, <3>2, ChosenList
    <3>4. PICK slot \in Slots : slot = lineUp[m]
      BY <2>3, ElementOfSeq
    <3>5. /\ SlotOf(slot, s) /\ slot.low = RightPlace(s, line, Height) /\ slot.high = slot.low
      BY <2>3, <3>2, <3>4
    <3>6. /\ Opaque(slot, column) <=> RightPixel(sprites[i], line, column) # 0
          /\ RightPixel(sprites[i], line, column) # 0
               => PixelOf(slot, column - slot.x) = RightPixel(sprites[i], line, column)
      BY <1>1, <3>3, <3>5, PixelsAreRight
    <3>7. AmongFirst(line, i)
      BY <1>1, <1>3, <3>3, KeptAreFirst
    <3>8. seen(i) <=> RightPixel(sprites[i], line, column) # 0
      BY <1>3, <3>7 DEF Seen
    <3>9. slot.front = s.front /\ slot.colour = s.colour /\ slot.zero = s.zero
      BY <3>5 DEF SlotOf
    <3> HIDE DEF nth, K, seen
    <3> QED BY <3>1, <3>3, <3>4, <3>6, <3>8, <3>9
  <2>5. ASSUME NEW i \in 1 .. Len(sprites), seen(i)
        PROVE  i \in K /\ rank(i) \in Nat /\ rank(i) + 1 \in 1 .. n /\ nth(rank(i) + 1) = i
    <3>1. i \in K
      BY <1>1, <1>3, <2>5, KeptAreFirst DEF Seen
    <3>2. PICK m : m = rank(i) + 1
      OBVIOUS
    <3>3. m \in 1 .. n /\ rank(i) \in Nat
      BY <1>1, <3>1, <3>2, KeptInOrder, Ranks
    <3>4. nth(m) \in K /\ rank(nth(m)) = rank(i)
      <4>1. nth(m) \in K /\ rank(nth(m)) = m - 1
        BY <1>1, <3>3, KeptInOrder
      <4> HIDE DEF nth, rank
      <4> QED BY <3>2, <3>3, <4>1
    <3>5. ~(i < nth(m)) /\ ~(nth(m) < i)
      <4>1. i < nth(m) <=> rank(i) < rank(nth(m))
        BY <1>1, <3>1, <3>4, KeptInOrder
      <4>2. nth(m) < i <=> rank(nth(m)) < rank(i)
        BY <1>1, <3>1, <3>4, KeptInOrder
      <4> HIDE DEF nth, rank
      <4> QED BY <3>3, <3>4, <4>1, <4>2
    <3>6. nth(m) = i
      <4>1. i \in Nat /\ nth(m) \in Nat
        BY <2>2, <3>4
      <4> HIDE DEF nth
      <4> QED BY <3>5, <4>1
    <3> QED BY <3>1, <3>2, <3>3, <3>6
  <2>6. \/ k = 0 /\ \A j \in 1 .. n : ~Opaque(lineUp[j], column)
        \/ /\ k \in 1 .. n /\ Opaque(lineUp[k], column)
           /\ \A j \in 1 .. n : j < k => ~Opaque(lineUp[j], column)
    <3> HIDE DEF n
    <3> QED BY <2>1, <2>2, <2>3, FirstIsFirst
  <2>7. CASE k = 0
    <3>1. \A i \in 1 .. Len(sprites) : ~seen(i)
      <4> SUFFICES ASSUME NEW i \in 1 .. Len(sprites), seen(i) PROVE FALSE
        OBVIOUS
      <4>1. PICK m \in 1 .. n : nth(m) = i
        BY <2>5
      <4>2. Opaque(lineUp[m], column)
        BY <2>4, <4>1
      <4>3. 0 \notin 1 .. n
        OBVIOUS
      <4> HIDE DEF n
      <4> QED BY <2>6, <2>7, <4>2, <4>3
    <3> QED BY <2>7, <3>1 DEF TopSprites, OnTop
  <2>8. CASE k # 0
    <3>1. /\ k \in 1 .. n /\ Opaque(lineUp[k], column)
          /\ \A j \in 1 .. n : j < k => ~Opaque(lineUp[j], column)
      BY <2>6, <2>8
    <3>2. PICK i \in 1 .. Len(sprites) : i = nth(k) /\ i \in K
      BY <2>4, <3>1
    <3>3. seen(i)
      BY <2>4, <3>1, <3>2
    <3>4. rank(i) = k - 1
      BY <1>1, <3>1, <3>2, KeptInOrder
    <3>5. \A j \in 1 .. Len(sprites) : j < i => ~seen(j)
      <4> SUFFICES ASSUME NEW j \in 1 .. Len(sprites), j < i, seen(j) PROVE FALSE
        OBVIOUS
      <4>1. j \in K /\ rank(j) \in Nat /\ rank(j) + 1 \in 1 .. n /\ nth(rank(j) + 1) = j
        BY <2>5
      <4>2. rank(j) < rank(i)
        BY <1>1, <3>2, <4>1, KeptInOrder
      <4>3. PICK m \in 1 .. n : m = rank(j) + 1 /\ nth(m) = j
        BY <4>1
      <4>4. m < k
        <5> HIDE DEF rank, n
        <5> QED BY <2>2, <3>1, <3>4, <4>1, <4>2, <4>3
      <4>5. Opaque(lineUp[m], column)
        BY <2>4, <4>3
      <4> HIDE DEF n
      <4> QED BY <3>1, <4>4, <4>5
    <3>6. OnTop(line, column, i)
      <4>1. \A j \in 1 .. i - 1 : j \in 1 .. Len(sprites) /\ j < i
        BY <1>1
      <4> QED BY <3>3, <3>5, <4>1 DEF OnTop
    <3>7. ASSUME NEW j \in 1 .. Len(sprites), OnTop(line, column, j) PROVE j = i
      <4>1. seen(j) /\ \A h \in 1 .. j - 1 : ~seen(h)
        BY <3>7 DEF OnTop
      <4>2. ~(j < i)
        BY <3>5, <4>1
      <4>3. ~(i < j)
        <5>1. i < j => i \in 1 .. j - 1
          BY <1>1
        <5> QED BY <3>3, <4>1, <5>1
      <4> QED BY <1>1, <4>2, <4>3
    <3>8. TopSprites = {i}
      BY <3>6, <3>7 DEF TopSprites
    <3>9. /\ lineUp[k].front = sprites[i].front /\ lineUp[k].colour = sprites[i].colour
          /\ lineUp[k].zero = (i = 1)
          /\ PixelOf(lineUp[k], column - lineUp[k].x) = RightPixel(sprites[i], line, column)
      BY <2>4, <3>1, <3>2, <3>3
    <3> QED BY <2>1, <2>8, <3>8, <3>9
  <2> QED BY <2>7, <2>8
<1> QED BY <1>2, <1>3

-----------------------------------------------------------------------------
(* Every line shows the sprites that the sprite memory gives it, the first   *)
(* opaque one at every pixel, and the sprite-zero flag follows: the          *)
(* invariant is carried through the four stages of the line, and a pixel is  *)
(* read from it (evaluate_sprites, fetch_sprite_pattern,                     *)
(* start_scanline_sprites, output_pixel).                                    *)
THEOREM LinesHold == SpritesSpec => LinesShowTheirSprites
<1> DEFINE
      top == TopSprites
      A == /\ drawn'.source = "sprite" =>
                 \E i \in top :
                     /\ drawn'.colour = sprites[i].colour
                     /\ drawn'.pixel = RightPixel(sprites[i], scan.line, scan.n)
           /\ drawn'.source = "backdrop" => top = {}
           /\ drawn'.source = "background" => \A i \in top : ~sprites[i].front
           /\ drawn'.source = "background" /\ 1 \in top /\ scan.n < Columns - 1 =>
                 flags'.zeroHit
           /\ flags'.zeroHit /\ ~flags.zeroHit =>
                 /\ 1 \in top /\ scan.n < Columns - 1
                 /\ Shows(mask.bg, mask.bgLeft, scan.n)
<1>1. ASSUME SpriteIInv, Draw, steady, Rendering PROVE A
  <2>1. scan.at = "draw" /\ Settled /\ scan.n \in Nat /\ scan.n < Columns /\ Columns \in Nat
        /\ flags \in [overflow : BOOLEAN, zeroHit : BOOLEAN]
    BY <1>1, SpriteAssumption DEF Draw, Settled, SpriteIInv, SpriteTypes
  <2>2. PICK list : list = ListShown
    OBVIOUS
  <2>3. PICK k : k = FirstOpaque(list, scan.n)
    OBVIOUS
  <2>4. PICK bg \in {0, 1} :
          /\ drawn' = Mux(bg, list, k, scan.n)
          /\ flags' = [flags EXCEPT !.zeroHit = @ \/ HitsZero(bg, list, k, scan.n)]
          /\ bg # 0 => Shows(mask.bg, mask.bgLeft, scan.n)
    <3>1. PICK bit \in {0, 1} : OutputPixel(bit)
      BY <1>1 DEF Draw
    <3>2. PICK bg : bg = IF Shows(mask.bg, mask.bgLeft, scan.n) THEN bit ELSE 0
      OBVIOUS
    <3>3. /\ drawn' = Mux(bg, list, k, scan.n)
          /\ flags' = [flags EXCEPT !.zeroHit = @ \/ HitsZero(bg, list, k, scan.n)]
      BY <2>2, <2>3, <3>1, <3>2 DEF OutputPixel, ListShown
    <3> QED BY <3>2, <3>3
  <2>5. \/ k = 0 /\ top = {}
        \/ /\ k # 0
           /\ \E i \in 1 .. Len(sprites) :
                /\ top = {i} /\ list[k].front = sprites[i].front
                /\ list[k].colour = sprites[i].colour /\ list[k].zero = (i = 1)
                /\ PixelOf(list[k], scan.n - list[k].x)
                     = RightPixel(sprites[i], scan.line, scan.n)
    BY <1>1, <2>1, <2>2, <2>3, FirstIsOnTop
  <2>6. PICK hit \in BOOLEAN : hit = HitsZero(bg, list, k, scan.n)
    BY DEF HitsZero
  <2>7. flags'.zeroHit = (flags.zeroHit \/ hit)
    BY <2>1, <2>4, <2>6, FlagsKept
  <2> HIDE DEF top
  <2>8. CASE k = 0
    <3>1. drawn'.source = IF bg = 0 THEN "backdrop" ELSE "background"
      BY <2>4, <2>8 DEF Mux
    <3>2. ~hit /\ top = {}
      BY <2>5, <2>6, <2>8 DEF HitsZero
    <3> QED BY <2>7, <2>8, <3>1, <3>2
  <2>9. CASE k # 0
    <3>1. PICK i \in 1 .. Len(sprites) :
            /\ top = {i} /\ list[k].front = sprites[i].front
            /\ list[k].colour = sprites[i].colour /\ list[k].zero = (i = 1)
            /\ PixelOf(list[k], scan.n - list[k].x)
                 = RightPixel(sprites[i], scan.line, scan.n)
      BY <2>5, <2>9
    <3>2. hit <=> i = 1 /\ bg # 0 /\ scan.n < Columns - 1
      <4>1. scan.n # Columns - 1 <=> scan.n < Columns - 1
        BY <2>1
      <4> QED BY <2>6, <2>9, <3>1, <4>1 DEF HitsZero
    <3>3. CASE bg = 0 \/ sprites[i].front
      <4>1. drawn' = [source |-> "sprite", colour |-> sprites[i].colour,
                      pixel |-> RightPixel(sprites[i], scan.line, scan.n)]
        BY <2>4, <2>9, <3>1, <3>3 DEF Mux
      <4>2. /\ drawn'.source = "sprite" /\ drawn'.colour = sprites[i].colour
            /\ drawn'.pixel = RightPixel(sprites[i], scan.line, scan.n)
        BY <4>1
      <4> QED BY <2>4, <2>7, <3>1, <3>2, <4>2
    <3>4. CASE bg # 0 /\ ~sprites[i].front
      <4>1. drawn'.source = "background"
        BY <2>4, <2>9, <3>1, <3>4 DEF Mux
      <4> QED BY <2>4, <2>7, <3>1, <3>2, <3>4, <4>1
    <3> QED BY <3>3, <3>4
  <2> QED BY <2>8, <2>9
<1>2. SpriteIInv /\ [SpritesNext]_spriteVars => [Draw /\ steady /\ Rendering => A]_spriteVars
  BY <1>1
<1>3. LinesShowTheirSprites <=> [][Draw /\ steady /\ Rendering => A]_spriteVars
  BY PTL DEF LinesShowTheirSprites, TopSprites
<1> HIDE DEF A
<1> QED BY SpritesBegin, SpritesKept, <1>2, <1>3, PTL DEF SpritesSpec

-----------------------------------------------------------------------------
(***************************************************************************)
(* The decoder and the bus.                                                *)
(***************************************************************************)
(* What the tables should say of an instruction: its base cycles in each   *)
(* mode, and whether a carry of the index costs one more.                  *)
LoadTimes == {<<"imm", 2>>, <<"zp", 3>>, <<"zpx", 4>>, <<"zpy", 4>>, <<"abs", 4>>,
              <<"abx", 4>>, <<"aby", 4>>, <<"izx", 6>>, <<"izy", 5>>}
StoreTimes == {<<"zp", 3>>, <<"zpx", 4>>, <<"zpy", 4>>, <<"abs", 4>>, <<"abx", 5>>,
               <<"aby", 5>>, <<"izx", 6>>, <<"izy", 6>>}
ModifyTimes == {<<"acc", 2>>, <<"zp", 5>>, <<"zpx", 6>>, <<"abs", 6>>, <<"abx", 7>>,
                <<"aby", 7>>, <<"izx", 8>>, <<"izy", 8>>}
HighTimes == {<<"abx", 5>>, <<"aby", 5>>, <<"izy", 6>>}
JumpTimes == {<<"JMP", "abs", 3>>, <<"JMP", "ind", 5>>, <<"PHA", "imp", 3>>,
              <<"PHP", "imp", 3>>, <<"PLA", "imp", 4>>, <<"PLP", "imp", 4>>,
              <<"JSR", "abs", 6>>, <<"RTS", "imp", 6>>, <<"RTI", "imp", 6>>,
              <<"BRK", "imp", 7>>, <<"JAM", "imp", 2>>}
Implied == {"CLC", "SEC", "CLI", "SEI", "CLV", "CLD", "SED", "TAX", "TAY", "TXA", "TYA",
            "TSX", "TXS", "INX", "INY", "DEX", "DEY", "NOP", "UNK"}

Sheet(m, mode, cycles, pays) ==
  \/ m \in Loads \cup {"NOP"} /\ <<mode, cycles>> \in LoadTimes /\ (pays <=> mode \in Indexed)
  \/ ~pays /\ \/ m \in Stores /\ <<mode, cycles>> \in StoreTimes
              \/ m \in Modifies /\ <<mode, cycles>> \in ModifyTimes
              \/ m \in HighStores /\ <<mode, cycles>> \in HighTimes
              \/ m \in Branches /\ mode = "rel" /\ cycles = 2
              \/ m \in Implied /\ mode = "imp" /\ cycles = 2
              \/ <<m, mode, cycles>> \in JumpTimes

OpcodeRow(r) ==
  \A c \in 1 .. 16 : Sheet(OpcodeMnemonics[r + 1][c], OpcodeModes[r + 1][c],
                           BaseCycles[r + 1][c], 16 * r + (c - 1) \in CrossSensitive)

(* The tables are those of the sheet. *)
LEMMA TablesAreRight ==
  ASSUME NEW o \in Opcodes
  PROVE  Sheet(OPCODES[o][1], OPCODES[o][2], INSTR_TABLE[o][1], INSTR_TABLE[o][2])
<1>1. \A r \in 0 .. 15 : OpcodeRow(r)
  <2> USE DEF OpcodeRow, OpcodeMnemonics, OpcodeModes, BaseCycles, CrossSensitive, Sheet, LoadTimes,
              StoreTimes, ModifyTimes, HighTimes, JumpTimes, Implied, Loads, Stores, Modifies,
              HighStores, Branches, Indexed
  <2>0. OpcodeRow(0)
    OBVIOUS
  <2>1. OpcodeRow(1)
    OBVIOUS
  <2>2. OpcodeRow(2)
    OBVIOUS
  <2>3. OpcodeRow(3)
    OBVIOUS
  <2>4. OpcodeRow(4)
    OBVIOUS
  <2>5. OpcodeRow(5)
    OBVIOUS
  <2>6. OpcodeRow(6)
    OBVIOUS
  <2>7. OpcodeRow(7)
    OBVIOUS
  <2>8. OpcodeRow(8)
    OBVIOUS
  <2>9. OpcodeRow(9)
    OBVIOUS
  <2>10. OpcodeRow(10)
    OBVIOUS
  <2>11. OpcodeRow(11)
    OBVIOUS
  <2>12. OpcodeRow(12)
    OBVIOUS
  <2>13. OpcodeRow(13)
    OBVIOUS
  <2>14. OpcodeRow(14)
    OBVIOUS
  <2>15. OpcodeRow(15)
    OBVIOUS
  <2> HIDE DEF OpcodeRow
  <2>16. \A r \in 0 .. 15 : \/ r = 0 \/ r = 1 \/ r = 2 \/ r = 3 \/ r = 4 \/ r = 5 \/ r = 6 \/ r = 7
                            \/ r = 8 \/ r = 9 \/ r = 10 \/ r = 11 \/ r = 12 \/ r = 13 \/ r = 14
                            \/ r = 15
    OBVIOUS
  <2> QED BY <2>0, <2>1, <2>2, <2>3, <2>4, <2>5, <2>6, <2>7, <2>8, <2>9, <2>10, <2>11, <2>12, <2>13,
             <2>14, <2>15, <2>16, Zenon
<1>2. PICK r \in 0 .. 15, c \in 1 .. 16 :
        r = o \div 16 /\ c = (o % 16) + 1 /\ 16 * r + (c - 1) = o
  BY DEF Opcodes
<1>3. OpRow(o) = r + 1 /\ OpColumn(o) = c
  BY <1>2 DEF OpRow, OpColumn
<1>4. PICK m, mode, n : /\ m = OpcodeMnemonics[r + 1][c] /\ mode = OpcodeModes[r + 1][c]
                       /\ n = BaseCycles[r + 1][c]
  OBVIOUS
<1>5. PICK pays : pays = (o \in CrossSensitive)
  OBVIOUS
<1>6. Sheet(m, mode, n, pays)
  <2>1. OpcodeRow(r)
    BY <1>1
  <2>2. Sheet(OpcodeMnemonics[r + 1][c], OpcodeModes[r + 1][c], BaseCycles[r + 1][c],
              16 * r + (c - 1) \in CrossSensitive)
    BY <2>1 DEF OpcodeRow
  <2> QED BY <1>2, <1>4, <1>5, <2>2
<1>7. OPCODES[o] = <<m, mode>> /\ INSTR_TABLE[o] = <<n, pays>>
  BY <1>3, <1>4, <1>5 DEF OPCODES, INSTR_TABLE
<1>8. OPCODES[o][1] = m /\ OPCODES[o][2] = mode /\ INSTR_TABLE[o][1] = n /\ INSTR_TABLE[o][2] = pays
  BY <1>7
<1> QED BY <1>6, <1>8

-----------------------------------------------------------------------------
(* Runs of accesses. *)
Bus == {"r", "w"} \X Int
IsRun(q, n) == q \in Seq(Bus) /\ Len(q) = n /\ n \in Nat

(* What a situation is made of. *)
LEMMA SituationTypes ==
  ASSUME NEW s \in Situations
  PROVE  /\ s.pc \in Nat /\ s.pc < 65536 /\ s.lo \in Nat /\ s.lo < 256 /\ s.hi \in Nat /\ s.hi < 256
         /\ s.plo \in Nat /\ s.plo < 256 /\ s.phi \in Nat /\ s.phi < 256
         /\ s.index \in Nat /\ s.index < 256 /\ s.sp \in Nat /\ s.reg \in Nat
<1>1. /\ s.pc \in Addresses /\ s.lo \in OperandBytes /\ s.hi \in PageBytes /\ s.plo \in OperandBytes
      /\ s.phi \in PageBytes /\ s.index \in Indexes /\ s.sp \in StackPointers /\ s.reg \in Stored
  BY DEF Situations
<1>2. /\ s.lo \in GivenBytes /\ s.hi \in GivenBytes /\ s.plo \in GivenBytes
      /\ s.phi \in GivenBytes /\ s.index \in GivenBytes
      /\ s.sp \in GivenBytes /\ s.reg \in GivenBytes
  BY <1>1 DEF GivenBytes
<1>3. \A b \in GivenBytes : b \in Nat /\ b < 256
  BY DecodeAssumption
<1>4. \A a \in Addresses : a \in Nat /\ a < 65536
  BY DecodeAssumption
<1> QED BY <1>1, <1>2, <1>3, <1>4

(* A run after a run. *)
LEMMA JoinedRuns ==
  ASSUME NEW p, NEW q, NEW m, NEW n, IsRun(p, m), IsRun(q, n)
  PROVE  IsRun(p \o q, m + n)
<1>1. p \in Seq(Bus) /\ q \in Seq(Bus) /\ m \in Nat /\ n \in Nat /\ Len(p) = m /\ Len(q) = n
  BY DEF IsRun
<1>2. p \o q \in Seq(Bus) /\ Len(p \o q) = Len(p) + Len(q)
  BY <1>1, ConcatProperties
<1> QED BY <1>1, <1>2 DEF IsRun

(* An access is a read or a write of an address. *)
LEMMA Singles ==
  /\ IsRun(<< >>, 0)
  /\ \A a \in Int : IsRun(<<Rd(a)>>, 1) /\ IsRun(<<Wr(a)>>, 1) /\ IsRun(<<Rd(a), Wr(a), Wr(a)>>, 3)
  /\ \A a, b \in Int : IsRun(<<Rd(a), Rd(b)>>, 2) /\ IsRun(<<Rd(a), Wr(b)>>, 2)
BY DEF IsRun, Bus, Rd, Wr

(* Fetches, pushes and pulls. *)
LEMMA Repeated ==
  ASSUME NEW s \in Situations, NEW n \in Nat
  PROVE  IsRun(Fetch(s, n), n) /\ IsRun(Pushes(s, n), n) /\ IsRun(Pops(s, n), n)
<1>1. s.pc \in Int /\ s.sp \in Int
  BY SituationTypes
<1>2. ASSUME NEW i \in 1 .. n
      PROVE  /\ Wrap16(s.pc + i) \in Int /\ 256 + Wrap8(s.sp - (i - 1)) \in Int
             /\ 256 + Wrap8(s.sp + i) \in Int
  BY <1>1 DEF Wrap16, Wrap8
<1>3. Fetch(s, n) \in [1 .. n -> Bus]
  BY <1>2 DEF Fetch, Bus, Rd
<1>4. Pushes(s, n) \in [1 .. n -> Bus]
  BY <1>2 DEF Pushes, Bus, Wr
<1>5. Pops(s, n) \in [1 .. n -> Bus]
  BY <1>2 DEF Pops, Bus, Rd
<1>6. ASSUME NEW f \in [1 .. n -> Bus] PROVE IsRun(f, n)
  BY <1>6 DEF IsRun
<1> QED BY <1>3, <1>4, <1>5, <1>6

(* The addresses of an operand are numbers. *)
LEMMA AddressesAreNumbers ==
  ASSUME NEW s \in Situations, NEW mode
  PROVE  /\ Base(mode, s) \in Nat /\ Target(mode, s) \in Nat
         /\ Uncarried(mode, s) \in Int /\ OperandAddr(mode, s) \in Int
<1>1. /\ s.lo \in Nat /\ s.hi \in Nat /\ s.plo \in Nat /\ s.phi \in Nat /\ s.index \in Nat
  BY SituationTypes
<1>2. PICK base \in Nat : base = Base(mode, s)
  BY <1>1 DEF Base, Word
<1>3. PICK t \in Nat : t = Target(mode, s)
  BY <1>1, <1>2 DEF Target, Wrap16
<1>4. Uncarried(mode, s) \in Int
  BY <1>2, <1>3 DEF Uncarried, Word, PageOf, Wrap8
<1>5. OperandAddr(mode, s) \in Int
  <2>1. Wrap8(s.lo + s.index) \in Int /\ Word(s.hi, s.lo) \in Int /\ Word(s.phi, s.plo) \in Int
    BY <1>1 DEF Wrap8, Word
  <2> QED BY <1>1, <1>3, <2>1 DEF OperandAddr
<1> QED BY <1>2, <1>3, <1>4, <1>5

-----------------------------------------------------------------------------
(* How many accesses an operand's address takes. *)
Carries(mode, s) == PageCrossed(Base(mode, s), Target(mode, s))
BaseLength(mode) == IF mode = "izy" THEN 3 ELSE 2
AddrLength(mode, s) ==
  IF mode \in Indexed THEN BaseLength(mode) + (IF Carries(mode, s) THEN 1 ELSE 0)
  ELSE IF mode = "zp" THEN 1 ELSE IF mode \in {"zpx", "zpy", "abs"} THEN 2
  ELSE IF mode \in {"ind", "izx"} THEN 4 ELSE 0
WriteLength(mode, s) == IF mode \in Indexed THEN BaseLength(mode) + 1 ELSE AddrLength(mode, s)

LEMMA AddressRuns ==
  ASSUME NEW s \in Situations, NEW mode
  PROVE  /\ IsRun(BaseFetch(mode, s), BaseLength(mode))
         /\ IsRun(AddrAccesses(mode, s), AddrLength(mode, s))
         /\ IsRun(WriteAddrAccesses(mode, s), WriteLength(mode, s))
<1>1. s.lo \in Nat /\ s.hi \in Nat /\ s.index \in Nat
  BY SituationTypes
<1>2. IsRun(Fetch(s, 1), 1) /\ IsRun(Fetch(s, 2), 2)
  BY Repeated
<1>9. IsRun(<<Rd(s.lo)>>, 1)
  <2>1. PICK a \in Int : a = s.lo
    BY <1>1
  <2>2. IsRun(<<Rd(a)>>, 1)
    BY Singles
  <2> QED BY <2>1, <2>2
<1>3. ASSUME NEW zp \in Int PROVE IsRun(ZeroPagePointer(zp), 2)
  <2>1. Wrap8(zp + 1) \in Int
    BY DEF Wrap8
  <2> QED BY <2>1, Singles DEF ZeroPagePointer
<1>4. IsRun(BaseFetch(mode, s), BaseLength(mode))
  <2>1. IsRun(ZeroPagePointer(s.lo), 2)
    BY <1>1, <1>3
  <2>2. IsRun(Fetch(s, 1) \o ZeroPagePointer(s.lo), 1 + 2)
    BY <1>2, <2>1, JoinedRuns
  <2> QED BY <1>2, <2>2 DEF BaseFetch, BaseLength
<1>5. PICK unc \in Int : unc = Uncarried(mode, s)
  BY AddressesAreNumbers
<1>6. BaseLength(mode) \in Nat
  BY DEF BaseLength
<1>7. IsRun(AddrAccesses(mode, s), AddrLength(mode, s))
  <2>1. CASE mode \in Indexed
    <3>1. PICK fix, n : /\ fix = IF Carries(mode, s) THEN <<Rd(unc)>> ELSE << >>
                        /\ n = IF Carries(mode, s) THEN 1 ELSE 0
      OBVIOUS
    <3>2. IsRun(fix, n)
      BY <3>1, Singles
    <3>3. AddrAccesses(mode, s) = BaseFetch(mode, s) \o fix
      BY <1>5, <2>1, <3>1 DEF AddrAccesses, Carries, Indexed
    <3>4. AddrLength(mode, s) = BaseLength(mode) + n
      BY <2>1, <3>1 DEF AddrLength
    <3> QED BY <1>4, <3>2, <3>3, <3>4, JoinedRuns
  <2>2. CASE mode = "zp"
    BY <1>2, <2>2 DEF AddrAccesses, AddrLength, Indexed
  <2>3. CASE mode \in {"zpx", "zpy"}
    <3>1. IsRun(Fetch(s, 1) \o <<Rd(s.lo)>>, 1 + 1)
      BY <1>2, <1>9, JoinedRuns
    <3> QED BY <2>3, <3>1 DEF AddrAccesses, AddrLength, Indexed
  <2>4. CASE mode = "abs"
    BY <1>2, <2>4 DEF AddrAccesses, AddrLength, Indexed
  <2>5. CASE mode = "ind"
    <3>1. PICK a \in Int, b \in Int : a = Word(s.hi, s.lo) /\ b = Word(s.hi, Wrap8(s.lo + 1))
      BY <1>1 DEF Word, Wrap8
    <3>2. IsRun(Fetch(s, 2) \o <<Rd(a), Rd(b)>>, 2 + 2)
      BY <1>2, Singles, JoinedRuns
    <3> QED BY <2>5, <3>1, <3>2 DEF AddrAccesses, AddrLength, Indexed
  <2>6. CASE mode = "izx"
    <3>1. IsRun(Fetch(s, 1) \o <<Rd(s.lo)>>, 1 + 1)
      BY <1>2, <1>9, JoinedRuns
    <3>2. IsRun(ZeroPagePointer(Wrap8(s.lo + s.index)), 2)
      BY <1>1, <1>3 DEF Wrap8
    <3>3. IsRun((Fetch(s, 1) \o <<Rd(s.lo)>>) \o ZeroPagePointer(Wrap8(s.lo + s.index)),
                (1 + 1) + 2)
      BY <3>1, <3>2, JoinedRuns
    <3> QED BY <2>6, <3>3 DEF AddrAccesses, AddrLength, Indexed
  <2>7. CASE mode \notin Indexed \cup {"zp", "zpx", "zpy", "abs", "ind", "izx"}
    <3>1. IsRun(<< >>, 0)
      BY Singles
    <3> QED BY <2>7, <3>1 DEF AddrAccesses, AddrLength, Indexed
  <2> QED BY <2>1, <2>2, <2>3, <2>4, <2>5, <2>6, <2>7
<1>8. IsRun(WriteAddrAccesses(mode, s), WriteLength(mode, s))
  <2>1. IsRun(BaseFetch(mode, s) \o <<Rd(unc)>>, BaseLength(mode) + 1)
    BY <1>4, Singles, JoinedRuns
  <2> QED BY <1>5, <1>7, <2>1 DEF WriteAddrAccesses, WriteLength
<1> QED BY <1>4, <1>7, <1>8

(* How many accesses each kind of instruction makes after its opcode. *)
ReadLength(mode, s) == IF mode = "imm" THEN 1 ELSE AddrLength(mode, s) + 1
ModifyLength(mode, s) == IF mode = "acc" THEN 0 ELSE WriteLength(mode, s) + 3

(* What a store and a pull do on the bus. *)
StoreAccesses(mode, s) == WriteAddrAccesses(mode, s) \o <<Wr(OperandAddr(mode, s))>>
PullAccesses(s) == <<Rd(StackTop(s))>> \o Pops(s, 1)

LEMMA OperandRuns ==
  ASSUME NEW s \in Situations, NEW mode
  PROVE  /\ IsRun(ReadOperand(mode, s), ReadLength(mode, s))
         /\ IsRun(StoreAccesses(mode, s), WriteLength(mode, s) + 1)
         /\ IsRun(Rmw(mode, s), ModifyLength(mode, s))
         /\ IsRun(StoreHighAnd(mode, s), BaseLength(mode) + 2)
<1>1. PICK a \in Int, unc \in Int : a = OperandAddr(mode, s) /\ unc = Uncarried(mode, s)
  BY AddressesAreNumbers
<1>2. /\ IsRun(BaseFetch(mode, s), BaseLength(mode))
      /\ IsRun(AddrAccesses(mode, s), AddrLength(mode, s))
      /\ IsRun(WriteAddrAccesses(mode, s), WriteLength(mode, s))
  BY AddressRuns
<1>3. IsRun(ReadOperand(mode, s), ReadLength(mode, s))
  <2>1. IsRun(Fetch(s, 1), 1)
    BY Repeated
  <2>2. IsRun(AddrAccesses(mode, s) \o <<Rd(a)>>, AddrLength(mode, s) + 1)
    BY <1>2, Singles, JoinedRuns
  <2> QED BY <1>1, <2>1, <2>2 DEF ReadOperand, ReadLength
<1>4. IsRun(StoreAccesses(mode, s), WriteLength(mode, s) + 1)
  <2>1. IsRun(WriteAddrAccesses(mode, s) \o <<Wr(a)>>, WriteLength(mode, s) + 1)
    BY <1>2, Singles, JoinedRuns
  <2> QED BY <1>1, <2>1 DEF StoreAccesses
<1>5. IsRun(Rmw(mode, s), ModifyLength(mode, s))
  <2>1. IsRun(<<Rd(a), Wr(a), Wr(a)>>, 3)
    BY Singles
  <2>2. IsRun(WriteAddrAccesses(mode, s) \o <<Rd(a), Wr(a), Wr(a)>>, WriteLength(mode, s) + 3)
    BY <1>2, <2>1, JoinedRuns
  <2>3. IsRun(<< >>, 0)
    BY Singles
  <2> QED BY <1>1, <2>2, <2>3 DEF Rmw, ModifyLength
<1>6. IsRun(StoreHighAnd(mode, s), BaseLength(mode) + 2)
  <2>1. PICK base \in Nat, t \in Nat : base = Base(mode, s) /\ t = Target(mode, s)
    BY AddressesAreNumbers
  <2>2. PICK above \in Nat : above = Wrap8(PageOf(base) + 1)
    BY DEF Wrap8, PageOf
  <2>3. s.reg \in Nat
    BY SituationTypes
  <2>4. PICK result \in Nat : result = BitAnd(s.reg, above)
    BY <2>3, BitwiseNat
  <2>5. PICK b \in Int : b = IF PageCrossed(base, t) THEN Word(result, Wrap8(t)) ELSE t
    <3>1. Word(result, Wrap8(t)) \in Int
      BY DEF Word, Wrap8
    <3> QED BY <3>1
  <2>6. StoreHighAnd(mode, s) = BaseFetch(mode, s) \o <<Rd(unc), Wr(b)>>
    BY <1>1, <2>1, <2>2, <2>4, <2>5 DEF StoreHighAnd
  <2>7. IsRun(<<Rd(unc), Wr(b)>>, 2)
    BY Singles
  <2> QED BY <1>2, <2>6, <2>7, JoinedRuns
<1> QED BY <1>1, <1>3, <1>4, <1>5, <1>6

LEMMA BranchRuns ==
  ASSUME NEW s \in Situations
  PROVE  IsRun(Branch(s), 1 + BranchExtra(s)) /\ BranchExtra(s) \in Nat
<1>1. s.pc \in Nat /\ s.lo \in Nat
  BY SituationTypes
<1>2. PICK next \in Int : next = Wrap16(s.pc + 2)
  BY <1>1 DEF Wrap16
<1>3. PICK to \in Int : to = BranchTo(s)
  <2>1. PICK by \in Int : by = Signed(s.lo)
    BY <1>1 DEF Signed
  <2> QED BY <1>1, <2>1 DEF BranchTo, Wrap16
<1>4. PICK fix \in Int : fix = Word(PageOf(next), Wrap8(to))
  BY DEF Word, PageOf, Wrap8
<1>5. IsRun(Fetch(s, 1), 1)
  BY Repeated
<1>6. IsRun(<< >>, 0) /\ IsRun(<<Rd(next)>>, 1) /\ IsRun(<<Rd(fix)>>, 1)
  BY Singles
<1>7. IsRun(<<Rd(next)>> \o <<Rd(fix)>>, 1 + 1) /\ IsRun(<<Rd(next)>> \o << >>, 1 + 0)
  BY <1>6, JoinedRuns
<1>8. PICK crosses : crosses = PageCrossed(next, to)
  OBVIOUS
<1>9. Branch(s) = Fetch(s, 1) \o (IF ~s.take THEN << >>
                                ELSE <<Rd(next)>> \o IF crosses THEN <<Rd(fix)>> ELSE << >>)
  BY <1>2, <1>3, <1>4, <1>8 DEF Branch
<1>10. BranchExtra(s) = IF ~s.take THEN 0 ELSE IF crosses THEN 2 ELSE 1
  BY <1>2, <1>3, <1>8 DEF BranchExtra
<1>11. PICK rest : rest = IF ~s.take THEN << >>
                         ELSE <<Rd(next)>> \o IF crosses THEN <<Rd(fix)>> ELSE << >>
  OBVIOUS
<1>12. IsRun(rest, BranchExtra(s))
  <2>1. CASE ~s.take
    BY <1>6, <1>10, <1>11, <2>1
  <2>2. CASE s.take /\ crosses
    BY <1>7, <1>10, <1>11, <2>2
  <2>3. CASE s.take /\ ~crosses
    BY <1>7, <1>10, <1>11, <2>3
  <2> QED BY <2>1, <2>2, <2>3
<1>13. IsRun(Fetch(s, 1) \o rest, 1 + BranchExtra(s))
  BY <1>5, <1>12, JoinedRuns
<1>14. Branch(s) = Fetch(s, 1) \o rest
  BY <1>9, <1>11
<1>15. BranchExtra(s) \in Nat
  BY <1>10
<1> QED BY <1>13, <1>14, <1>15

(* The kinds of instructions exclude each other. *)
LEMMA Bodies ==
  ASSUME NEW m, NEW mode, NEW s
  PROVE  /\ m \in Loads => Body(m, mode, s) = ReadOperand(mode, s)
         /\ m = "NOP" /\ mode # "imp" => Body(m, mode, s) = ReadOperand(mode, s)
         /\ m \in Stores => Body(m, mode, s) = StoreAccesses(mode, s)
         /\ m \in Modifies => Body(m, mode, s) = Rmw(mode, s)
         /\ m \in HighStores => Body(m, mode, s) = StoreHighAnd(mode, s)
         /\ m \in Branches => Body(m, mode, s) = Branch(s)
         /\ m \in Implied /\ mode = "imp" => Body(m, mode, s) = << >>
         /\ m = "JAM" => Body(m, mode, s) = << >>
         /\ m = "JMP" => Body(m, mode, s) = AddrAccesses(mode, s)
         /\ m \in {"PHA", "PHP"} => Body(m, mode, s) = Pushes(s, 1)
         /\ m \in {"PLA", "PLP"} => Body(m, mode, s) = PullAccesses(s)
<1> USE DEF Body, Loads, Stores, Modifies, HighStores, Branches, Implied
<1>1. m \in Loads => Body(m, mode, s) = ReadOperand(mode, s)
  OBVIOUS
<1>2. m = "NOP" /\ mode # "imp" => Body(m, mode, s) = ReadOperand(mode, s)
  OBVIOUS
<1>3. m \in Stores => Body(m, mode, s) = StoreAccesses(mode, s)
  BY DEF StoreAccesses
<1>4. m \in Modifies => Body(m, mode, s) = Rmw(mode, s)
  OBVIOUS
<1>5. m \in HighStores => Body(m, mode, s) = StoreHighAnd(mode, s)
  OBVIOUS
<1>6. m \in Branches => Body(m, mode, s) = Branch(s)
  OBVIOUS
<1>7. m \in Implied /\ mode = "imp" => Body(m, mode, s) = << >>
  OBVIOUS
<1>8. m = "JAM" => Body(m, mode, s) = << >>
  OBVIOUS
<1>9. m = "JMP" => Body(m, mode, s) = AddrAccesses(mode, s)
  OBVIOUS
<1>10. m \in {"PHA", "PHP"} => Body(m, mode, s) = Pushes(s, 1)
  OBVIOUS
<1>11. m \in {"PLA", "PLP"} => Body(m, mode, s) = PullAccesses(s)
  BY DEF PullAccesses
<1> HIDE DEF Body, Loads, Stores, Modifies, HighStores, Branches, Implied
<1> QED BY <1>1, <1>2, <1>3, <1>4, <1>5, <1>6, <1>7, <1>8, <1>9, <1>10, <1>11

LEMMA StackBodies ==
  ASSUME NEW mode, NEW s
  PROVE  /\ Body("JSR", mode, s) = Fetch(s, 1) \o <<Rd(StackTop(s))>> \o Pushes(s, 2)
                                   \o <<Rd(Wrap16(s.pc + 2))>>
         /\ Body("RTS", mode, s) = <<Rd(StackTop(s))>> \o Pops(s, 2)
                                   \o <<Rd(Word(s.phi, s.plo))>>
         /\ Body("RTI", mode, s) = <<Rd(StackTop(s))>> \o Pops(s, 3)
         /\ \E v \in Int : Body("BRK", mode, s) = Fetch(s, 1) \o InterruptAccesses(s, v)
<1> USE DEF Body, Loads, Stores, Modifies, HighStores, Branches
<1>1. Body("JSR", mode, s) = Fetch(s, 1) \o <<Rd(StackTop(s))>> \o Pushes(s, 2)
                             \o <<Rd(Wrap16(s.pc + 2))>>
  BY SMT
<1>2. Body("RTS", mode, s) = <<Rd(StackTop(s))>> \o Pops(s, 2) \o <<Rd(Word(s.phi, s.plo))>>
  BY SMT
<1>3. Body("RTI", mode, s) = <<Rd(StackTop(s))>> \o Pops(s, 3)
  BY SMT
<1>4. \E v \in Int : Body("BRK", mode, s) = Fetch(s, 1) \o InterruptAccesses(s, v)
  <2>1. \A v : v = \hFFFE => Body("BRK", mode, s) = Fetch(s, 1) \o InterruptAccesses(s, v)
    BY SMT
  <2>2. \E v \in Int : v = \hFFFE
    BY SMT
  <2> HIDE DEF Body
  <2> QED BY <2>1, <2>2, SMT
<1> HIDE DEF Body, Loads, Stores, Modifies, HighStores, Branches
<1> QED BY <1>1, <1>2, <1>3, <1>4

LEMMA StackRuns ==
  ASSUME NEW s \in Situations, NEW mode
  PROVE  /\ IsRun(Pushes(s, 1), 1) /\ IsRun(PullAccesses(s), 2)
         /\ IsRun(Body("JSR", mode, s), 5) /\ IsRun(Body("RTS", mode, s), 4)
         /\ IsRun(Body("RTI", mode, s), 4) /\ IsRun(Body("BRK", mode, s), 6)
<1>1. /\ IsRun(Pushes(s, 1), 1) /\ IsRun(Pushes(s, 2), 2) /\ IsRun(Pushes(s, 3), 3)
      /\ IsRun(Pops(s, 1), 1) /\ IsRun(Pops(s, 2), 2) /\ IsRun(Pops(s, 3), 3)
      /\ IsRun(Fetch(s, 1), 1)
  BY Repeated
<1>2. s.sp \in Nat /\ s.pc \in Nat /\ s.phi \in Nat /\ s.plo \in Nat
  BY SituationTypes
<1>3. PICK top \in Int, next \in Int, back \in Int :
        top = StackTop(s) /\ next = Wrap16(s.pc + 2) /\ back = Word(s.phi, s.plo)
  BY <1>2 DEF StackTop, Wrap16, Word
<1>4. IsRun(<<Rd(top)>>, 1) /\ IsRun(<<Rd(next)>>, 1) /\ IsRun(<<Rd(back)>>, 1)
  BY Singles
<1>5. /\ IsRun(<<Rd(top)>> \o Pops(s, 1), 1 + 1) /\ IsRun(<<Rd(top)>> \o Pops(s, 2), 1 + 2)
      /\ IsRun(<<Rd(top)>> \o Pops(s, 3), 1 + 3)
  BY <1>1, <1>4, JoinedRuns
<1>6. IsRun(Body("RTS", mode, s), 4)
  <2>1. IsRun((<<Rd(top)>> \o Pops(s, 2)) \o <<Rd(back)>>, (1 + 2) + 1)
    BY <1>4, <1>5, JoinedRuns
  <2>2. Body("RTS", mode, s) = (<<Rd(top)>> \o Pops(s, 2)) \o <<Rd(back)>>
    BY <1>3, StackBodies, Zenon
  <2>3. IsRun((<<Rd(top)>> \o Pops(s, 2)) \o <<Rd(back)>>, 4)
    BY <2>1
  <2> QED BY <2>2, <2>3, Zenon
<1>7. IsRun(Body("JSR", mode, s), 5)
  <2>1. IsRun(Fetch(s, 1) \o <<Rd(top)>>, 1 + 1)
    BY <1>1, <1>4, JoinedRuns
  <2>2. IsRun((Fetch(s, 1) \o <<Rd(top)>>) \o Pushes(s, 2), (1 + 1) + 2)
    BY <1>1, <2>1, JoinedRuns
  <2>3. IsRun(((Fetch(s, 1) \o <<Rd(top)>>) \o Pushes(s, 2)) \o <<Rd(next)>>, ((1 + 1) + 2) + 1)
    BY <1>4, <2>2, JoinedRuns
  <2>4. Body("JSR", mode, s) = ((Fetch(s, 1) \o <<Rd(top)>>) \o Pushes(s, 2)) \o <<Rd(next)>>
    BY <1>3, StackBodies, Zenon
  <2>5. IsRun(((Fetch(s, 1) \o <<Rd(top)>>) \o Pushes(s, 2)) \o <<Rd(next)>>, 5)
    BY <2>3
  <2> QED BY <2>4, <2>5, Zenon
<1>8. IsRun(Body("RTI", mode, s), 4)
  <2>1. Body("RTI", mode, s) = <<Rd(top)>> \o Pops(s, 3)
    BY <1>3, StackBodies, Zenon
  <2>2. IsRun(<<Rd(top)>> \o Pops(s, 3), 4)
    BY <1>5
  <2> QED BY <2>1, <2>2, Zenon
<1>9. IsRun(Body("BRK", mode, s), 6)
  <2>1. PICK v \in Int : Body("BRK", mode, s) = Fetch(s, 1) \o InterruptAccesses(s, v)
    BY StackBodies, Zenon
  <2>2. IsRun(<<Rd(v), Rd(v + 1)>>, 2)
    <3>1. PICK w \in Int : w = v + 1
      OBVIOUS
    <3>2. IsRun(<<Rd(v), Rd(w)>>, 2)
      BY Singles
    <3> QED BY <3>1, <3>2
  <2>3. IsRun(Pushes(s, 3) \o <<Rd(v), Rd(v + 1)>>, 3 + 2)
    BY <1>1, <2>2, JoinedRuns
  <2>4. IsRun(Fetch(s, 1) \o InterruptAccesses(s, v), 1 + (3 + 2))
    BY <1>1, <2>3, JoinedRuns DEF InterruptAccesses
  <2>5. IsRun(Fetch(s, 1) \o InterruptAccesses(s, v), 6)
    BY <2>4
  <2> QED BY <2>1, <2>5, Zenon
<1>10. IsRun(PullAccesses(s), 2)
  BY <1>3, <1>5 DEF PullAccesses
<1> QED BY <1>1, <1>6, <1>7, <1>8, <1>9, <1>10

(* What is counted besides the table's cycles: the read of the byte after an *)
(* opcode of one byte, the carry, a taken branch, and JAM's cycle more.      *)
PeekLength(m, mode) == IF mode \in {"imp", "acc"} /\ m \notin {"BRK", "JAM"} THEN 1 ELSE 0
CarryLength(mode, pays, s) == IF pays /\ mode \in Indexed /\ Carries(mode, s) THEN 1 ELSE 0
TakenLength(m, s) == IF m \in Branches THEN BranchExtra(s) ELSE 0
JamLength(m) == IF m = "JAM" THEN 1 ELSE 0

LEMMA Kinds ==
  ASSUME NEW m
  PROVE  /\ m \in Loads \cup {"NOP"} \cup Stores \cup Modifies \cup HighStores \cup Implied
              => m \notin Branches /\ m # "JAM" /\ m # "BRK"
         /\ m \in Branches => m # "JAM" /\ m # "BRK"
         /\ \A mode, n : <<m, mode, n>> \in JumpTimes => m \notin Branches
<1> USE DEF Loads, Stores, Modifies, HighStores, Branches, Implied, JumpTimes
<1>1. m \in Loads \cup {"NOP"} \cup Stores \cup Modifies \cup HighStores \cup Implied
        => m \notin Branches /\ m # "JAM" /\ m # "BRK"
  OBVIOUS
<1>2. m \in Branches => m # "JAM" /\ m # "BRK"
  OBVIOUS
<1>3. \A mode, n : <<m, mode, n>> \in JumpTimes => m \notin Branches
  OBVIOUS
<1> HIDE DEF Loads, Stores, Modifies, HighStores, Branches, Implied, JumpTimes
<1> QED BY <1>1, <1>2, <1>3

LEMMA BodyRuns ==
  ASSUME NEW s \in Situations, NEW m, NEW mode, NEW n, NEW pays, Sheet(m, mode, n, pays),
         NEW len, len = (((n + TakenLength(m, s)) + CarryLength(mode, pays, s)) - JamLength(m))
                         - (1 + PeekLength(m, mode))
  PROVE  IsRun(Body(m, mode, s), len)
<1>1. PICK body : body = Body(m, mode, s)
  OBVIOUS
<1>2. PICK carries : carries = Carries(mode, s)
  OBVIOUS
<1>3. CASE m \in Loads \cup {"NOP"} /\ <<mode, n>> \in LoadTimes /\ (pays <=> mode \in Indexed)
  <2>1. TakenLength(m, s) = 0 /\ JamLength(m) = 0
    BY <1>3, Kinds DEF TakenLength, JamLength
  <2>2. PeekLength(m, mode) = 0 /\ mode # "imp"
    BY <1>3 DEF LoadTimes, PeekLength
  <2>3. len = (n + (IF mode \in Indexed /\ carries THEN 1 ELSE 0)) - 1
    BY <1>2, <1>3, <2>1, <2>2 DEF LoadTimes, CarryLength
  <2>4. len = ReadLength(mode, s)
    BY <1>2, <1>3, <2>3 DEF LoadTimes, ReadLength, AddrLength, BaseLength, Indexed
  <2>5. body = ReadOperand(mode, s)
    BY <1>1, <1>3, <2>2, Bodies
  <2> QED BY <1>1, <2>4, <2>5, OperandRuns, Zenon
<1>4. CASE ~pays
  <2>1. CarryLength(mode, pays, s) = 0
    BY <1>4 DEF CarryLength
  <2>2. CASE m \in Stores /\ <<mode, n>> \in StoreTimes
    <3>1. TakenLength(m, s) = 0 /\ JamLength(m) = 0
      BY <2>2, Kinds DEF TakenLength, JamLength
    <3>2. PeekLength(m, mode) = 0
      BY <2>2 DEF StoreTimes, PeekLength
    <3>3. len = n - 1
      BY <2>1, <2>2, <3>1, <3>2 DEF StoreTimes
    <3>4. len = WriteLength(mode, s) + 1
      BY <2>2, <3>3 DEF StoreTimes, WriteLength, AddrLength, BaseLength, Indexed
    <3>5. body = StoreAccesses(mode, s)
      BY <1>1, <2>2, Bodies
    <3> QED BY <1>1, <3>4, <3>5, OperandRuns, Zenon
  <2>3. CASE m \in Modifies /\ <<mode, n>> \in ModifyTimes
    <3>1. TakenLength(m, s) = 0 /\ JamLength(m) = 0 /\ m # "JAM" /\ m # "BRK"
      BY <2>3, Kinds DEF TakenLength, JamLength
    <3>2. PeekLength(m, mode) = IF mode = "acc" THEN 1 ELSE 0
      BY <2>3, <3>1 DEF ModifyTimes, PeekLength
    <3>3. len = (n - 1) - (IF mode = "acc" THEN 1 ELSE 0)
      BY <2>1, <2>3, <3>1, <3>2 DEF ModifyTimes
    <3>4. len = ModifyLength(mode, s)
      BY <2>3, <3>3 DEF ModifyTimes, ModifyLength, WriteLength, AddrLength, BaseLength, Indexed
    <3>5. body = Rmw(mode, s)
      BY <1>1, <2>3, Bodies
    <3> QED BY <1>1, <3>4, <3>5, OperandRuns, Zenon
  <2>4. CASE m \in HighStores /\ <<mode, n>> \in HighTimes
    <3>1. TakenLength(m, s) = 0 /\ JamLength(m) = 0
      BY <2>4, Kinds DEF TakenLength, JamLength
    <3>2. PeekLength(m, mode) = 0
      BY <2>4 DEF HighTimes, PeekLength
    <3>3. len = n - 1
      BY <2>1, <2>4, <3>1, <3>2 DEF HighTimes
    <3>4. len = BaseLength(mode) + 2
      BY <2>4, <3>3 DEF HighTimes, BaseLength
    <3>5. body = StoreHighAnd(mode, s)
      BY <1>1, <2>4, Bodies
    <3> QED BY <1>1, <3>4, <3>5, OperandRuns, Zenon
  <2>5. CASE m \in Branches /\ mode = "rel" /\ n = 2
    <3>1. TakenLength(m, s) = BranchExtra(s) /\ JamLength(m) = 0
      BY <2>5, Kinds DEF TakenLength, JamLength
    <3>2. PeekLength(m, mode) = 0
      BY <2>5 DEF PeekLength
    <3>3. BranchExtra(s) \in Nat
      BY BranchRuns
    <3>4. len = 1 + BranchExtra(s)
      BY <2>1, <2>5, <3>1, <3>2, <3>3
    <3>5. body = Branch(s)
      BY <1>1, <2>5, Bodies
    <3> QED BY <1>1, <3>4, <3>5, BranchRuns, Zenon
  <2>6. CASE m \in Implied /\ mode = "imp" /\ n = 2
    <3>1. TakenLength(m, s) = 0 /\ JamLength(m) = 0 /\ m # "JAM" /\ m # "BRK"
      BY <2>6, Kinds DEF TakenLength, JamLength
    <3>2. PeekLength(m, mode) = 1
      BY <2>6, <3>1 DEF PeekLength
    <3>3. len = 0
      BY <2>1, <2>6, <3>1, <3>2
    <3>4. body = << >>
      BY <1>1, <2>6, Bodies
    <3> QED BY <1>1, <3>3, <3>4, Singles, Zenon
  <2>7. CASE <<m, mode, n>> \in JumpTimes
    <3>1. TakenLength(m, s) = 0
      BY <2>7, Kinds DEF TakenLength
    <3>2. CASE m = "JMP"
      <4>1. JamLength(m) = 0 /\ PeekLength(m, mode) = 0
            /\ (<<mode, n>> = <<"abs", 3>> \/ <<mode, n>> = <<"ind", 5>>)
        BY <2>7, <3>2 DEF JumpTimes, JamLength, PeekLength
      <4>2. len = n - 1
        BY <2>1, <3>1, <4>1
      <4>3. len = AddrLength(mode, s)
        BY <4>1, <4>2 DEF AddrLength, Indexed
      <4>4. body = AddrAccesses(mode, s)
        BY <1>1, <3>2, Bodies
      <4> QED BY <1>1, <4>3, <4>4, AddressRuns, Zenon
    <3>3. CASE m = "JAM"
      <4>1. JamLength(m) = 1 /\ PeekLength(m, mode) = 0 /\ n = 2
        BY <2>7, <3>3 DEF JumpTimes, JamLength, PeekLength
      <4>2. len = 0
        BY <2>1, <3>1, <4>1
      <4>3. body = << >>
        BY <1>1, <3>3, Bodies
      <4> QED BY <1>1, <4>2, <4>3, Singles, Zenon
    <3>4. CASE m \in {"PHA", "PHP"}
      <4>1. JamLength(m) = 0 /\ PeekLength(m, mode) = 1 /\ n = 3
        BY <2>7, <3>4 DEF JumpTimes, JamLength, PeekLength
      <4>2. len = 1
        BY <2>1, <3>1, <4>1
      <4>3. body = Pushes(s, 1)
        BY <1>1, <3>4, Bodies
      <4> QED BY <1>1, <4>2, <4>3, StackRuns, Zenon
    <3>5. CASE m \in {"PLA", "PLP"}
      <4>1. JamLength(m) = 0 /\ PeekLength(m, mode) = 1 /\ n = 4
        BY <2>7, <3>5 DEF JumpTimes, JamLength, PeekLength
      <4>2. len = 2
        BY <2>1, <3>1, <4>1
      <4>3. body = PullAccesses(s)
        BY <1>1, <3>5, Bodies
      <4> QED BY <1>1, <4>2, <4>3, StackRuns, Zenon
    <3>6. CASE m = "JSR"
      <4>1. JamLength(m) = 0 /\ PeekLength(m, mode) = 0 /\ n = 6
        BY <2>7, <3>6 DEF JumpTimes, JamLength, PeekLength
      <4>2. len = 5
        BY <2>1, <3>1, <4>1
      <4> QED BY <3>6, <4>2, StackRuns, Zenon
    <3>7. CASE m = "RTS"
      <4>1. JamLength(m) = 0 /\ PeekLength(m, mode) = 1 /\ n = 6
        BY <2>7, <3>7 DEF JumpTimes, JamLength, PeekLength
      <4>2. len = 4
        BY <2>1, <3>1, <4>1
      <4> QED BY <3>7, <4>2, StackRuns, Zenon
    <3>8. CASE m = "RTI"
      <4>1. JamLength(m) = 0 /\ PeekLength(m, mode) = 1 /\ n = 6
        BY <2>7, <3>8 DEF JumpTimes, JamLength, PeekLength
      <4>2. len = 4
        BY <2>1, <3>1, <4>1
      <4> QED BY <3>8, <4>2, StackRuns, Zenon
    <3>9. CASE m = "BRK"
      <4>1. JamLength(m) = 0 /\ PeekLength(m, mode) = 0 /\ n = 7
        BY <2>7, <3>9 DEF JumpTimes, JamLength, PeekLength
      <4>2. len = 6
        BY <2>1, <3>1, <4>1
      <4> QED BY <3>9, <4>2, StackRuns, Zenon
    <3>10. m \in {"JMP", "JAM", "PHA", "PHP", "PLA", "PLP", "JSR", "RTS", "RTI", "BRK"}
      BY <2>7 DEF JumpTimes
    <3> QED BY <3>2, <3>3, <3>4, <3>5, <3>6, <3>7, <3>8, <3>9, <3>10
  <2>8. \/ m \in Loads \cup {"NOP"} /\ <<mode, n>> \in LoadTimes /\ (pays <=> mode \in Indexed)
        \/ m \in Stores /\ <<mode, n>> \in StoreTimes
        \/ m \in Modifies /\ <<mode, n>> \in ModifyTimes
        \/ m \in HighStores /\ <<mode, n>> \in HighTimes
        \/ m \in Branches /\ mode = "rel" /\ n = 2
        \/ m \in Implied /\ mode = "imp" /\ n = 2
        \/ <<m, mode, n>> \in JumpTimes
    BY DEF Sheet
  <2> QED BY <1>3, <2>2, <2>3, <2>4, <2>5, <2>6, <2>7, <2>8
<1> QED BY <1>3, <1>4 DEF Sheet

(* An instruction makes as many accesses as it reports cycles, but for JAM. *)
LEMMA AccessesAreCycles ==
  ASSUME NEW s \in Situations, NEW o \in Opcodes
  PROVE  IsRun(Accesses(o, s), Cycles(o, s) - JamLength(OPCODES[o][1]))
<1>1. PICK m, mode, n, pays : /\ m = OPCODES[o][1] /\ mode = OPCODES[o][2]
                              /\ n = INSTR_TABLE[o][1] /\ pays = INSTR_TABLE[o][2]
  OBVIOUS
<1>2. Sheet(m, mode, n, pays)
  BY <1>1, TablesAreRight
<1>3. n \in Nat
  BY <1>2 DEF Sheet, LoadTimes, StoreTimes, ModifyTimes, HighTimes, JumpTimes
<1>4. PICK taken \in Nat, carry \in Nat, jam \in Nat, peek \in Nat :
        /\ taken = TakenLength(m, s) /\ carry = CarryLength(mode, pays, s)
        /\ jam = JamLength(m) /\ peek = PeekLength(m, mode)
  BY BranchRuns DEF TakenLength, CarryLength, JamLength, PeekLength
<1>5. Cycles(o, s) = (n + taken) + carry
  <2>1. Cycles(o, s) = n + (IF m \in Branches THEN BranchExtra(s) ELSE 0)
                         + (IF pays /\ mode \in Indexed /\ Carries(mode, s) THEN 1 ELSE 0)
    BY <1>1 DEF Cycles, Carries
  <2> QED BY <1>4, <2>1 DEF TakenLength, CarryLength
<1>6. PICK len : len = (((n + taken) + carry) - jam) - (1 + peek)
  OBVIOUS
<1>7. IsRun(Body(m, mode, s), len)
  BY <1>2, <1>4, <1>6, BodyRuns
<1>8. len \in Nat
  BY <1>7 DEF IsRun
<1>9. PICK first : first = IF mode \in {"imp", "acc"} /\ m \notin {"BRK", "JAM"}
                          THEN Fetch(s, 1) ELSE << >>
  OBVIOUS
<1>10. IsRun(first, peek)
  BY <1>4, <1>9, Repeated, Singles DEF PeekLength
<1>11. IsRun(<<Rd(s.pc)>>, 1)
  <2>1. PICK pc \in Int : pc = s.pc
    BY SituationTypes
  <2>2. IsRun(<<Rd(pc)>>, 1)
    BY Singles
  <2> QED BY <2>1, <2>2
<1>12. Accesses(o, s) = (<<Rd(s.pc)>> \o first) \o Body(m, mode, s)
  BY <1>1, <1>9 DEF Accesses
<1>13. IsRun((<<Rd(s.pc)>> \o first) \o Body(m, mode, s), (1 + peek) + len)
  BY <1>7, <1>10, <1>11, JoinedRuns
<1>14. (1 + peek) + len = ((n + taken) + carry) - jam
  BY <1>3, <1>4, <1>6, <1>8
<1> QED BY <1>1, <1>4, <1>5, <1>12, <1>13, <1>14, Zenon

(* What follows a run. *)
LEMMA Behind ==
  ASSUME NEW p, NEW q, NEW m, NEW n, IsRun(p, m), IsRun(q, n)
  PROVE  SubSeq(p \o q, m + 1, Len(p \o q)) = q
<1>1. p \in Seq(Bus) /\ q \in Seq(Bus) /\ m \in Nat /\ n \in Nat /\ Len(p) = m /\ Len(q) = n
  BY DEF IsRun
<1>2. PICK both : both = p \o q
  OBVIOUS
<1>3. /\ both \in Seq(Bus) /\ Len(both) = m + n
      /\ \A i \in 1 .. m + n : both[i] = IF i <= m THEN p[i] ELSE q[i - m]
  BY <1>1, <1>2, ConcatProperties
<1>4. \A i \in m + 1 .. m + n : both[i] \in Bus
  BY <1>1, <1>3, ElementOfSeq
<1>5. PICK rest : rest = SubSeq(both, m + 1, m + n)
  OBVIOUS
<1>6. /\ rest \in Seq(Bus)
      /\ Len(rest) = IF m + 1 <= m + n THEN ((m + n) - (m + 1)) + 1 ELSE 0
      /\ \A i \in 1 .. ((m + n) - (m + 1)) + 1 : rest[i] = both[((m + 1) + i) - 1]
  <2>1. m + 1 \in Int /\ m + n \in Int
    BY <1>1
  <2> QED BY <1>4, <1>5, <2>1, SubSeqProperties
<1>7. Len(rest) = n
  BY <1>1, <1>6
<1>8. ASSUME NEW i \in 1 .. n PROVE rest[i] = q[i]
  <2>1. i \in 1 .. ((m + n) - (m + 1)) + 1 /\ ((m + 1) + i) - 1 = m + i
    BY <1>1
  <2>2. rest[i] = both[m + i]
    BY <1>6, <2>1
  <2>3. m + i \in 1 .. m + n /\ ~(m + i <= m) /\ (m + i) - m = i
    BY <1>1
  <2> QED BY <1>3, <2>2, <2>3
<1>9. rest = q
  BY <1>1, <1>6, <1>7, <1>8, SeqEqual
<1> QED BY <1>2, <1>3, <1>5, <1>9

(* What the carry of an index does to an address. *)
LEMMA CarriedAddress ==
  ASSUME NEW s \in Situations, NEW mode,
         NEW base, base = IF mode = "izy" THEN Word(s.phi, s.plo) ELSE Word(s.hi, s.lo),
         NEW ea, ea = Wrap16(base + s.index),
         NEW carried, carried <=> Wrap8(base) + s.index > 255
  PROVE  /\ base = Base(mode, s) /\ ea = Target(mode, s) /\ ea \in Nat
         /\ Carries(mode, s) <=> carried
         /\ Uncarried(mode, s) = IF carried THEN Wrap16(ea - 256) ELSE ea
<1>1. /\ s.lo \in Nat /\ s.lo < 256 /\ s.hi \in Nat /\ s.hi < 256
      /\ s.plo \in Nat /\ s.plo < 256 /\ s.phi \in Nat /\ s.phi < 256
  BY SituationTypes
<1>2. PICK index \in Nat : index = s.index /\ index < 256
  BY SituationTypes
<1>3. PICK h \in Nat, l \in Nat : base = h * 256 + l /\ h < 256 /\ l < 256
  <2>1. PICK h \in Nat, l \in Nat : /\ h = IF mode = "izy" THEN s.phi ELSE s.hi
                                    /\ l = IF mode = "izy" THEN s.plo ELSE s.lo
    BY <1>1
  <2>2. h < 256 /\ l < 256
    BY <1>1, <2>1
  <2>3. base = h * 256 + l
    BY <2>1 DEF Word
  <2> QED BY <2>2, <2>3
<1>13. PICK sum \in Nat : sum = base + s.index /\ sum = h * 256 + (l + index)
  BY <1>2, <1>3
<1>4. base = Base(mode, s)
  BY DEF Base
<1>5. ea = Target(mode, s)
  BY <1>4 DEF Target
<1>6. base \in Nat /\ base \div 256 = h /\ base % 256 = l
  BY <1>3
<1>7. carried <=> l + index > 255
  BY <1>2, <1>6 DEF Wrap8
<1>8. Uncarried(mode, s) = h * 256 + (ea % 256)
  BY <1>4, <1>5, <1>6 DEF Uncarried, Word, PageOf, Wrap8
<1>9. Carries(mode, s) <=> h # ea \div 256
  BY <1>4, <1>5, <1>6 DEF Carries, PageCrossed, PageOf
<1>10. CASE l + index < 256
  <2>1. ea = h * 256 + (l + index)
    <3>1. sum < 65536
      BY <1>3, <1>10, <1>13
    <3> QED BY <1>13, <3>1 DEF Wrap16
  <2>2. ea \in Nat /\ ea \div 256 = h /\ ea % 256 = l + index
    BY <1>10, <2>1
  <2> QED BY <1>4, <1>5, <1>7, <1>8, <1>9, <1>10, <2>1, <2>2
<1>11. CASE l + index >= 256 /\ h < 255
  <2>1. PICK k \in Nat : l + index = 256 + k /\ k < 256
    <3>1. (l + index) - 256 \in Nat /\ (l + index) - 256 < 256
      BY <1>2, <1>3, <1>11
    <3> QED BY <3>1
  <2>2. ea = (h + 1) * 256 + k
    <3>1. sum < 65536 /\ sum = (h + 1) * 256 + k
      BY <1>11, <1>13, <2>1
    <3> QED BY <1>13, <3>1 DEF Wrap16
  <2>3. ea \in Nat /\ ea \div 256 = h + 1 /\ ea % 256 = k
    BY <2>1, <2>2
  <2>4. Wrap16(ea - 256) = h * 256 + k
    BY <1>11, <2>1, <2>2 DEF Wrap16
  <2> QED BY <1>4, <1>5, <1>7, <1>8, <1>9, <1>11, <2>3, <2>4
<1>12. CASE l + index >= 256 /\ h = 255
  <2>1. PICK k \in Nat : l + index = 256 + k /\ k < 256
    <3>1. (l + index) - 256 \in Nat /\ (l + index) - 256 < 256
      BY <1>2, <1>3, <1>12
    <3> QED BY <3>1
  <2>2. ea = k
    <3>1. sum = 65536 + k
      BY <1>12, <1>13, <2>1
    <3> QED BY <1>13, <2>1, <3>1 DEF Wrap16
  <2>3. ea \in Nat /\ ea \div 256 = 0 /\ ea % 256 = k
    BY <2>1, <2>2
  <2>4. Wrap16(ea - 256) = h * 256 + k
    BY <1>12, <2>1, <2>2 DEF Wrap16
  <2> QED BY <1>4, <1>5, <1>7, <1>8, <1>9, <1>12, <2>3, <2>4
<1> QED BY <1>2, <1>3, <1>10, <1>11, <1>12

(* What an instruction does with an indexed operand follows the fetches that *)
(* resolve it.                                                               *)
Touched(o, s) ==
  SubSeq(Accesses(o, s), IndexedPrefix(OPCODES[o][2]) + 1, Len(Accesses(o, s)))

LEMMA RunsAssociate ==
  ASSUME NEW p \in Seq(Bus), NEW q \in Seq(Bus), NEW r \in Seq(Bus)
  PROVE  (p \o q) \o r = p \o (q \o r)
BY ConcatAssociative, SMTT(30)

LEMMA AfterTheFetches ==
  ASSUME NEW s \in Situations, NEW o \in Opcodes, NEW mode, mode = OPCODES[o][2],
         mode \in Indexed, NEW tail, NEW n, IsRun(tail, n),
         Body(OPCODES[o][1], mode, s) = BaseFetch(mode, s) \o tail
  PROVE  Touched(o, s) = tail
<1>1. PICK fetch, opcode : fetch = BaseFetch(mode, s) /\ opcode = <<Rd(s.pc)>> \o << >>
  OBVIOUS
<1>2. IsRun(fetch, BaseLength(mode))
  BY <1>1, AddressRuns
<1>3. IsRun(opcode, 1)
  <2>1. PICK pc \in Int : pc = s.pc
    BY SituationTypes
  <2>2. IsRun(<<Rd(pc)>> \o << >>, 1 + 0)
    BY Singles, JoinedRuns
  <2> QED BY <1>1, <2>1, <2>2
<1>4. Accesses(o, s) = opcode \o (fetch \o tail)
  <2>1. mode \notin {"imp", "acc"}
    BY DEF Indexed
  <2>2. Accesses(o, s) = (<<Rd(s.pc)>> \o << >>) \o Body(OPCODES[o][1], mode, s)
    BY <2>1 DEF Accesses
  <2> QED BY <1>1, <2>2, Zenon
<1>5. opcode \o (fetch \o tail) = (opcode \o fetch) \o tail
  <2>1. opcode \in Seq(Bus) /\ fetch \in Seq(Bus) /\ tail \in Seq(Bus)
    BY <1>2, <1>3 DEF IsRun
  <2>2. (opcode \o fetch) \o tail = opcode \o (fetch \o tail)
    BY <2>1, RunsAssociate
  <2> QED BY <2>2
<1>6. IsRun(opcode \o fetch, 1 + BaseLength(mode))
  BY <1>2, <1>3, JoinedRuns
<1>7. IndexedPrefix(mode) = 1 + BaseLength(mode)
  BY DEF IndexedPrefix, BaseLength
<1>8. PICK front, m : front = opcode \o fetch /\ m = 1 + BaseLength(mode)
  OBVIOUS
<1>9. IsRun(front, m) /\ Accesses(o, s) = front \o tail
  BY <1>4, <1>5, <1>6, <1>8, Zenon
<1>10. SubSeq(front \o tail, m + 1, Len(front \o tail)) = tail
  BY <1>9, Behind
<1> QED BY <1>7, <1>8, <1>9, <1>10, Zenon DEF Touched

(* Runs written out. *)
LEMMA Joins ==
  ASSUME NEW a \in Int, NEW b \in Int
  PROVE  /\ <<Rd(a)>> \o <<Rd(b)>> = <<Rd(a), Rd(b)>>
         /\ <<Rd(a)>> \o <<Wr(b)>> = <<Rd(a), Wr(b)>>
         /\ <<Rd(a)>> \o <<Rd(b), Wr(b), Wr(b)>> = <<Rd(a), Rd(b), Wr(b), Wr(b)>>
<1>1. PICK p \in Bus, q \in Bus, w \in Bus : p = Rd(a) /\ q = Rd(b) /\ w = Wr(b)
  BY DEF Bus, Rd, Wr
<1>2. ASSUME NEW x \in Bus PROVE <<p>> \o <<x>> = <<p, x>>
  <2>1. /\ <<p>> \o <<x>> \in Seq(Bus) /\ Len(<<p>> \o <<x>>) = 2
        /\ (<<p>> \o <<x>>)[1] = p /\ (<<p>> \o <<x>>)[2] = x
    <3>1. PICK j : j = <<p>> \o <<x>>
      OBVIOUS
    <3>2. /\ j \in Seq(Bus) /\ Len(j) = 1 + 1
          /\ \A i \in 1 .. 1 + 1 : j[i] = IF i <= 1 THEN <<p>>[i] ELSE <<x>>[i - 1]
      <4>1. <<p>> \in Seq(Bus) /\ <<x>> \in Seq(Bus) /\ Len(<<p>>) = 1 /\ Len(<<x>>) = 1
        OBVIOUS
      <4> QED BY <3>1, <4>1, ConcatProperties
    <3> QED BY <3>1, <3>2
  <2>2. PICK j : j = <<p>> \o <<x>>
    OBVIOUS
  <2>3. <<p, x>> \in Seq(Bus) /\ Len(<<p, x>>) = 2 /\ \A i \in 1 .. 2 : j[i] = <<p, x>>[i]
    BY <2>1, <2>2
  <2>4. j \in Seq(Bus) /\ Len(j) = 2
    BY <2>1, <2>2
  <2> QED BY <2>2, <2>3, <2>4, SeqEqual
<1>3. <<p>> \o <<q, w, w>> = <<p, q, w, w>>
  <2>1. PICK j : j = <<p>> \o <<q, w, w>>
    OBVIOUS
  <2>2. /\ j \in Seq(Bus) /\ Len(j) = 1 + 3
        /\ \A i \in 1 .. 1 + 3 : j[i] = IF i <= 1 THEN <<p>>[i] ELSE <<q, w, w>>[i - 1]
    <3>1. <<p>> \in Seq(Bus) /\ <<q, w, w>> \in Seq(Bus) /\ Len(<<p>>) = 1 /\ Len(<<q, w, w>>) = 3
      OBVIOUS
    <3> QED BY <2>1, <3>1, ConcatProperties
  <2>3. j[1] = p /\ j[2] = q /\ j[3] = w /\ j[4] = w
    BY <2>2
  <2>4. /\ <<p, q, w, w>> \in Seq(Bus) /\ Len(<<p, q, w, w>>) = 4
        /\ \A i \in 1 .. 4 : j[i] = <<p, q, w, w>>[i]
    BY <2>3
  <2>5. j \in Seq(Bus) /\ Len(j) = 4
    BY <2>2
  <2> QED BY <2>1, <2>4, <2>5, SeqEqual
<1> QED BY <1>1, <1>2, <1>3

(* A register behind an indexed address is touched as often as it should be. *)
LEMMA TouchesAreTheirs ==
  ASSUME NEW s \in Situations, NEW o \in Opcodes, OPCODES[o][2] \in Indexed
  PROVE  /\ OPCODES[o][1] \in Loads \cup {"NOP"} =>
                Touched(o, s) = IF Carries(OPCODES[o][2], s)
                                THEN << Rd(Uncarried(OPCODES[o][2], s)),
                                        Rd(OperandAddr(OPCODES[o][2], s)) >>
                                ELSE << Rd(OperandAddr(OPCODES[o][2], s)) >>
         /\ OPCODES[o][1] \in Stores =>
                Touched(o, s) = << Rd(Uncarried(OPCODES[o][2], s)),
                                   Wr(OperandAddr(OPCODES[o][2], s)) >>
         /\ OPCODES[o][1] \in Modifies =>
                Touched(o, s) = << Rd(Uncarried(OPCODES[o][2], s)),
                                   Rd(OperandAddr(OPCODES[o][2], s)),
                                   Wr(OperandAddr(OPCODES[o][2], s)),
                                   Wr(OperandAddr(OPCODES[o][2], s)) >>
<1>0. PICK m, mode, ea, unc, data :
        /\ m = OPCODES[o][1] /\ mode = OPCODES[o][2] /\ ea = OperandAddr(mode, s)
        /\ unc = Uncarried(mode, s) /\ data = Touched(o, s)
  OBVIOUS
<1>11. SUFFICES /\ m \in Loads \cup {"NOP"} =>
                     data = IF Carries(mode, s) THEN <<Rd(unc), Rd(ea)>> ELSE <<Rd(ea)>>
                /\ m \in Stores => data = <<Rd(unc), Wr(ea)>>
                /\ m \in Modifies => data = <<Rd(unc), Rd(ea), Wr(ea), Wr(ea)>>
  BY <1>0, Zenon
<1>1. PICK fetch : fetch = BaseFetch(mode, s)
  OBVIOUS
<1>2. fetch \in Seq(Bus)
  BY <1>1, AddressRuns DEF IsRun
<1>3. ea \in Int /\ unc \in Int
  BY <1>0, AddressesAreNumbers
<1>4. IsRun(<<Rd(unc)>>, 1) /\ IsRun(<<Rd(ea)>>, 1) /\ IsRun(<<Wr(ea)>>, 1)
      /\ IsRun(<<Rd(ea), Wr(ea), Wr(ea)>>, 3) /\ IsRun(<< >>, 0)
  BY <1>3, Singles
<1>5. mode # "imp" /\ mode # "imm" /\ mode # "acc" /\ mode \in Indexed
  BY <1>0 DEF Indexed
<1>6. WriteAddrAccesses(mode, s) = fetch \o <<Rd(unc)>>
  BY <1>0, <1>1, <1>5 DEF WriteAddrAccesses
<1>7. CASE m \in Loads \cup {"NOP"}
  <2>1. PICK fix : fix = IF Carries(mode, s) THEN <<Rd(unc)>> ELSE << >>
    OBVIOUS
  <2>2. PICK k : IsRun(fix, k) /\ fix \in Seq(Bus)
    BY <1>4, <2>1 DEF IsRun
  <2>3. AddrAccesses(mode, s) = fetch \o fix
    BY <1>0, <1>1, <1>5, <2>1 DEF AddrAccesses, Carries, Indexed
  <2>4. Body(m, mode, s) = (fetch \o fix) \o <<Rd(ea)>>
    <3>1. ReadOperand(mode, s) = (fetch \o fix) \o <<Rd(ea)>>
      BY <1>0, <1>5, <2>3 DEF ReadOperand
    <3>2. Body(m, mode, s) = ReadOperand(mode, s)
      BY <1>5, <1>7, Bodies
    <3> QED BY <3>1, <3>2
  <2>5. (fetch \o fix) \o <<Rd(ea)>> = fetch \o (fix \o <<Rd(ea)>>)
    BY <1>2, <1>4, <2>2, ConcatAssociative DEF IsRun
  <2>6. IsRun(fix \o <<Rd(ea)>>, k + 1)
    BY <1>4, <2>2, JoinedRuns
  <2>7. data = fix \o <<Rd(ea)>>
    <3>1. Body(OPCODES[o][1], mode, s) = BaseFetch(mode, s) \o (fix \o <<Rd(ea)>>)
      BY <1>0, <1>1, <2>4, <2>5
    <3> QED BY <1>0, <2>6, <3>1, AfterTheFetches
  <2>8. fix \o <<Rd(ea)>> = IF Carries(mode, s) THEN <<Rd(unc), Rd(ea)>> ELSE <<Rd(ea)>>
    <3>1. fix = << >> => fix \o <<Rd(ea)>> = <<Rd(ea)>>
      BY <1>4, ConcatEmptySeq DEF IsRun
    <3> QED BY <1>3, <2>1, <3>1, Joins
  <2>9. m \notin Stores /\ m \notin Modifies
    BY <1>7 DEF Loads, Stores, Modifies
  <2> QED BY <2>7, <2>8, <2>9
<1>8. CASE m \in Stores
  <2>1. Body(m, mode, s) = (fetch \o <<Rd(unc)>>) \o <<Wr(ea)>>
    <3>1. StoreAccesses(mode, s) = (fetch \o <<Rd(unc)>>) \o <<Wr(ea)>>
      BY <1>0, <1>6 DEF StoreAccesses
    <3>2. Body(m, mode, s) = StoreAccesses(mode, s)
      BY <1>8, Bodies
    <3> QED BY <3>1, <3>2
  <2>2. (fetch \o <<Rd(unc)>>) \o <<Wr(ea)>> = fetch \o (<<Rd(unc)>> \o <<Wr(ea)>>)
    BY <1>2, <1>4, ConcatAssociative DEF IsRun
  <2>3. IsRun(<<Rd(unc)>> \o <<Wr(ea)>>, 1 + 1)
    BY <1>4, JoinedRuns
  <2>4. data = <<Rd(unc)>> \o <<Wr(ea)>>
    <3>1. Body(OPCODES[o][1], mode, s) = BaseFetch(mode, s) \o (<<Rd(unc)>> \o <<Wr(ea)>>)
      BY <1>0, <1>1, <2>1, <2>2
    <3> QED BY <1>0, <2>3, <3>1, AfterTheFetches
  <2>5. <<Rd(unc)>> \o <<Wr(ea)>> = <<Rd(unc), Wr(ea)>>
    BY <1>3, Joins
  <2>6. m \notin Loads \cup {"NOP"} /\ m \notin Modifies
    BY <1>8 DEF Loads, Stores, Modifies
  <2> QED BY <2>4, <2>5, <2>6
<1>9. CASE m \in Modifies
  <2>1. PICK touch : touch = <<Rd(ea), Wr(ea), Wr(ea)>>
    OBVIOUS
  <2>2. Body(m, mode, s) = (fetch \o <<Rd(unc)>>) \o touch
    <3>1. Rmw(mode, s) = (fetch \o <<Rd(unc)>>) \o touch
      BY <1>0, <1>5, <1>6, <2>1 DEF Rmw
    <3>2. Body(m, mode, s) = Rmw(mode, s)
      BY <1>9, Bodies
    <3> QED BY <3>1, <3>2
  <2>3. (fetch \o <<Rd(unc)>>) \o touch = fetch \o (<<Rd(unc)>> \o touch)
    BY <1>2, <1>4, <2>1, ConcatAssociative DEF IsRun
  <2>4. IsRun(<<Rd(unc)>> \o touch, 1 + 3)
    BY <1>4, <2>1, JoinedRuns
  <2>5. data = <<Rd(unc)>> \o touch
    <3>1. Body(OPCODES[o][1], mode, s) = BaseFetch(mode, s) \o (<<Rd(unc)>> \o touch)
      BY <1>0, <1>1, <2>2, <2>3
    <3> QED BY <1>0, <2>4, <3>1, AfterTheFetches
  <2>6. <<Rd(unc)>> \o touch = <<Rd(unc), Rd(ea), Wr(ea), Wr(ea)>>
    BY <1>3, <2>1, Joins
  <2>7. m \notin Loads \cup {"NOP"} /\ m \notin Stores
    BY <1>9 DEF Loads, Stores, Modifies
  <2> QED BY <2>5, <2>6, <2>7
<1> QED BY <1>7, <1>8, <1>9

-----------------------------------------------------------------------------
(* Nothing has been executed, or one instruction has. *)
DecodeIInv ==
  \E s \in Situations :
    \/ decode = [at |-> s, op |-> NoInstruction, bus |-> << >>, cycles |-> 0]
    \/ \E o \in Opcodes :
         decode = [at |-> s, op |-> o, bus |-> Accesses(o, s), cycles |-> Cycles(o, s)]

LEMMA DecodeKept == DecodeIInv /\ [DecodeNext]_decode => DecodeIInv'
<1> SUFFICES ASSUME DecodeIInv, [DecodeNext]_decode PROVE DecodeIInv'
  OBVIOUS
<1>1. CASE UNCHANGED decode
  BY <1>1, Zenon DEF DecodeIInv
<1>2. ASSUME NEW o \in Opcodes, Execute(o) PROVE DecodeIInv'
  <2>1. PICK s \in Situations :
          decode = [at |-> s, op |-> NoInstruction, bus |-> << >>, cycles |-> 0]
    <3>1. decode.op = NoInstruction /\ NoInstruction \notin Opcodes
      BY <1>2, DecodeAssumption DEF Execute
    <3> QED BY <3>1 DEF DecodeIInv
  <2>2. decode' = [at |-> s, op |-> o, bus |-> Accesses(o, s), cycles |-> Cycles(o, s)]
    <3>1. decode' = [decode EXCEPT !.op = o, !.bus = Accesses(o, s), !.cycles = Cycles(o, s)]
      <4>1. decode.at = s
        BY <2>1
      <4> QED BY <1>2, <4>1 DEF Execute
    <3> QED BY <2>1, <3>1
  <2> QED BY <1>2, <2>2 DEF DecodeIInv
<1> QED BY <1>1, <1>2 DEF DecodeNext

LEMMA DecodeHolds == DecodeIInv => BusIsTheCpus
<1> SUFFICES ASSUME DecodeIInv, decode.op # NoInstruction PROVE BusIsTheCpus
  <2>1. decode.op = NoInstruction => BusIsTheCpus
    BY DEF BusIsTheCpus, CyclesAreAccesses, IndexedTouches
  <2> QED BY <2>1
<1>1. PICK s \in Situations, o \in Opcodes :
        decode = [at |-> s, op |-> o, bus |-> Accesses(o, s), cycles |-> Cycles(o, s)]
  BY DEF DecodeIInv
<1>2. decode.at = s /\ decode.op = o /\ decode.bus = Accesses(o, s) /\ decode.cycles = Cycles(o, s)
  BY <1>1
<1>3. CyclesAreAccesses
  <2>1. Len(Accesses(o, s)) = Cycles(o, s) - JamLength(OPCODES[o][1])
    BY AccessesAreCycles DEF IsRun
  <2> QED BY <1>2, <2>1 DEF CyclesAreAccesses, JamLength
<1>4. IndexedTouches
  <2> DEFINE m == OPCODES[decode.op][1]
             mode == OPCODES[decode.op][2]
             base == IF mode = "izy" THEN Word(decode.at.phi, decode.at.plo)
                     ELSE Word(decode.at.hi, decode.at.lo)
             ea == Wrap16(base + decode.at.index)
             carried == Wrap8(base) + decode.at.index > 255
             first == Rd(IF carried THEN Wrap16(ea - 256) ELSE ea)
             data == SubSeq(decode.bus, IndexedPrefix(mode) + 1, Len(decode.bus))
             Touches == mode \in Indexed =>
               /\ m \in Loads \cup {"NOP"} =>
                     data = IF carried THEN <<first, Rd(ea)>> ELSE <<Rd(ea)>>
               /\ m \in Stores => data = <<first, Wr(ea)>>
               /\ m \in Modifies => data = <<first, Rd(ea), Wr(ea), Wr(ea)>>
  <2>1. m = OPCODES[o][1] /\ mode = OPCODES[o][2]
    BY <1>2
  <2>2. base = IF mode = "izy" THEN Word(s.phi, s.plo) ELSE Word(s.hi, s.lo)
    BY <1>2, Zenon
  <2>3. ea = Wrap16(base + s.index)
    BY <1>2, Zenon
  <2>4. carried <=> Wrap8(base) + s.index > 255
    BY <1>2, Zenon
  <2>5. data = Touched(o, s)
    BY <1>2, Zenon DEF Touched
  <2>6. PICK unc : unc = (IF carried THEN Wrap16(ea - 256) ELSE ea) /\ first = Rd(unc)
    OBVIOUS
  <2>7. Touches
    <3> HIDE DEF m, mode, base, ea, carried, first, data
    <3>1. SUFFICES ASSUME mode \in Indexed
                   PROVE  /\ m \in Loads \cup {"NOP"} =>
                                data = IF carried THEN <<first, Rd(ea)>> ELSE <<Rd(ea)>>
                          /\ m \in Stores => data = <<first, Wr(ea)>>
                          /\ m \in Modifies => data = <<first, Rd(ea), Wr(ea), Wr(ea)>>
      OBVIOUS
    <3>2. /\ ea = Target(mode, s) /\ (Carries(mode, s) <=> carried)
          /\ unc = Uncarried(mode, s)
      BY <2>2, <2>3, <2>4, <2>6, CarriedAddress
    <3>3. ea = OperandAddr(mode, s)
      BY <3>1, <3>2 DEF OperandAddr, Indexed
    <3>4. /\ m \in Loads \cup {"NOP"} =>
                data = IF Carries(mode, s) THEN <<Rd(unc), Rd(ea)>> ELSE <<Rd(ea)>>
          /\ m \in Stores => data = <<Rd(unc), Wr(ea)>>
          /\ m \in Modifies => data = <<Rd(unc), Rd(ea), Wr(ea), Wr(ea)>>
      BY <2>1, <2>5, <3>1, <3>2, <3>3, TouchesAreTheirs
    <3> QED BY <2>6, <3>2, <3>4
  <2> QED BY <2>7, Zenon DEF IndexedTouches
<1> QED BY <1>3, <1>4 DEF BusIsTheCpus

(* Every instruction makes the accesses its cycles tell, and touches what is  *)
(* behind an indexed address as often as the processor does.                  *)
THEOREM BusHolds == DecodeSpec => []BusIsTheCpus
<1>1. DecodeInit => DecodeIInv
  BY DEF DecodeInit, DecodeIInv
<1> QED BY <1>1, DecodeKept, DecodeHolds, PTL DEF DecodeSpec
=============================================================================
