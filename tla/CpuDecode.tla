----------------------------- MODULE CpuDecode -----------------------------
(***************************************************************************)
(* The decoder and the bus accesses of the 2A03's 6502 core                *)
(* (nessie-core/src/cpu/mod.rs): the opcode table, the cycle table, and    *)
(* for each instruction the sequence of reads and writes it performs.      *)
(* The NES bus advances the PPU, the APU and the cartridge by one CPU      *)
(* cycle per access, so that sequence decides on which dot a register is   *)
(* read and how often.  What an instruction computes is in CpuAlu, the     *)
(* stack and the interrupts are in CpuInterrupts.                          *)
(*                                                                         *)
(* One behaviour is one instruction executed from one situation.           *)
(***************************************************************************)
EXTENDS Integers, Sequences, ByteBits

CONSTANTS
    OperandBytes,   \* values of the two bytes after the opcode and of pointers
    PageBytes,      \* values of the bytes used as the high half of an address
    Indexes,        \* values of X and Y
    StackPointers,  \* values of SP
    Stored,         \* values of the register a store writes
    Addresses,      \* values of PC at the opcode
    NoInstruction   \* nothing has been executed yet

Opcodes == 0 .. 255
GivenBytes == OperandBytes \cup PageBytes \cup Indexes \cup StackPointers \cup Stored

ASSUME DecodeAssumption ==
    /\ GivenBytes \subseteq Nat /\ \A b \in GivenBytes : b < 256
    /\ Addresses \subseteq Nat /\ \A a \in Addresses : a < 65536
    /\ NoInstruction \notin Opcodes

(* The entries of every opcode, the documented and the others. The slot that *)
(* the source leaves at its default, Unknown and implied, is UNK.            *)
OpcodeMnemonics == <<
    <<"BRK","ORA","JAM","SLO","NOP","ORA","ASL","SLO","PHP","ORA","ASL","ANC","NOP","ORA","ASL","SLO">>,
    <<"BPL","ORA","JAM","SLO","NOP","ORA","ASL","SLO","CLC","ORA","NOP","SLO","NOP","ORA","ASL","SLO">>,
    <<"JSR","AND","JAM","RLA","BIT","AND","ROL","RLA","PLP","AND","ROL","ANC","BIT","AND","ROL","RLA">>,
    <<"BMI","AND","JAM","RLA","NOP","AND","ROL","RLA","SEC","AND","NOP","RLA","NOP","AND","ROL","RLA">>,
    <<"RTI","EOR","JAM","SRE","NOP","EOR","LSR","SRE","PHA","EOR","LSR","ALR","JMP","EOR","LSR","SRE">>,
    <<"BVC","EOR","JAM","SRE","NOP","EOR","LSR","SRE","CLI","EOR","NOP","SRE","NOP","EOR","LSR","SRE">>,
    <<"RTS","ADC","JAM","RRA","NOP","ADC","ROR","RRA","PLA","ADC","ROR","ARR","JMP","ADC","ROR","RRA">>,
    <<"BVS","ADC","JAM","RRA","NOP","ADC","ROR","RRA","SEI","ADC","NOP","RRA","NOP","ADC","ROR","RRA">>,
    <<"NOP","STA","NOP","SAX","STY","STA","STX","SAX","DEY","NOP","TXA","UNK","STY","STA","STX","SAX">>,
    <<"BCC","STA","JAM","AHX","STY","STA","STX","SAX","TYA","STA","TXS","TAS","SHY","STA","SHX","AHX">>,
    <<"LDY","LDA","LDX","LAX","LDY","LDA","LDX","LAX","TAY","LDA","TAX","LXA","LDY","LDA","LDX","LAX">>,
    <<"BCS","LDA","JAM","LAX","LDY","LDA","LDX","LAX","CLV","LDA","TSX","LAS","LDY","LDA","LDX","LAX">>,
    <<"CPY","CMP","NOP","DCP","CPY","CMP","DEC","DCP","INY","CMP","DEX","AXS","CPY","CMP","DEC","DCP">>,
    <<"BNE","CMP","JAM","DCP","NOP","CMP","DEC","DCP","CLD","CMP","NOP","DCP","NOP","CMP","DEC","DCP">>,
    <<"CPX","SBC","NOP","ISC","CPX","SBC","INC","ISC","INX","SBC","NOP","SBC","CPX","SBC","INC","ISC">>,
    <<"BEQ","SBC","JAM","ISC","NOP","SBC","INC","ISC","SED","SBC","NOP","ISC","NOP","SBC","INC","ISC">> >>

OpcodeModes == <<
    <<"imp","izx","imp","izx","zp","zp","zp","zp","imp","imm","acc","imm","abs","abs","abs","abs">>,
    <<"rel","izy","imp","izy","zpx","zpx","zpx","zpx","imp","aby","imp","aby","abx","abx","abx","abx">>,
    <<"abs","izx","imp","izx","zp","zp","zp","zp","imp","imm","acc","imm","abs","abs","abs","abs">>,
    <<"rel","izy","imp","izy","zpx","zpx","zpx","zpx","imp","aby","imp","aby","abx","abx","abx","abx">>,
    <<"imp","izx","imp","izx","zp","zp","zp","zp","imp","imm","acc","imm","abs","abs","abs","abs">>,
    <<"rel","izy","imp","izy","zpx","zpx","zpx","zpx","imp","aby","imp","aby","abx","abx","abx","abx">>,
    <<"imp","izx","imp","izx","zp","zp","zp","zp","imp","imm","acc","imm","ind","abs","abs","abs">>,
    <<"rel","izy","imp","izy","zpx","zpx","zpx","zpx","imp","aby","imp","aby","abx","abx","abx","abx">>,
    <<"imm","izx","imm","izx","zp","zp","zp","zp","imp","imm","imp","imp","abs","abs","abs","abs">>,
    <<"rel","izy","imp","izy","zpx","zpx","zpy","zpy","imp","aby","imp","aby","abx","abx","aby","aby">>,
    <<"imm","izx","imm","izx","zp","zp","zp","zp","imp","imm","imp","imm","abs","abs","abs","abs">>,
    <<"rel","izy","imp","izy","zpx","zpx","zpy","zpy","imp","aby","imp","aby","abx","abx","aby","aby">>,
    <<"imm","izx","imm","izx","zp","zp","zp","zp","imp","imm","imp","imm","abs","abs","abs","abs">>,
    <<"rel","izy","imp","izy","zpx","zpx","zpx","zpx","imp","aby","imp","aby","abx","abx","abx","abx">>,
    <<"imm","izx","imm","izx","zp","zp","zp","zp","imp","imm","imp","imm","abs","abs","abs","abs">>,
    <<"rel","izy","imp","izy","zpx","zpx","zpx","zpx","imp","aby","imp","aby","abx","abx","abx","abx">> >>

OpRow(o)    == (o \div 16) + 1
OpColumn(o) == (o % 16) + 1

OPCODES ==
    [o \in Opcodes |->
        <<OpcodeMnemonics[OpRow(o)][OpColumn(o)], OpcodeModes[OpRow(o)][OpColumn(o)]>>]

-----------------------------------------------------------------------------
(* Base cycles; 2 where the source's table leaves its default. *)
BaseCycles == <<
    <<7, 6, 2, 8, 3, 3, 5, 5, 3, 2, 2, 2, 4, 4, 6, 6>>,
    <<2, 5, 2, 8, 4, 4, 6, 6, 2, 4, 2, 7, 4, 4, 7, 7>>,
    <<6, 6, 2, 8, 3, 3, 5, 5, 4, 2, 2, 2, 4, 4, 6, 6>>,
    <<2, 5, 2, 8, 4, 4, 6, 6, 2, 4, 2, 7, 4, 4, 7, 7>>,
    <<6, 6, 2, 8, 3, 3, 5, 5, 3, 2, 2, 2, 3, 4, 6, 6>>,
    <<2, 5, 2, 8, 4, 4, 6, 6, 2, 4, 2, 7, 4, 4, 7, 7>>,
    <<6, 6, 2, 8, 3, 3, 5, 5, 4, 2, 2, 2, 5, 4, 6, 6>>,
    <<2, 5, 2, 8, 4, 4, 6, 6, 2, 4, 2, 7, 4, 4, 7, 7>>,
    <<2, 6, 2, 6, 3, 3, 3, 3, 2, 2, 2, 2, 4, 4, 4, 4>>,
    <<2, 6, 2, 6, 4, 4, 4, 4, 2, 5, 2, 5, 5, 5, 5, 5>>,
    <<2, 6, 2, 6, 3, 3, 3, 3, 2, 2, 2, 2, 4, 4, 4, 4>>,
    <<2, 5, 2, 5, 4, 4, 4, 4, 2, 4, 2, 4, 4, 4, 4, 4>>,
    <<2, 6, 2, 8, 3, 3, 5, 5, 2, 2, 2, 2, 4, 4, 6, 6>>,
    <<2, 5, 2, 8, 4, 4, 6, 6, 2, 4, 2, 7, 4, 4, 7, 7>>,
    <<2, 6, 2, 8, 3, 3, 5, 5, 2, 2, 2, 2, 4, 4, 6, 6>>,
    <<2, 5, 2, 8, 4, 4, 6, 6, 2, 4, 2, 7, 4, 4, 7, 7>> >>

(* The opcodes whose entry adds a cycle when the index carries. *)
CrossSensitive ==
    {\h11, \h31, \h51, \h71, \hB1, \hD1, \hF1} \cup
    {\h19, \h39, \h59, \h79, \hB9, \hD9, \hF9, \hBE} \cup
    {\h1D, \h3D, \h5D, \h7D, \hBC, \hBD, \hDD, \hFD} \cup
    {\h1C, \h3C, \h5C, \h7C, \hDC, \hFC, \hBF, \hB3, \hBB}

INSTR_TABLE ==
    [o \in Opcodes |-> <<BaseCycles[OpRow(o)][OpColumn(o)], o \in CrossSensitive>>]

Modes == {"imp", "acc", "imm", "zp", "zpx", "zpy", "abs", "abx", "aby", "ind",
          "izx", "izy", "rel"}
Mnemonics == {OPCODES[o][1] : o \in Opcodes}

-----------------------------------------------------------------------------
(* A situation: the PC of the opcode, the two bytes after it, the two bytes a
   pointer in memory holds, the index register, SP, the register a store
   writes, and whether a branch's condition holds. *)
Situations ==
    [pc : Addresses, lo : OperandBytes, hi : PageBytes, plo : OperandBytes,
     phi : PageBytes, index : Indexes, sp : StackPointers, reg : Stored,
     take : BOOLEAN]

Word(hi, lo) == hi * 256 + lo
Wrap16(n)    == n % 65536
Wrap8(n)     == n % 256
PageOf(addr) == addr \div 256

PageCrossed(a, b) == PageOf(a) # PageOf(b)

Rd(addr) == <<"r", addr>>
Wr(addr) == <<"w", addr>>
Fetch(s, n) == [i \in 1 .. n |-> Rd(Wrap16(s.pc + i))]
StackTop(s) == 256 + s.sp
Pushes(s, n) == [i \in 1 .. n |-> Wr(256 + Wrap8(s.sp - (i - 1)))]
Pops(s, n)   == [i \in 1 .. n |-> Rd(256 + Wrap8(s.sp + i))]

(* The two pointer bytes, read with the wrap inside page zero. *)
ZeroPagePointer(zp) == <<Rd(zp), Rd(Wrap8(zp + 1))>>

Base(mode, s)  == IF mode = "izy" THEN Word(s.phi, s.plo) ELSE Word(s.hi, s.lo)
Target(mode, s) == Wrap16(Base(mode, s) + s.index)
(* The address before the carry into the high byte. *)
Uncarried(mode, s) == Word(PageOf(Base(mode, s)), Wrap8(Target(mode, s)))
BaseFetch(mode, s) ==
    IF mode = "izy" THEN Fetch(s, 1) \o ZeroPagePointer(s.lo) ELSE Fetch(s, 2)

Indexed == {"abx", "aby", "izy"}

OperandAddr(mode, s) ==
    CASE mode \in Indexed    -> Target(mode, s)
      [] mode \in {"zpx", "zpy"} -> Wrap8(s.lo + s.index)
      [] mode = "zp"         -> s.lo
      [] mode = "abs"        -> Word(s.hi, s.lo)
      [] mode \in {"izx", "ind"} -> Word(s.phi, s.plo)
      [] OTHER               -> 0

(* The accesses that resolve an operand's address, for an instruction that
   reads it. *)
AddrAccesses(mode, s) ==
    CASE mode \in Indexed ->
           BaseFetch(mode, s) \o
           (IF PageCrossed(Base(mode, s), Target(mode, s))
            THEN <<Rd(Uncarried(mode, s))>> ELSE <<>>)
      [] mode = "zp"  -> Fetch(s, 1)
      [] mode \in {"zpx", "zpy"} -> Fetch(s, 1) \o <<Rd(s.lo)>>
      [] mode = "abs" -> Fetch(s, 2)
      [] mode = "ind" -> Fetch(s, 2) \o
           <<Rd(Word(s.hi, s.lo)), Rd(Word(s.hi, Wrap8(s.lo + 1)))>>
      [] mode = "izx" -> Fetch(s, 1) \o <<Rd(s.lo)>> \o
           ZeroPagePointer(Wrap8(s.lo + s.index))
      [] OTHER -> <<>>

(* A slip: a store fixes its address up only when the index carries. *)
FixUpOnCarry(mode, s) == AddrAccesses(mode, s)

(* For a store or a read-modify-write the fix-up read always happens. *)
WriteAddrAccesses(mode, s) ==
    IF mode \in Indexed THEN BaseFetch(mode, s) \o <<Rd(Uncarried(mode, s))>>
    ELSE AddrAccesses(mode, s)

ReadOperand(mode, s) ==
    IF mode = "imm" THEN Fetch(s, 1)
    ELSE AddrAccesses(mode, s) \o <<Rd(OperandAddr(mode, s))>>

Rmw(mode, s) ==
    IF mode = "acc" THEN <<>>
    ELSE WriteAddrAccesses(mode, s) \o
         LET a == OperandAddr(mode, s) IN <<Rd(a), Wr(a), Wr(a)>>

(* SHY, SHX, AHX and TAS: the value is ANDed with the base's high byte plus
   one, and on a page cross that value is the high byte of the address. *)
StoreHighAnd(mode, s) ==
    LET result == BitAnd(s.reg, Wrap8(PageOf(Base(mode, s)) + 1))
        addr   == Target(mode, s)
    IN  BaseFetch(mode, s) \o
        << Rd(Uncarried(mode, s)),
           Wr(IF PageCrossed(Base(mode, s), addr)
              THEN Word(result, Wrap8(addr)) ELSE addr) >>

Signed(v) == IF v >= 128 THEN v - 256 ELSE v

BranchTo(s) == Wrap16(s.pc + 2 + Signed(s.lo))

Branch(s) ==
    Fetch(s, 1) \o
    (IF ~s.take THEN <<>>
     ELSE <<Rd(Wrap16(s.pc + 2))>> \o
          IF PageCrossed(Wrap16(s.pc + 2), BranchTo(s))
          THEN <<Rd(Word(PageOf(Wrap16(s.pc + 2)), Wrap8(BranchTo(s))))>> ELSE <<>>)

BranchExtra(s) ==
    IF ~s.take THEN 0
    ELSE IF PageCrossed(Wrap16(s.pc + 2), BranchTo(s)) THEN 2 ELSE 1

Loads    == {"LDA", "LDX", "LDY", "AND", "EOR", "ORA", "BIT", "ADC", "SBC", "CMP",
             "CPX", "CPY", "LAX", "ANC", "ALR", "ARR", "AXS", "LXA", "LAS"}
Stores   == {"STA", "STX", "STY", "SAX"}
Modifies == {"INC", "DEC", "ASL", "LSR", "ROL", "ROR", "DCP", "ISC", "SLO", "RLA",
             "SRE", "RRA"}
HighStores == {"SHY", "SHX", "AHX", "TAS"}
Branches == {"BCC", "BCS", "BEQ", "BNE", "BMI", "BPL", "BVC", "BVS"}

(* The three pushes and the vector of an interrupt sequence. *)
InterruptAccesses(s, vector) == Pushes(s, 3) \o <<Rd(vector), Rd(vector + 1)>>

(* What an instruction does on the bus after its opcode and, for the one-byte
   ones, the discarded read of the byte that follows. *)
Body(m, mode, s) ==
    CASE m \in Loads      -> ReadOperand(mode, s)
      [] m \in Stores     -> WriteAddrAccesses(mode, s) \o <<Wr(OperandAddr(mode, s))>>
      [] m \in Modifies   -> Rmw(mode, s)
      [] m \in HighStores -> StoreHighAnd(mode, s)
      [] m \in Branches   -> Branch(s)
      [] m = "NOP"        -> IF mode = "imp" THEN <<>> ELSE ReadOperand(mode, s)
      [] m = "JMP"        -> AddrAccesses(mode, s)
      [] m \in {"PHA", "PHP"} -> Pushes(s, 1)
      [] m \in {"PLA", "PLP"} -> <<Rd(StackTop(s))>> \o Pops(s, 1)
      [] m = "JSR" -> Fetch(s, 1) \o <<Rd(StackTop(s))>> \o Pushes(s, 2)
                      \o <<Rd(Wrap16(s.pc + 2))>>
      [] m = "RTS" -> <<Rd(StackTop(s))>> \o Pops(s, 2) \o <<Rd(Word(s.phi, s.plo))>>
      [] m = "RTI" -> <<Rd(StackTop(s))>> \o Pops(s, 3)
      [] m = "BRK" -> Fetch(s, 1) \o InterruptAccesses(s, \hFFFE)
      [] OTHER     -> <<>>

Accesses(o, s) ==
    LET m == OPCODES[o][1]
        mode == OPCODES[o][2]
    IN  <<Rd(s.pc)>> \o
        (IF mode \in {"imp", "acc"} /\ m \notin {"BRK", "JAM"}
         THEN Fetch(s, 1) ELSE <<>>) \o
        Body(m, mode, s)

(* The cycles the instruction reports: the table's, the taken branch's, and the
   page-cross cycle where the table says the opcode pays it. *)
Cycles(o, s) ==
    LET mode == OPCODES[o][2] IN
    INSTR_TABLE[o][1] +
    (IF OPCODES[o][1] \in Branches THEN BranchExtra(s) ELSE 0) +
    (IF INSTR_TABLE[o][2] /\ mode \in Indexed
        /\ PageCrossed(Base(mode, s), Target(mode, s)) THEN 1 ELSE 0)

-----------------------------------------------------------------------------
VARIABLE decode     \* the situation, and the instruction executed in it

DecodeInit ==
    \E s \in Situations :
        decode = [at |-> s, op |-> NoInstruction, bus |-> <<>>, cycles |-> 0]

Execute(o) ==
    /\ decode.op = NoInstruction
    /\ decode' = [decode EXCEPT !.op = o, !.bus = Accesses(o, decode.at),
                                !.cycles = Cycles(o, decode.at)]

DecodeNext == \E o \in Opcodes : Execute(o)

DecodeSpec == DecodeInit /\ [][DecodeNext]_decode

-----------------------------------------------------------------------------
(* "The number of bus accesses an instruction performs matches its cycle
   count" (cpu/mod.rs:18-22): every opcode, with and without a page cross and
   with a branch taken or not, makes exactly as many accesses as the cycles it
   reports, so that no PPU register is touched on the wrong dot.  JAM, which
   only repeats itself, reports one cycle more. *)
CyclesAreAccesses ==
    decode.op # NoInstruction =>
        Len(decode.bus) =
            decode.cycles - (IF OPCODES[decode.op][1] = "JAM" THEN 1 ELSE 0)

(* How many accesses precede the operand's own in an indexed mode. *)
IndexedPrefix(mode) == IF mode = "izy" THEN 4 ELSE 3

(* A register behind an indexed address is touched exactly as often as the 6502
   touches it: a load reads the effective address once and, only when the index
   carries, the address 256 below it first; a store and a read-modify-write
   make that first read always, and write nowhere but at the effective
   address. *)
IndexedTouches ==
    decode.op # NoInstruction =>
        LET m == OPCODES[decode.op][1]
            mode == OPCODES[decode.op][2]
            s == decode.at
            base == IF mode = "izy" THEN Word(s.phi, s.plo) ELSE Word(s.hi, s.lo)
            ea == Wrap16(base + s.index)
            carried == Wrap8(base) + s.index > 255
            first == Rd(IF carried THEN Wrap16(ea - 256) ELSE ea)
            data == SubSeq(decode.bus, IndexedPrefix(mode) + 1, Len(decode.bus))
        IN  mode \in Indexed =>
              /\ m \in Loads \cup {"NOP"} =>
                    data = IF carried THEN <<first, Rd(ea)>> ELSE <<Rd(ea)>>
              /\ m \in Stores => data = <<first, Wr(ea)>>
              /\ m \in Modifies => data = <<first, Rd(ea), Wr(ea), Wr(ea)>>

(* How often, and at which addresses, an instruction touches the bus. *)
BusIsTheCpus == CyclesAreAccesses /\ IndexedTouches
=============================================================================
