------------------------------- MODULE CpuAlu -------------------------------
(***************************************************************************)
(* What the 6502's instructions compute (nessie-core/src/cpu/mod.rs,       *)
(* Cpu::execute and the helpers it calls): registers of eight bits and the *)
(* flags of P, as the set of those that are set.  How an operand is        *)
(* addressed is in CpuDecode; here an instruction gets the operand's byte  *)
(* and yields the registers and the byte it writes back.                   *)
(***************************************************************************)
EXTENDS Integers, ByteBits

CONSTANTS
    Values,         \* values of A, of X and of the operand
    NoOperation     \* nothing has been executed yet

Byte == 0 .. 255
Flags == {"C", "Z", "I", "D", "B", "U", "V", "N"}

Mod256(n) == n % 256
Bit7(v) == v >= 128
Bit6(v) == (v \div 64) % 2 = 1
Bit5(v) == (v \div 32) % 2 = 1
Bit0(v) == v % 2 = 1
CarryIn(r) == IF "C" \in r.p THEN 1 ELSE 0

SetFlag(r, f, on) == [r EXCEPT !.p = IF on THEN @ \cup {f} ELSE @ \ {f}]
SetZN(r, v) == SetFlag(SetFlag(r, "Z", v = 0), "N", Bit7(v))

(* The flag rule of the source: the carry out of nine bits, and an overflow
   when two operands of one sign give a result of the other. *)
Adc(r, v) ==
    LET sum == r.a + v + CarryIn(r)
        result == Mod256(sum)
        overflow == Bit7(r.a) = Bit7(v) /\ Bit7(r.a) # Bit7(result)
    IN  SetZN([SetFlag(SetFlag(r, "C", sum > 255), "V", overflow)
                  EXCEPT !.a = result], result)

(* A slip: the operand is negated, not complemented. *)
SbcNegated(r, v) == Adc(r, Mod256(256 - v))

Sbc(r, v) == Adc(r, 255 - v)

Compare(r, reg, v) == SetZN(SetFlag(r, "C", reg >= v), Mod256(reg - v))

(* A shift yields the registers and the shifted byte. *)
Shifted(r, carry, v) == [regs |-> SetZN(SetFlag(r, "C", carry), v), out |-> v]

Asl(r, v) == Shifted(r, Bit7(v), Mod256(v * 2))
Lsr(r, v) == Shifted(r, Bit0(v), v \div 2)
Rol(r, v) == Shifted(r, Bit7(v), Mod256(v * 2) + CarryIn(r))
Ror(r, v) == Shifted(r, Bit0(v), v \div 2 + 128 * CarryIn(r))

SetA(r, v) == SetZN([r EXCEPT !.a = v], v)
SetX(r, v) == SetZN([r EXCEPT !.x = v], v)
SetY(r, v) == SetZN([r EXCEPT !.y = v], v)

(* LDA, LDX, LDY and the unofficial loads LAX, LXA and LAS. *)
Load(m, r, v) ==
    CASE m = "LDA" -> SetA(r, v)
      [] m = "LDX" -> SetX(r, v)
      [] m = "LDY" -> SetY(r, v)
      [] m \in {"LAX", "LXA"} -> SetX([r EXCEPT !.a = v], v)
      [] m = "LAS" -> LET w == BitAnd(v, r.sp) IN SetX([r EXCEPT !.a = w, !.sp = w], w)

LoadOps == {"LDA", "LDX", "LDY", "LAX", "LXA", "LAS"}

StoreOps == {"STA", "STX", "STY", "SAX"}
StoredByte(m, r) ==
    CASE m = "STA" -> r.a [] m = "STX" -> r.x [] m = "STY" -> r.y
      [] m = "SAX" -> BitAnd(r.a, r.x)

Transfer(m, r) ==
    CASE m = "TAX" -> SetX(r, r.a)
      [] m = "TAY" -> SetY(r, r.a)
      [] m = "TXA" -> SetA(r, r.x)
      [] m = "TYA" -> SetA(r, r.y)
      [] m = "TSX" -> SetX(r, r.sp)
      [] m = "TXS" -> [r EXCEPT !.sp = r.x]

TransferOps == {"TAX", "TAY", "TXA", "TYA", "TSX", "TXS"}

Logic(m, r, v) ==
    CASE m = "AND" -> SetA(r, BitAnd(r.a, v))
      [] m = "EOR" -> SetA(r, BitXor(r.a, v))
      [] m = "ORA" -> SetA(r, BitOr(r.a, v))
      [] m = "BIT" -> SetFlag(SetFlag(SetFlag(r, "Z", BitAnd(r.a, v) = 0),
                                      "N", Bit7(v)), "V", Bit6(v))

LogicOps == {"AND", "EOR", "ORA", "BIT"}

Arithmetic(m, r, v) ==
    CASE m = "ADC" -> Adc(r, v)
      [] m = "SBC" -> Sbc(r, v)
      [] m = "CMP" -> Compare(r, r.a, v)
      [] m = "CPX" -> Compare(r, r.x, v)
      [] m = "CPY" -> Compare(r, r.y, v)

ArithmeticOps == {"ADC", "SBC", "CMP", "CPX", "CPY"}

Count(m, r) ==
    CASE m = "INX" -> SetX(r, Mod256(r.x + 1))
      [] m = "INY" -> SetY(r, Mod256(r.y + 1))
      [] m = "DEX" -> SetX(r, Mod256(r.x - 1))
      [] m = "DEY" -> SetY(r, Mod256(r.y - 1))

CountOps == {"INX", "INY", "DEX", "DEY"}

(* The closures the read-modify-write helper is called with. *)
Modify(m, r, v) ==
    LET up == Mod256(v + 1)
        down == Mod256(v - 1)
    IN  CASE m = "INC" -> [regs |-> SetZN(r, up), out |-> up]
          [] m = "DEC" -> [regs |-> SetZN(r, down), out |-> down]
          [] m = "ASL" -> Asl(r, v)
          [] m = "LSR" -> Lsr(r, v)
          [] m = "ROL" -> Rol(r, v)
          [] m = "ROR" -> Ror(r, v)

ModifyOps == {"INC", "DEC", "ASL", "LSR", "ROL", "ROR"}

(* The unofficial instructions that modify memory and use the result. *)
CombinedModify(m, r, v) ==
    LET up == Mod256(v + 1)
        down == Mod256(v - 1)
        asl == Asl(r, v)
        rol == Rol(r, v)
        lsr == Lsr(r, v)
        ror == Ror(r, v)
    IN  CASE m = "DCP" -> [regs |-> Compare(r, r.a, down), out |-> down]
          [] m = "ISC" -> [regs |-> Adc(r, 255 - up), out |-> up]
          [] m = "SLO" -> [regs |-> SetA(asl.regs, BitOr(r.a, asl.out)), out |-> asl.out]
          [] m = "RLA" -> [regs |-> SetA(rol.regs, BitAnd(r.a, rol.out)), out |-> rol.out]
          [] m = "SRE" -> [regs |-> SetA(lsr.regs, BitXor(r.a, lsr.out)), out |-> lsr.out]
          [] m = "RRA" -> [regs |-> Adc(ror.regs, ror.out), out |-> ror.out]

CombinedModifyOps == {"DCP", "ISC", "SLO", "RLA", "SRE", "RRA"}

(* The unofficial immediate instructions. *)
CombinedImmediate(m, r, v) ==
    LET both == BitAnd(r.a, v)
        ax == BitAnd(r.a, r.x)
        arr == both \div 2 + 128 * CarryIn(r)
    IN  CASE m = "ANC" -> SetFlag(SetA(r, both), "C", Bit7(both))
          [] m = "ALR" -> LET s == Lsr(r, both) IN [s.regs EXCEPT !.a = s.out]
          [] m = "ARR" -> SetFlag(SetFlag(SetA(r, arr), "C", Bit6(arr)),
                                  "V", Bit6(arr) # Bit5(arr))
          [] m = "AXS" -> SetX(SetFlag(r, "C", ax >= v), Mod256(ax - v))

CombinedImmediateOps == {"ANC", "ALR", "ARR", "AXS"}

SetClear(m, r) ==
    CASE m = "CLC" -> SetFlag(r, "C", FALSE)
      [] m = "SEC" -> SetFlag(r, "C", TRUE)
      [] m = "CLV" -> SetFlag(r, "V", FALSE)
      [] m = "CLD" -> SetFlag(r, "D", FALSE)
      [] m = "SED" -> SetFlag(r, "D", TRUE)

SetClearOps == {"CLC", "SEC", "CLV", "CLD", "SED"}

(* Whether a branch's condition holds. *)
Taken(m, r) ==
    CASE m = "BCC" -> "C" \notin r.p [] m = "BCS" -> "C" \in r.p
      [] m = "BNE" -> "Z" \notin r.p [] m = "BEQ" -> "Z" \in r.p
      [] m = "BPL" -> "N" \notin r.p [] m = "BMI" -> "N" \in r.p
      [] m = "BVC" -> "V" \notin r.p [] m = "BVS" -> "V" \in r.p

Operations == LoadOps \cup StoreOps \cup TransferOps \cup LogicOps \cup ArithmeticOps
              \cup CountOps \cup ModifyOps \cup CombinedModifyOps
              \cup CombinedImmediateOps \cup SetClearOps

ASSUME AluAssumption ==
    /\ \A v \in Values : v \in Nat /\ v < 256
    /\ NoOperation \notin Operations

(* One instruction: the registers after it and the byte it leaves in memory. *)
Operate(m, r, v) ==
    CASE m \in LoadOps       -> [regs |-> Load(m, r, v), out |-> v]
      [] m \in StoreOps      -> [regs |-> r, out |-> StoredByte(m, r)]
      [] m \in TransferOps   -> [regs |-> Transfer(m, r), out |-> v]
      [] m \in LogicOps      -> [regs |-> Logic(m, r, v), out |-> v]
      [] m \in ArithmeticOps -> [regs |-> Arithmetic(m, r, v), out |-> v]
      [] m \in CountOps      -> [regs |-> Count(m, r), out |-> v]
      [] m \in ModifyOps     -> Modify(m, r, v)
      [] m \in CombinedModifyOps -> CombinedModify(m, r, v)
      [] m \in CombinedImmediateOps -> [regs |-> CombinedImmediate(m, r, v), out |-> v]
      [] m \in SetClearOps   -> [regs |-> SetClear(m, r), out |-> v]

-----------------------------------------------------------------------------
VARIABLE alu    \* registers, the memory operand, and the operation just done

AluInit ==
    \E a \in Values, v \in Values, p \in {{"U"}, {"U", "C"}} :
    \E x \in {a, 255 - a} :
        LET r == [a |-> a, x |-> x, y |-> x, sp |-> 253, p |-> p]
        IN  alu = [was |-> r, v |-> v, op |-> NoOperation, now |-> r, out |-> v]

Perform(m) ==
    /\ alu.op = NoOperation
    /\ LET done == Operate(m, alu.was, alu.v)
       IN  alu' = [alu EXCEPT !.op = m, !.now = done.regs, !.out = done.out]

AluNext == \E m \in Operations : Perform(m)

AluSpec == AluInit /\ [][AluNext]_alu

-----------------------------------------------------------------------------
SignedByte == -128 .. 127
AsSigned(v) == IF v > 127 THEN v - 256 ELSE v
Has(f) == f \in alu.now.p
C01(p) == IF "C" \in p THEN 1 ELSE 0

(* ADC, SBC and the compares agree with arithmetic: the carry chain makes the
   result of nine bits the unsigned sum (a difference carries "no borrow"), V
   says that the signed result does not fit a byte, and after CMP the flags
   order the operands as unsigned numbers; a rotation moves nine bits and loses
   none.  The source computes V and SBC from bit tricks. *)
ArithmeticIsExact ==
    LET r == alu.was
        v == alu.v
        borrow == 1 - C01(r.p)
        sum == AsSigned(r.a) + AsSigned(v) + C01(r.p)
        diff == AsSigned(r.a) - AsSigned(v) - borrow
    IN  /\ alu.op = "ADC" =>
              /\ alu.now.a + 256 * C01(alu.now.p) = r.a + v + C01(r.p)
              /\ Has("V") <=> sum \notin SignedByte
        /\ alu.op = "SBC" =>
              /\ alu.now.a - 256 * (1 - C01(alu.now.p)) = r.a - v - borrow
              /\ Has("V") <=> diff \notin SignedByte
        /\ alu.op \in {"CMP", "CPX", "CPY"} =>
              LET reg == IF alu.op = "CMP" THEN r.a ELSE r.x IN
              /\ Has("C") <=> reg >= v
              /\ Has("Z") <=> reg = v
              /\ alu.now.a = r.a
        /\ alu.op \in {"ASL", "ROL"} =>
              alu.out + 256 * C01(alu.now.p)
                = 2 * v + (IF alu.op = "ROL" THEN C01(r.p) ELSE 0)
        /\ alu.op \in {"LSR", "ROR"} =>
              2 * alu.out + C01(alu.now.p)
                = v + (IF alu.op = "ROR" THEN 256 * C01(r.p) ELSE 0)

(* A combined instruction leaves the registers, the flags and the memory byte
   that its two documented parts leave when run one after the other. *)
CombinedAreTheirParts ==
    LET parts == [ DCP |-> <<"DEC", "CMP">>, ISC |-> <<"INC", "SBC">>,
                   SLO |-> <<"ASL", "ORA">>, RLA |-> <<"ROL", "AND">>,
                   SRE |-> <<"LSR", "EOR">>, RRA |-> <<"ROR", "ADC">> ]
        Same(r, s) == [r EXCEPT !.p = @ \ {"C", "V"}] = [s EXCEPT !.p = @ \ {"C", "V"}]
        anded == Operate("AND", alu.was, alu.v).regs
    IN  /\ alu.op \in DOMAIN parts =>
              LET one == Operate(parts[alu.op][1], alu.was, alu.v)
                  two == Operate(parts[alu.op][2], one.regs, one.out)
              IN  alu.now = two.regs /\ alu.out = one.out
        /\ alu.op = "ALR" =>
              LET s == Operate("LSR", anded, anded.a)
              IN  alu.now = [s.regs EXCEPT !.a = s.out]
        /\ alu.op = "ARR" =>
              LET s == Operate("ROR", anded, anded.a)
              IN  Same(alu.now, [s.regs EXCEPT !.a = s.out])
        /\ alu.op = "AXS" =>
              LET cmp == Operate("CMP", [alu.was EXCEPT !.a = BitAnd(alu.was.a, alu.was.x)],
                                 alu.v).regs
              IN  alu.now.p = cmp.p /\ alu.now.a = alu.was.a

(* Every operation against the arithmetic and the operations it stands for. *)
AluIsExact == ArithmeticIsExact /\ CombinedAreTheirParts
=============================================================================
