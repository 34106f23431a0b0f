--------------------------- MODULE CpuInterrupts ---------------------------
(***************************************************************************)
(* The stack and the interrupts of the 6502 core (nessie-core/src/cpu/     *)
(* mod.rs): Cpu::step polls NMI before IRQ before it fetches an opcode,    *)
(* CLI, SEI and PLP take effect one poll late (delayed_i), and every       *)
(* sequence pushes and pulls through the one-page stack, whose pointer     *)
(* wraps.  Devices raise and drop the lines at any moment between two      *)
(* instructions.                                                           *)
(*                                                                         *)
(* The program is any program whose pulls match its pushes.  calls, a      *)
(* history variable, holds what it and the interrupts have put on the      *)
(* stack; a byte that was pulled is dead, so the stack keeps live bytes.   *)
(***************************************************************************)
EXTENDS Integers, Sequences, FiniteSets

CONSTANTS
    PageSize,       \* bytes of the stack page; 256 in the source
    Addrs,          \* size of the address space the program counter wraps in
    Depth,          \* bound: frames on the stack at a time
    None            \* no delayed I flag

ASSUME InterruptAssumption ==
    /\ PageSize \in Nat \ {0, 1, 2}
    /\ Addrs \in Nat \ {0, 1, 2}
    /\ Depth \in Nat
    /\ None \notin BOOLEAN

Vectors == [nmi |-> 0, irq |-> 1]       \* where the vectors point

VARIABLES
    pc, sp, p,          \* registers; p is which of the flags I, B and U are set
    delayed,            \* delayed_i
    stack,              \* the live bytes of the stack page
    nmi, irq,           \* the latched NMI edge, and the IRQ line
    calls,              \* history: the frames on the stack, newest first
    step                \* history: what the last step was and I before it

cpuVars == <<pc, sp, p, delayed, stack, nmi, irq, calls, step>>

Next16(a, n) == (a + n) % Addrs
Down(s, n) == (s - n) % PageSize

I == "I" \in p

(* Push writes at SP and moves it down; a word goes high byte first. *)
PushAll(bytes) ==
    LET At(k) == Down(sp, k - 1)
        written == {At(k) : k \in 1 .. Len(bytes)}
    IN  /\ stack' = [a \in DOMAIN stack \cup written |->
                        IF a \in written
                        THEN bytes[CHOOSE k \in 1 .. Len(bytes) : At(k) = a]
                        ELSE stack[a]]
        /\ sp' = Down(sp, Len(bytes))

(* The byte the k-th pull finds: SP moves up before the read. *)
Pulled(k) == stack[(sp + k) % PageSize]
PullAll(n) ==
    /\ stack' = [a \in DOMAIN stack \ {(sp + k) % PageSize : k \in 1 .. n} |-> stack[a]]
    /\ sp' = (sp + n) % PageSize

Hi(a) == [half |-> "hi", of |-> a]
Lo(a) == [half |-> "lo", of |-> a]
Status(q) == [half |-> "p", of |-> q]

FreeBytes == PageSize - Cardinality(DOMAIN stack)
Fits(n) == FreeBytes >= n /\ Len(calls) < Depth

PowerOn ==
    /\ pc = 2 /\ sp = Down(0, 3) /\ p = {"I", "U"}
    /\ delayed = None
    /\ stack = << >>
    /\ calls = << >>

CpuInit ==
    /\ PowerOn
    /\ nmi = FALSE /\ irq = FALSE
    /\ step = [kind |-> "reset", i |-> TRUE]

-----------------------------------------------------------------------------
(* Interrupts. *)

(* The value of I this step's IRQ poll uses: taken once. *)
Masked == IF delayed # None THEN delayed ELSE I

(* service_interrupt: PC and P are pushed, I is set, the vector is fetched.
   BRK pushes P with B, the hardware interrupts without. *)
ServiceInterrupt(kind, vector, from, pushed) ==
    /\ Fits(3)
    /\ PushAll(<<Hi(from), Lo(from), Status(pushed)>>)
    /\ p' = p \cup {"I"}
    /\ pc' = vector
    /\ calls' = <<[kind |-> "interrupt", pc |-> from, p |-> p, sp |-> sp]>> \o calls
    /\ step' = [kind |-> kind, i |-> I]

(* A slip: the delayed I flag of an earlier CLI or SEI survives the NMI. *)
ServiceNmiKeepsDelay ==
    /\ nmi
    /\ nmi' = FALSE
    /\ ServiceInterrupt("nmi", Vectors.nmi, pc, (p \cup {"U"}) \ {"B"})
    /\ UNCHANGED <<irq, delayed>>

ServiceNmi ==
    /\ nmi
    /\ nmi' = FALSE
    /\ delayed' = None
    /\ ServiceInterrupt("nmi", Vectors.nmi, pc, (p \cup {"U"}) \ {"B"})
    /\ UNCHANGED irq

ServiceIrq ==
    /\ ~nmi /\ ~Masked /\ irq
    /\ delayed' = None
    /\ ServiceInterrupt("irq", Vectors.irq, pc, (p \cup {"U"}) \ {"B"})
    /\ UNCHANGED <<nmi, irq>>

-----------------------------------------------------------------------------
(* Instructions: executed when the poll found no interrupt to service. *)

Executes ==
    /\ ~nmi /\ (Masked \/ ~irq)
    /\ UNCHANGED <<nmi, irq>>

Plain(kind) ==
    /\ Executes
    /\ delayed' = None
    /\ step' = [kind |-> kind, i |-> I]

(* Any instruction that leaves the stack and I alone; the flags the ALU sets
   are CpuAlu's. *)
Other ==
    /\ Plain("other")
    /\ pc' = Next16(pc, 1)
    /\ UNCHANGED <<sp, p, stack, calls>>

(* CLI and SEI: the next poll still uses the old I. *)
ChangeI(kind, q) ==
    /\ Executes
    /\ delayed' = I
    /\ p' = q
    /\ pc' = Next16(pc, 1)
    /\ step' = [kind |-> kind, i |-> I]
    /\ UNCHANGED <<sp, stack, calls>>

Cli == ChangeI("latent", p \ {"I"})
Sei == ChangeI("latent", p \cup {"I"})

Php ==
    /\ Plain("other")
    /\ Fits(1)
    /\ PushAll(<<Status(p \cup {"B", "U"})>>)
    /\ calls' = <<[kind |-> "status", p |-> p, sp |-> sp]>> \o calls
    /\ pc' = Next16(pc, 1)
    /\ UNCHANGED p

Plp ==
    /\ Executes
    /\ calls # << >> /\ Head(calls).kind = "status"
    /\ delayed' = I
    /\ p' = (Pulled(1).of \ {"B"}) \cup {"U"}
    /\ PullAll(1)
    /\ pc' = Next16(pc, 1)
    /\ calls' = Tail(calls)
    /\ step' = [kind |-> "latent", i |-> I]

(* JSR pushes the address of its own last byte; RTS adds one to it. *)
Jsr ==
    /\ Plain("other")
    /\ Fits(2)
    /\ PushAll(<<Hi(Next16(pc, 2)), Lo(Next16(pc, 2))>>)
    /\ calls' = <<[kind |-> "call", pc |-> Next16(pc, 3), sp |-> sp]>> \o calls
    /\ pc' \in {0, 2}
    /\ UNCHANGED p

(* The two halves of an address, wherever each of them came from. *)
Joined(lo, hi) ==
    IF lo.half = "lo" /\ hi.half = "hi" /\ lo.of = hi.of THEN {lo.of}
    ELSE 0 .. Addrs - 1

Rts ==
    /\ Plain("other")
    /\ calls # << >> /\ Head(calls).kind = "call"
    /\ \E a \in Joined(Pulled(1), Pulled(2)) : pc' = Next16(a, 1)
    /\ PullAll(2)
    /\ calls' = Tail(calls)
    /\ UNCHANGED p

(* A slip: the pulled B flag stays in P. *)
RtiKeepsBreak ==
    /\ Plain("other")
    /\ calls # << >> /\ Head(calls).kind = "interrupt"
    /\ p' = Pulled(1).of
    /\ pc' \in Joined(Pulled(2), Pulled(3))
    /\ PullAll(3)
    /\ calls' = Tail(calls)

(* RTI restores P without the delay of PLP. *)
Rti ==
    /\ Plain("other")
    /\ calls # << >> /\ Head(calls).kind = "interrupt"
    /\ p' = (Pulled(1).of \ {"B"}) \cup {"U"}
    /\ pc' \in Joined(Pulled(2), Pulled(3))
    /\ PullAll(3)
    /\ calls' = Tail(calls)

(* BRK skips a padding byte and pushes P with B set. *)
Brk ==
    /\ Executes
    /\ delayed' = None
    /\ ServiceInterrupt("other", Vectors.irq, Next16(pc, 2), p \cup {"U", "B"})

(* JAM executes itself again and again. *)
Jam == Plain("other") /\ UNCHANGED <<pc, sp, p, stack, calls>>

-----------------------------------------------------------------------------
(* The devices, and the console's RESET button, which keeps A, X, Y and the
   flags, sets I and moves SP as if three bytes had been pushed.  It drops the
   NMI latch and the APU's interrupts; a cartridge may go on asserting IRQ. *)
RaiseNmi == ~nmi /\ nmi' = TRUE /\ UNCHANGED <<pc, sp, p, delayed, stack, irq, calls, step>>
ToggleIrq == irq' = ~irq /\ UNCHANGED <<pc, sp, p, delayed, stack, nmi, calls, step>>

SoftReset ==
    /\ pc' = 2 /\ sp' = Down(sp, 3)
    /\ p' = p \cup {"I", "U"}
    /\ delayed' = None
    /\ nmi' = FALSE /\ irq' \in {FALSE, irq}
    /\ stack' = << >> /\ calls' = << >>
    /\ step' = [kind |-> "reset", i |-> I]

Instruction == \/ Other \/ Cli \/ Sei \/ Php \/ Plp \/ Jsr \/ Rts \/ Rti \/ Brk \/ Jam

CpuNext ==
    \/ ServiceNmi \/ ServiceIrq
    \/ Instruction
    \/ RaiseNmi \/ ToggleIrq \/ SoftReset

CpuSpec == CpuInit /\ [][CpuNext]_cpuVars

-----------------------------------------------------------------------------
(* An interrupt is transparent to the program it interrupts, however deeply it
   is interrupted itself and wherever SP wraps: RTI resumes at the saved PC
   with the saved flags and stack pointer, and RTS after the matching call. *)
HandlerIsTransparent ==
    [][ calls # << >> /\ calls' = Tail(calls) /\ step'.kind # "reset" =>
          LET f == Head(calls) IN
          /\ sp' = f.sp
          /\ f.kind \in {"interrupt", "call"} => pc' = f.pc
          /\ f.kind \in {"interrupt", "status"} => p' = (f.p \ {"B"}) \cup {"U"}
      ]_cpuVars

(* Every interrupt comes at its turn.  As the program's order of instructions
   sees the I flag, the poll after CLI, SEI or PLP uses the value from before
   it, and after anything else, entering a handler included, the live flag: no
   IRQ enters a handler while I is set, even when an NMI lands between SEI and
   the poll that SEI left to come.  And no instruction runs while an NMI is
   latched, nor while the IRQ line is up, I is clear and I was clear already
   before the last instruction (Cpu::step, delayed_i). *)
InterruptsAtTheirTurn ==
    [][ /\ ServiceIrq => IF step.kind = "latent" THEN ~step.i ELSE ~I
        /\ Instruction => ~nmi /\ ~(irq /\ ~I /\ ~step.i) ]_cpuVars
=============================================================================
