------------------------------ MODULE ByteBits ------------------------------
(***************************************************************************)
(* Rust's &, | and ^ on a u8, bit by bit.  Of a wider operand the upper    *)
(* bits are not looked at: where the core has one, the other is a byte,    *)
(* and & gives none of them.                                               *)
(***************************************************************************)
LOCAL INSTANCE Integers

\* Whether the bit of weight w is set.
HasBit(n, w) == (n \div w) % 2 = 1

\* The byte of eight bits, the first of weight 128.
OfBits(b7, b6, b5, b4, b3, b2, b1, b0) ==
    (IF b7 THEN 128 ELSE 0) + (IF b6 THEN 64 ELSE 0) + (IF b5 THEN 32 ELSE 0)
    + (IF b4 THEN 16 ELSE 0) + (IF b3 THEN 8 ELSE 0) + (IF b2 THEN 4 ELSE 0)
    + (IF b1 THEN 2 ELSE 0) + (IF b0 THEN 1 ELSE 0)

BitAnd(m, n) ==
    LET both(w) == HasBit(m, w) /\ HasBit(n, w)
    IN  OfBits(both(128), both(64), both(32), both(16), both(8), both(4), both(2), both(1))

BitOr(m, n) ==
    LET either(w) == HasBit(m, w) \/ HasBit(n, w)
    IN  OfBits(either(128), either(64), either(32), either(16), either(8), either(4),
               either(2), either(1))

BitXor(m, n) ==
    LET one(w) == HasBit(m, w) # HasBit(n, w)
    IN  OfBits(one(128), one(64), one(32), one(16), one(8), one(4), one(2), one(1))
=============================================================================
