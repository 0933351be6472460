------------------------------- MODULE Words -------------------------------
(***************************************************************************)
(* Machine words of Bits bits: the ring in which arithmetic shares add up, *)
(* the bits in which boolean shares do, and the division of C++.           *)
(***************************************************************************)
EXTENDS Integers, FiniteSetsExt

CONSTANT Bits

BitsAssumption == Bits \in Nat \ {0}

Size == 2 ^ Bits
Word == 0 .. Size - 1

Plus(a, b) == (a + b) % Size
Minus(a, b) == (a - b) % Size
Times(a, b) == (a * b) % Size

Bit(a, i) == (a \div 2 ^ i) % 2

(* The bitwise operators, as tables.                                       *)
Places == 0 .. Bits - 1
FromBits(bits) == MapThenSumSet(LAMBDA i : bits[i] * 2 ^ i, Places)
XorTable == [w \in Word \X Word |-> FromBits([i \in Places |-> (Bit(w[1], i) + Bit(w[2], i)) % 2])]
AndTable == [w \in Word \X Word |-> FromBits([i \in Places |-> Bit(w[1], i) * Bit(w[2], i)])]

Xor(a, b) == XorTable[<<a, b>>]
And(a, b) == AndTable[<<a, b>>]
Complement(a) == Size - 1 - a
LogicalNot(a) == IF a = 0 THEN 1 ELSE 0
LSB(a) == a % 2

(* Two's complement: the words of the upper half are negative.             *)
IsNegative(a) == a >= Size \div 2
Sign(a) == IF IsNegative(a) THEN 1 ELSE 0
Signed(a) == IF IsNegative(a) THEN a - Size ELSE a

(* Division by a positive constant rounds towards zero; the remainder has  *)
(* the sign of the dividend.                                               *)
Quotient(a, c) ==
    IF IsNegative(a) THEN (0 - (Size - a) \div c) % Size ELSE a \div c
Remainder(a, c) == Minus(a, Times(c, Quotient(a, c)))

(* The operations of the two kinds of shares: "A" adds, "B" is bitwise.    *)
Encodings == {"A", "B"}
Add(enc, a, b) == IF enc = "A" THEN Plus(a, b) ELSE Xor(a, b)
Sub(enc, a, b) == IF enc = "A" THEN Minus(a, b) ELSE Xor(a, b)
Mul(enc, a, b) == IF enc = "A" THEN Times(a, b) ELSE And(a, b)
=============================================================================
