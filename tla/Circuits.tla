------------------------------ MODULE Circuits ------------------------------
(***************************************************************************)
(* The circuits over boolean shares: the two adders, the comparisons and   *)
(* the division of secret words, and the conversions between the two kinds *)
(* of shares that rest on them.                                            *)
(*                                                                         *)
(* A word is a function from bit positions, the lowest 0, to 0 and 1.  The *)
(* circuits treat every element of a vector alike, so one element is       *)
(* modelled.  Packing one bit of every element into words of their own     *)
(* (Vectors.tla) makes a round cheaper and leaves that bit as it is: here  *)
(* it is the bit alone.  Words are signed, as in all the instances.        *)
(***************************************************************************)
EXTENDS Integers, FiniteSets

Width(x) == Cardinality(DOMAIN x)
Top(x) == Width(x) - 1
WordOf(n, w) == [i \in 0 .. w - 1 |-> (n \div 2 ^ i) % 2]
NumberOf(x) ==
    LET n[i \in -1 .. Top(x)] == IF i = -1 THEN 0 ELSE n[i - 1] + (x[i] * 2 ^ i) IN n[Top(x)]
BitLength(n) == CHOOSE k \in 0 .. n : n < 2 ^ k /\ \A l \in 0 .. k - 1 : 2 ^ l <= n

----------------------------------------------------------------------------
(* The operations on the bits of words.                                    *)
Xor1(b, c) == (b + c) % 2
Or1(b, c) == 1 - (1 - b) * (1 - c)

Xor(x, y) == [i \in DOMAIN x |-> Xor1(x[i], y[i])]
And(x, y) == [i \in DOMAIN x |-> x[i] * y[i]]
Not(x) == [i \in DOMAIN x |-> 1 - x[i]]
OrBits(x, y) == Not(And(Not(x), Not(y)))

LeftShift(x, k) == [i \in DOMAIN x |-> IF i < k THEN 0 ELSE x[i - k]]
RightShift(x, k) == [i \in DOMAIN x |-> IF i + k > Top(x) THEN x[Top(x)] ELSE x[i + k]]
Mask1(x) == [i \in DOMAIN x |-> IF i = 0 THEN x[0] ELSE 0]
OneBit(b, x) == [i \in DOMAIN x |-> IF i = 0 THEN b ELSE 0]
NotBit(x) == OneBit(1 - x[0], x)
LTZ(x) == OneBit(x[Top(x)], x)
Parity(x) == OneBit(Cardinality({i \in DOMAIN x : x[i] = 1}) % 2, x)
Muxed(s, x, y) == IF s[0] = 1 THEN y ELSE x

----------------------------------------------------------------------------
(* The adders.  The carry is a where the two bits are equal, else itself.  *)
Carry(a, aXorB, carryIn) ==
    LET c[i \in DOMAIN a] ==
            IF i = 0 THEN carryIn
            ELSE Xor1(aXorB[i - 1] * Xor1(c[i - 1], a[i - 1]), a[i - 1])
    IN  c

RippleCarryAdder(a, b, carryIn) == Xor(Xor(a, b), Carry(a, Xor(a, b), carryIn))

(* The sign of a - b: carries only, and the sum bit of the top.            *)
RcaCompare(a, b) ==
    LET aXorB == Xor(a, Not(b))
    IN  OneBit(Xor1(Carry(a, aXorB, 1)[Top(a)], aXorB[Top(a)]), a)

(* Generate and propagate of two runs of bits, the lower one second.       *)
PrefixSumGP(x, y) ==
    LET p == And(y.p, x.p)
        g == And(y.g, x.p)
    IN  [g |-> Xor(Xor(x.g, g), And(x.g, g)), p |-> p]

ParallelPrefixAdder(current, other, carryIn) ==
    LET w == Width(current)
        p0 == Xor(current, other)
        g0 == And(current, other)
        start == IF carryIn = 1 THEN [g |-> Xor(g0, Mask1(p0)), p |-> Xor(p0, WordOf(1, w))]
                 ELSE [g |-> g0, p |-> p0]
        level[i \in 0 .. BitLength(w - 1)] ==
            IF i = 0 THEN start
            ELSE LET s == level[i - 1]
                     d == 2 ^ (i - 1)
                 IN  PrefixSumGP(s, [g |-> LeftShift(s.g, d), p |-> LeftShift(s.p, d)])
    IN  Xor(start.p, LeftShift(level[BitLength(w - 1)].g, 1))

(* Which adder runs is decided from the speed of the network.              *)
Adders == {"rca", "ppa"}
BinaryAdder(adder, a, b, carryIn) ==
    IF adder = "rca" THEN RippleCarryAdder(a, b, carryIn) ELSE ParallelPrefixAdder(a, b, carryIn)

Plus(adder, a, b) == BinaryAdder(adder, a, b, 0)
Minus(adder, a, b) == BinaryAdder(adder, a, Not(b), 1)
Negative(adder, a) == Minus(adder, WordOf(0, Width(a)), a)

----------------------------------------------------------------------------
(* The comparisons.  Bit i of the prefix says that a and b agree from bit  *)
(* i up.                                                                   *)
BitSame(a, b) ==
    LET w == Width(a)
        same[l \in 0 .. BitLength(w - 1)] ==
            IF l = 0 THEN Not(Xor(a, b))
            ELSE And(same[l - 1], RightShift(same[l - 1], 2 ^ (l - 1)))
    IN  same[BitLength(w - 1)]

LinearSame(a, b) ==
    LET r[i \in DOMAIN a] ==
            IF i = Top(a) THEN 1 - Xor1(a[i], b[i]) ELSE r[i + 1] * (1 - Xor1(a[i], b[i]))
    IN  r

(* Seeded error: the signs are compared like the other bits.               *)
GreaterUnsigned(same, a, b) == Parity(And(Xor(RightShift(same, 1), same), a))

(* The highest bit that differs, if a has it; the signs have the last word *)
(* where they differ.                                                      *)
GreaterFrom(same, a, b) ==
    LET gt == Parity(And(Xor(RightShift(same, 1), same), a))
        r == Xor1(gt[0], b[Top(b)])
        s2 == Or1(Xor1(b[Top(b)], a[Top(a)]), r)
    IN  OneBit(Xor1(a[Top(a)], s2), a)

CompareWords(a, b) ==
    LET same == BitSame(a, b) IN [eq |-> Mask1(same), gt |-> GreaterFrom(same, a, b)]
LinearCompare(a, b) ==
    LET same == LinearSame(a, b) IN [eq |-> Mask1(same), gt |-> GreaterFrom(same, a, b)]

Equal(a, b) == Mask1(BitSame(a, b))
NotEqual(a, b) == NotBit(Equal(a, b))
Greater(a, b) == CompareWords(a, b).gt
Less(a, b) == Greater(b, a)
GreaterEqual(a, b) == NotBit(Less(a, b))
LessEqual(a, b) == NotBit(Greater(a, b))

----------------------------------------------------------------------------
(* Division, in words of twice the width: the remainder goes towards zero  *)
(* by the divisor in the upper half, one bit of the quotient a round.  The *)
(* bits of q stand for 1 and -1 until the end.  Between the rounds both    *)
(* words are written as the numbers they hold.                             *)
Widen(x) == [i \in 0 .. 2 * Width(x) - 1 |-> IF i > Top(x) THEN x[Top(x)] ELSE x[i]]
Narrow(x) == [i \in 0 .. (Width(x) \div 2) - 1 |-> x[i]]

DivideWords(adder, a, b) ==
    LET w == Width(a)
        d == LeftShift(Widen(b), w)
        negD == Negative(adder, d)
        round[k \in 0 .. w] ==
            IF k = 0 THEN [r |-> NumberOf(Widen(a)), q |-> 0]
            ELSE LET s == round[k - 1]
                     r == WordOf(s.r, 2 * w)
                     c == NotBit(LTZ(r))
                 IN  [q |-> NumberOf(Xor(WordOf(s.q, 2 * w), LeftShift(c, w - k))),
                      r |-> NumberOf(Plus(adder, LeftShift(r, 1), Muxed(c, d, negD)))]
        last == round[w]
        q == WordOf(last.q, 2 * w)
    IN  Narrow(Minus(adder, q, Plus(adder, Not(q), LTZ(WordOf(last.r, 2 * w)))))

----------------------------------------------------------------------------
(* Conversions.  The two arithmetic summands of a word are shared as       *)
(* boolean words and added; the other way, the mask r is known in both     *)
(* sharings and is taken off what is opened.                               *)
A2B(adder, x, r) == Plus(adder, Minus("rca", x, r), r)
B2A(adder, x, r) == LET z == Plus(adder, x, r) IN Plus("rca", Negative("rca", r), z)
=============================================================================
