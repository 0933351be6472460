----------------------------- MODULE MCCircuits -----------------------------
(***************************************************************************)
(* The circuits on every pair of words of four bits, and the packing of    *)
(* bits, compared with the arithmetic of integers.                         *)
(***************************************************************************)
EXTENDS Circuits, Vectors, Calls

CircuitWidth == 4
SignedWords == -8 .. 7
Signed(x) == NumberOf(x) - (IF x[Top(x)] = 1 THEN 2 ^ Width(x) ELSE 0)
ToWord(n) == WordOf(n, CircuitWidth)
ToWords(x) == [i \in DOMAIN x |-> ToWord(x[i])]
AsBit(b) == IF b THEN 1 ELSE 0

PairArgs == [a : SignedWords, b : SignedWords]
(* Vectors of up to nine words of two bits; a batch of them is cut at i.   *)
BitVectors == [1 .. 5 -> 0 .. 3] \cup {<<3, 0, 1, 2, 2, 1, 0, 3, 1>>}
PackArgs == {p \in [x : BitVectors, position : 0 .. 1, cut : 0 .. 4, width : {2}] :
                p.cut <= Len(p.x) \div p.width}
Selections == {SimpleBits(0, 1, 1, 1), SimpleBits(1, 1, 3, 1), SimpleBits(0, 2, 3, 2),
               AlternatingBits(4, 0, 1, 1, 1, 1), AlternatingBits(4, 0, 1, 2, 1, 1),
               AlternatingBits(4, 1, 1, 1, 1, 1), AlternatingBits(4, 0, 1, 2, 2, -1)}
CompressArgs == [x : [1 .. 2 -> {0, 5, 6, 11, 15}], bits : Selections]

CircuitInit ==
    \/ op \in {"add", "compare", "divide", "convert"} /\ arg \in PairArgs
    \/ op = "pack" /\ arg \in PackArgs
    \/ op = "compress" /\ arg \in CompressArgs

(* Packed in two batches, whichever is first, and unpacked in two.         *)
PackInBatches(x, w, position, cut) ==
    LET n == DivCeil(Len(x), w)
        none == [i \in 1 .. n |-> WordOf(0, w)]
    IN  PackBatch(PackBatch(none, w, x, position, cut, n), w, x, position, 0, cut)
UnpackInBatches(into, packed, w, position, cut) ==
    UnpackBatch(UnpackBatch(into, w, packed, position, cut * w, Len(into)),
                w, packed, position, 0, cut * w)

CircuitCall ==
    LET x == ToWord(arg.a)
        y == ToWord(arg.b)
        words == [i \in DOMAIN arg.x |-> WordOf(arg.x[i], arg.width)]
    IN  \/ /\ op = "add"
           /\ Return([adder \in Adders |->
                  <<Signed(Plus(adder, x, y)), Signed(BinaryAdder(adder, x, y, 1)),
                    Signed(Minus(adder, x, y)), Signed(Negative(adder, x))>>])
        \/ /\ op = "compare"
           /\ Return([gt |-> Greater(x, y)[0], lt |-> Less(x, y)[0], geq |-> GreaterEqual(x, y)[0],
                      leq |-> LessEqual(x, y)[0], eq |-> Equal(x, y)[0], neq |-> NotEqual(x, y)[0],
                      linear |-> LinearCompare(x, y), fast |-> CompareWords(x, y),
                      rca |-> RcaCompare(x, y)[0]])
        \/ op = "divide" /\ \E adder \in Adders : Return(Signed(DivideWords(adder, x, y)))
        \/ /\ op = "convert"
           /\ \E adder \in Adders :
                  Return(<<Signed(A2B(adder, x, y)), Signed(B2A(adder, x, y))>>)
        \/ /\ op = "pack"
           /\ LET packed == PackInBatches(words, arg.width, arg.position, arg.cut)
              IN  Return([packed |-> packed,
                          back |-> UnpackInBatches(words, packed, arg.width, arg.position, arg.cut),
                          moved |-> UnpackInBatches(words, packed, arg.width, 1 - arg.position, arg.cut)])
        \/ /\ op = "compress"
           /\ LET packed == Compress(ToWords(arg.x), CircuitWidth, arg.bits)
                  none == [i \in DOMAIN arg.x |-> ToWord(0)]
              IN  Return([packed |-> packed,
                          back |-> Decompress(ToWords(arg.x), CircuitWidth, arg.bits, packed),
                          only |-> Decompress(none, CircuitWidth, arg.bits, packed)])

----------------------------------------------------------------------------
(* The integer a word of four bits holds when n is cut to it.              *)
Wrapped(n) == Signed(ToWord(n))
FloorDivision(a, b) == CHOOSE q \in SignedWords : q * b <= a /\ a < (q + 1) * b

(* Both adders add, with and without a carry, and subtract modulo 2^w; the *)
(* comparisons order signed words, the linear one like the one in log      *)
(* rounds, and rca_compare gives the sign of the difference, which is the  *)
(* order only while that does not overflow (circuits.h).  Division rounds  *)
(* down for divisors above zero; for zero it gives the -1 or 0 the queries *)
(* count with.  Conversions keep the value whatever the mask.  Bits packed *)
(* in batches of workers are the bits packed at once, and come back.       *)
CircuitsCompute ==
    /\ Returned({"add"}) =>
           \A adder \in Adders :
               out[adder] = <<Wrapped(arg.a + arg.b), Wrapped(arg.a + arg.b + 1),
                              Wrapped(arg.a - arg.b), Wrapped(-arg.a)>>
    /\ Returned({"compare"}) =>
           /\ out.gt = AsBit(arg.a > arg.b) /\ out.lt = AsBit(arg.a < arg.b)
           /\ out.geq = AsBit(arg.a >= arg.b) /\ out.leq = AsBit(arg.a <= arg.b)
           /\ out.eq = AsBit(arg.a = arg.b) /\ out.neq = AsBit(arg.a # arg.b)
           /\ out.linear = out.fast
           /\ out.rca = AsBit(Wrapped(arg.a - arg.b) < 0)
           /\ arg.a - arg.b \in SignedWords => out.rca = out.lt
    /\ Returned({"divide"}) =>
           /\ arg.b > 0 => out = FloorDivision(arg.a, arg.b)
           /\ arg.b = 0 => out = IF arg.a < 0 THEN 0 ELSE -1
    /\ Returned({"convert"}) => out = <<arg.a, arg.a>>
    /\ Returned({"pack"}) =>
           /\ \A i \in DOMAIN arg.x :
                  LET bit == (arg.x[i] \div 2 ^ arg.position) % 2
                  IN  /\ out.packed[((i - 1) \div arg.width) + 1][(i - 1) % arg.width] = bit
                      /\ out.back[i] = WordOf(arg.x[i], arg.width)
                      /\ out.moved[i][1 - arg.position] = bit
           /\ Len(out.packed) = DivCeil(Len(arg.x), arg.width)
    /\ Returned({"compress"}) =>
           /\ out.back = ToWords(arg.x)
           /\ \A i \in DOMAIN arg.x : \A b \in 0 .. CircuitWidth - 1 :
                  out.only[i][b] = IF \E k \in DOMAIN arg.bits : arg.bits[k] = b
                                   THEN ToWord(arg.x[i])[b] ELSE 0
=============================================================================
