----------------------------- MODULE Custom4PC -----------------------------
(***************************************************************************)
(* The primitives of the four-party protocol with fewer rounds.  A word    *)
(* that two parties know goes from both of them to a third one, who        *)
(* compares the two at once.                                               *)
(***************************************************************************)
EXTENDS FourParties

Custom4PCAssumption == FourPartiesAssumption

VARIABLE ok        \* whether every comparison so far has succeeded

vars == <<sharingVars, ok>>

Checked(same) == ok' = (ok /\ same)

(* Word number n that p draws from the generator without g, after k[g]     *)
(* that were drawn for the inputs of the primitive.                        *)
Random(p, g, k, n) == Draw(p, Without(g), k[g] + n)

(* Shared input of the words w of i and j, to g: i, j and h draw a share,  *)
(* k words after others of the primitive, and what is left of w is the     *)
(* other one, sent to g by both.                                           *)
Input(enc, i, j, g, h, k, w) == [enc |-> enc, i |-> i, j |-> j, g |-> g, h |-> h, k |-> k, w |-> w]
Drew(in, p) == Draw(p, Without(in.g), in.k)
Left(in, p) == Sub(in.enc, in.w[p], Drew(in, p))
inp(in) ==
    [p \in Parties |-> [n \in Index |->
        CASE <<p, n>> \in {<<in.i, 0>>, <<in.j, 1>>, <<in.h, 2>>} -> Drew(in, p)
          [] <<p, n>> \in {<<in.i, 1>>, <<in.j, 2>>} -> Left(in, p)
          [] <<p, n>> = <<in.g, 0>> -> Left(in, Rank(p, 3))
          [] OTHER -> 0]]
InputSame(in) == Left(in, Rank(in.g, 3)) = Left(in, Rank(in.g, 2))
InputsDrawn(ins, p, S) ==
    Cardinality({n \in DOMAIN ins : S = Without(ins[n].g) /\ p \in {ins[n].i, ins[n].j, ins[n].h}})

(* The cross terms of a product: those of two neighbouring shares, once    *)
(* for the predecessor and once for the opposite party, and those of the   *)
(* first and the last share.                                               *)
Known(enc, x, y, a, b) ==
    Add(enc, Mul(enc, x[a], y[a]), Add(enc, Mul(enc, x[a], y[b]), Mul(enc, x[b], y[a])))
Cross10(enc, x, y, k, p) == Sub(enc, Known(enc, x[p], y[p], 0, 1), Random(p, Rank(p, 1), k, 0))
Cross12(enc, x, y, k, p) == Sub(enc, Known(enc, x[p], y[p], 1, 2), Random(p, Rank(p, 2), k, 0))
Cross02(enc, x, y, k, p) ==
    Sub(enc, Add(enc, Mul(enc, x[p][0], y[p][2]), Mul(enc, x[p][2], y[p][0])),
        Random(p, IF p \in {0, 2} THEN 1 ELSE 2, k, 1))
Common(enc, x, y, k, p) ==
    <<Add(enc, Cross10(enc, x, y, k, Rank(p, -1)), Random(p, Rank(p, 1), k, 0)),
      Add(enc, Cross10(enc, x, y, k, p), Random(p, Rank(p, 2), k, 0)),
      Add(enc, Cross12(enc, x, y, k, p), Random(p, Rank(p, -1), k, 0))>>
Adjustment(enc, x, y, k, p) ==
    LET cross(q) == Cross02(enc, x, y, k, q)
    IN  CASE p = 0 -> <<Random(0, 1, k, 1), Random(0, 2, k, 1), cross(0)>>
          [] p = 1 -> <<Random(1, 2, k, 1), cross(0), cross(1)>>
          [] p = 2 -> <<cross(2), cross(3), Random(2, 1, k, 1)>>
          [] p = 3 -> <<cross(3), Random(3, 1, k, 1), Random(3, 2, k, 1)>>
Product(enc, x, y, k) ==
    [p \in Parties |-> [i \in Index |->
        Add(enc, Common(enc, x, y, k, p)[i + 1], Adjustment(enc, x, y, k, p)[i + 1])]]
ProductSame(enc, x, y, k) ==
    /\ \A p \in Parties : Cross10(enc, x, y, k, Rank(p, -1)) = Cross12(enc, x, y, k, Rank(p, 2))
    /\ Cross02(enc, x, y, k, 0) = Cross02(enc, x, y, k, 2)
    /\ Cross02(enc, x, y, k, 1) = Cross02(enc, x, y, k, 3)
(* One word from each generator, and a second one from these.              *)
SecondWord(p) == CASE p \in {0, 3} -> {1, 2} [] p = 1 -> {2} [] p = 2 -> {1}
ProductDrawn(p, S) ==
    Cardinality({g \in Parties \ {p} : S = Without(g)})
        + Cardinality({g \in SecondWord(p) : S = Without(g)})

Multiply(x, y, z, enc) ==
    LET none == [g \in Parties |-> 0]
    IN  /\ Is(x, enc) /\ Is(y, enc) /\ Call("multiply", <<x, y, z, enc>>)
        /\ Write(z, Vector(enc, Product(enc, view[x].sh, view[y].sh, none)))
        /\ Checked(ProductSame(enc, view[x].sh, view[y].sh, none))
        /\ Drawn(ProductDrawn)

(* P0 and P1 input the exclusive or of bits 2 and 3, P2 and P3 that of     *)
(* bits 0 and 1; the square of the difference is the result.               *)
B2ABit(x, z) ==
    LET half == [p \in Parties |-> HalfBit(x, p)]
        share0 == Input("A", 1, 0, 2, 3, 0, half)
        share1 == Input("A", 3, 2, 0, 1, 0, half)
        difference == Local(Minus, inp(share0), inp(share1))
        k == [g \in Parties |-> IF g \in {share0.g, share1.g} THEN 1 ELSE 0]
    IN  /\ Is(x, "B") /\ Call("b2a_bit", <<x, z>>)
        /\ Write(z, Vector("A", Product("A", difference, difference, k)))
        /\ Checked(InputSame(share0) /\ InputSame(share1) /\ ProductSame("A", difference, difference, k))
        /\ Drawn(LAMBDA p, S : InputsDrawn(<<share0, share1>>, p, S) + ProductDrawn(p, S))

InputsDone(ins) ==
    /\ Checked(\A n \in DOMAIN ins : InputSame(ins[n]))
    /\ Drawn(LAMBDA p, S : InputsDrawn(ins, p, S))

(* The quotient, then the error, of the two halves.                        *)
DivConst(x, z, e) ==
    LET rest == [p \in Parties |-> RestOfPart(x, p)]
        floor == [p \in Parties |-> Floor(Part(x, p))]
        res1 == Input("A", 3, 2, 0, 1, 0, floor)
        res2 == Input("A", 1, 0, 2, 3, 0, floor)
        err1 == Input("A", 3, 2, 0, 1, 1, rest)
        err2 == Input("A", 1, 0, 2, 3, 1, rest)
    IN  /\ Is(x, "A") /\ Call("div", <<x, z, e>>)
        /\ WriteBoth(z, Vector("A", Local(Plus, inp(res1), inp(res2))),
                     e, Vector("A", Local(Plus, inp(err1), inp(err2))))
        /\ InputsDone(<<res1, res2, err1, err2>>)

(* P0 and P3 input the sum of shares 1 and 2 as bits, P2 and P1 that of 3  *)
(* and 0.                                                                  *)
Redistribute(x, z1, z2) ==
    LET sum == [p \in Parties |-> IF p \in {0, 2} THEN Plus(view[x].sh[p][0], view[x].sh[p][1])
                                  ELSE Plus(view[x].sh[p][1], view[x].sh[p][2])]
        first == Input("B", 0, 3, 1, 2, 0, sum)
        second == Input("B", 2, 1, 3, 0, 0, sum)
    IN  /\ Is(x, "A") /\ Call("redistribute", <<x, z1, z2>>)
        /\ WriteBoth(z1, Vector("B", inp(first)), z2, Vector("B", inp(second)))
        /\ InputsDone(<<first, second>>)

(* Every party passes its first share on; nothing is compared.             *)
OpenShares(x) ==
    /\ Open(x, LAMBDA p : view[x].sh[Rank(p, 3)][0])
    /\ NothingDrawn /\ UNCHANGED ok

(* Each member of the group sends two of its shares, rerandomized: every   *)
(* share arrives twice.                                                    *)
Reshare(x, receiver) ==
    LET g == Without(receiver)
        mine == Rerandomized(x, g)
        from(distance, n) == mine[Rank(receiver, -distance)][n]
        received == <<from(1, 1), from(3, 0), from(2, 0)>>
    IN  /\ view[x].enc # "none" /\ Call("reshare", <<x>>)
        /\ Write(x, Vector(view[x].enc, [mine EXCEPT ![receiver] = [i \in Index |-> received[i + 1]]]))
        /\ Checked(/\ from(1, 1) = from(2, 2)
                   /\ from(3, 0) = from(1, 2)
                   /\ from(2, 0) = from(3, 1))
        /\ DrawnBy(g, g, NumParties - 1)

Init == SharingInit /\ ok = TRUE

(* Only P0 shares: another owner would send to the wrong parties.          *)
OnOne(x) ==
    \/ \E enc \in Encodings, w \in Inputs :
           /\ SecretShare(x, enc, w, 0, 0) \/ \E p \in Parties : PublicShare(x, enc, w, p)
           /\ UNCHANGED ok
    \/ OpenShares(x)
    \/ \E receiver \in Parties : Reshare(x, receiver)
OnTwo(x, z) ==
    \/ (NotB(x, z) \/ NotB1(x, z) \/ Mask(x, z) \/ LTZ(x, z)) /\ UNCHANGED ok
    \/ B2ABit(x, z)
OnThree(x, y, z) ==
    \/ \E enc \in Encodings :
           \/ (AddUp(x, y, z, enc) \/ Subtract(x, y, z, enc)) /\ UNCHANGED ok
           \/ Multiply(x, y, z, enc)
    \/ DivConst(x, y, z) \/ Redistribute(x, y, z)

Next ==
    \/ \E x \in Registers : OnOne(x)
    \/ \E x, z \in Registers : OnTwo(x, z)
    \/ \E x, y, z \in Registers : OnThree(x, y, z)

Spec == Init /\ [][Next]_vars

TypeOK == SharingTypeOK /\ ok \in BOOLEAN

(* Parties that follow the protocol are never accused.                     *)
NoFalseAlarm == ok
=============================================================================
