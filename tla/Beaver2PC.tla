----------------------------- MODULE Beaver2PC -----------------------------
(***************************************************************************)
(* The primitives of the two-party protocol (Beaver_2PC): additive shares  *)
(* and Beaver triples.                                                     *)
(***************************************************************************)
EXTENDS Sharing

CONSTANT BitsOnly     \* whether not_b_1 is only called on shares of one bit

Both == {0, 1}
Beaver2PCAssumption ==
    /\ SharingAssumption
    /\ NumParties = 2 /\ ReplicationNumber = 1 /\ Groups = {{0}, {1}, Both}
    /\ BitsOnly \in BOOLEAN

Other(p) == Rank(p, 1)
sh(r, p) == view[r].sh[p][0]
Single(w) == [p \in Parties |-> [i \in Index |-> w[p]]]

(* A triple from two correlations A + B = C * D, of which P0 gets C and A, *)
(* P1 gets D and B, in the order B, C, D.  P1 takes its two factors in     *)
(* reverse.                                                                *)
TripleWords == 6
Left(p, k) == Draw(p, Both, 2 * k)
Right(p, k) == Draw(p, Both, 2 * k + 1)
Addend(enc, p, at(_, _)) ==
    IF p = 0 THEN Sub(enc, Mul(enc, at(p, 1), at(p, 2)), at(p, 0)) ELSE at(p, 0)
Factor(p, at(_, _)) == at(p, IF p = 0 THEN 1 ELSE 2)
Triple(enc) == [p \in Parties |->
    LET a == IF p = 0 THEN Factor(p, Left) ELSE Factor(p, Right)
        b == IF p = 0 THEN Factor(p, Right) ELSE Factor(p, Left)
    IN  [a |-> a, b |-> b,
         c |-> Add(enc, Mul(enc, a, b), Add(enc, Addend(enc, p, Left), Addend(enc, p, Right)))]]

(* Both parties open the masked factors.                                   *)
Product(enc, x, y) ==
    LET t == Triple(enc)
        A == Add(enc, Add(enc, x[0], t[0].a), Add(enc, x[1], t[1].a))
        B == Add(enc, Add(enc, y[0], t[0].b), Add(enc, y[1], t[1].b))
    IN  Single([p \in Parties |->
            Add(enc, Sub(enc, Mul(enc, y[p], A), Mul(enc, t[p].a, B)), t[p].c)])

Own(r) == [p \in Parties |-> sh(r, p)]
Multiply(x, y, z, enc) ==
    /\ Is(x, enc) /\ Is(y, enc) /\ Call("multiply", <<x, y, z, enc>>)
    /\ Write(z, Vector(enc, Product(enc, Own(x), Own(y))))
    /\ DrawnBy(Both, Both, TripleWords)

(* P1 negates its bit: the square of the difference is the exclusive or.   *)
B2ABit(x, z) ==
    LET xm == [p \in Parties |-> IF p = 1 THEN Minus(0, LSB(sh(x, p))) ELSE LSB(sh(x, p))]
    IN  /\ Is(x, "B") /\ Call("b2a_bit", <<x, z>>)
        /\ Write(z, Vector("A", Product("A", xm, xm)))
        /\ DrawnBy(Both, Both, TripleWords)

NotB(x, z) ==
    /\ Is(x, "B") /\ Call("not", <<x, z>>)
    /\ Write(z, Vector("B", Single([p \in Parties |->
                   IF p = 0 THEN Complement(sh(x, p)) ELSE sh(x, p)])))
    /\ NothingDrawn
Not1Shares(x) == [p \in Parties |-> IF p = 0 THEN LogicalNot(sh(x, p)) ELSE sh(x, p)]
NotB1(x, z) ==
    /\ Is(x, "B") /\ Call("not_1", <<x, z>>)
    /\ (BitsOnly => \A p \in Parties : sh(x, p) \in {0, 1})
    /\ Write(z, Vector("B", Single(Not1Shares(x))))
    /\ NothingDrawn

(* A correction that leaves the ring.                                      *)
FloorUnreduced(w) == Quotient(w, Divisor) - Sign(w)
Floor(w) == Minus(Quotient(w, Divisor), Sign(w))
Rest(w) == Plus(Remainder(w, Divisor), Times(Sign(w), Divisor))
DivConst(x, z, e) ==
    /\ Is(x, "A") /\ Call("div", <<x, z, e>>)
    /\ WriteBoth(z, Vector("A", Single([p \in Parties |-> Floor(sh(x, p))])),
                 e, Vector("A", Single([p \in Parties |->
                        IF p = 0 THEN Rest(sh(x, p)) ELSE Minus(Rest(sh(x, p)), Divisor)])))
    /\ NothingDrawn

(* Each party shares its word as bits.                                     *)
Redistribute(x, z1, z2) ==
    /\ Is(x, "A") /\ Call("redistribute", <<x, z1, z2>>)
    /\ WriteBoth(z1, Vector("B", Dealt("B", sh(x, 0), 0, 0)),
                 z2, Vector("B", Dealt("B", sh(x, 1), 1, 0)))
    /\ Drawn(LAMBDA p, g : IF g = {p} THEN 1 ELSE 0)

PublicShare(z, enc, w, whoKnows) ==
    /\ Call("share", <<z, enc, w>>)
    /\ Write(z, Vector(enc, Single([p \in Parties |->
           IF (whoKnows = {} /\ p = 0) \/ p \in whoKnows THEN w ELSE 0])))
    /\ NothingDrawn

OpenShares(x) == Open(x, LAMBDA p : sh(x, Other(p))) /\ NothingDrawn

Init == SharingInit

OnOne(x) ==
    \/ \E enc \in Encodings, w \in Inputs :
           \/ \E p \in Parties : SecretShare(x, enc, w, p, 0)
           \/ \E S \in {{}, {0}, {1}} : PublicShare(x, enc, w, S)
    \/ OpenShares(x)
OnTwo(x, z) ==
    NotB(x, z) \/ NotB1(x, z) \/ Mask(x, z) \/ LTZ(x, z) \/ B2ABit(x, z)
OnThree(x, y, z) ==
    \/ \E enc \in Encodings :
           AddUp(x, y, z, enc) \/ Subtract(x, y, z, enc) \/ Multiply(x, y, z, enc)
    \/ DivConst(x, y, z) \/ Redistribute(x, y, z)

Next ==
    \/ \E x \in Registers : OnOne(x)
    \/ \E x, z \in Registers : OnTwo(x, z)
    \/ \E x, y, z \in Registers : OnThree(x, y, z)

Spec == Init /\ [][Next]_sharingVars

(* The comment on operator! of a boolean vector: it is no comparison with  *)
(* zero, it considers the last bit.  The result then has the other one.    *)
NotConsidersLastBit ==
    [][\A x, z \in Registers :
           NotB1(x, z) => LSB(Plaintext(z).word') = 1 - LSB(Plaintext(x).word)]_sharingVars
=============================================================================
