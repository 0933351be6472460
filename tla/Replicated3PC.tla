--------------------------- MODULE Replicated3PC ---------------------------
(***************************************************************************)
(* The primitives of the three-party protocol (Replicated_3PC): party p    *)
(* holds shares p and p + 1.                                               *)
(***************************************************************************)
EXTENDS Sharing

Pairs == {{0, 1}, {1, 2}, {0, 2}}
Replicated3PCAssumption ==
    /\ SharingAssumption
    /\ NumParties = 3 /\ ReplicationNumber = 2
    /\ Groups = {{p} : p \in Parties} \cup Pairs

sh(r, p, i) == view[r].sh[p][i]

(* A word of each party, and the one that its successor sends.             *)
WithSuccessor(w) == [p \in Parties |-> [i \in Index |-> w[Rank(p, i)]]]

(* A product with one cross term only.                                     *)
OneCrossTerm(enc, x, y, k) ==
    WithSuccessor([p \in Parties |->
        Add(enc, ZeroShare(enc, p, k),
            Add(enc, Mul(enc, x[p][0], y[p][0]), Mul(enc, x[p][0], y[p][1])))])
(* One exchange: the products of own shares, hidden by sharing number k    *)
(* of zero.                                                                *)
Product(enc, x, y, k) ==
    WithSuccessor([p \in Parties |->
        Add(enc, ZeroShare(enc, p, k),
            Add(enc, Mul(enc, x[p][0], y[p][0]),
                Add(enc, Mul(enc, x[p][0], y[p][1]), Mul(enc, x[p][1], y[p][0]))))])

Multiply(x, y, z, enc) ==
    /\ Is(x, enc) /\ Is(y, enc) /\ Call("multiply", <<x, y, z, enc>>)
    /\ Write(z, Vector(enc, Product(enc, view[x].sh, view[y].sh, 0)))
    /\ Drawn(LAMBDA p, g : ZeroDrawn(p, g, 1))

(* P0 puts in the exclusive or of its two bits, P1 its second bit, each    *)
(* into a sharing of zero; the square of the difference is the result.     *)
B2ABit(x, z) ==
    LET bit(p, i) == LSB(sh(x, p, i))
        s0 == WithSuccessor([p \in Parties |->
                  Plus(ZeroShare("A", p, 0), IF p = 0 THEN Xor(bit(p, 0), bit(p, 1)) ELSE 0)])
        s1 == WithSuccessor([p \in Parties |->
                  Plus(ZeroShare("A", p, 1), IF p = 1 THEN bit(p, 1) ELSE 0)])
        difference == Local(Minus, s0, s1)
    IN  /\ Is(x, "B") /\ Call("b2a_bit", <<x, z>>)
        /\ Write(z, Vector("A", Product("A", difference, difference, 2)))
        /\ Drawn(LAMBDA p, g : ZeroDrawn(p, g, 3))

NotB(x, z) ==
    /\ Is(x, "B") /\ Call("not", <<x, z>>)
    /\ Write(z, Vector("B", [p \in Parties |-> [i \in Index |-> Complement(sh(x, p, i))]]))
    /\ NothingDrawn
Not1Shares(x) == [p \in Parties |-> [i \in Index |-> LogicalNot(LSB(sh(x, p, i)))]]
NotB1(x, z) ==
    /\ Is(x, "B") /\ Call("not_1", <<x, z>>)
    /\ Write(z, Vector("B", Not1Shares(x)))
    /\ NothingDrawn

(* P0 divides the sum of its shares and hands one part of the result, word *)
(* number k of their generator, to P1; P2 divides its own share.           *)
Floor(w) == Minus(Quotient(w, Divisor), Sign(w))
Rest(w) == Plus(Remainder(w, Divisor), Times(Sign(w), Divisor))
Handed(f, k, correction) ==
    WithSuccessor([p \in Parties |->
        CASE p = 0 -> Minus(f[p], Draw(0, {0, 1}, k))
          [] p = 1 -> Draw(1, {0, 1}, k)
          [] p = 2 -> Minus(f[p], correction)])
DivConst(x, z, e) ==
    LET part == [p \in Parties |->
                    IF p = 0 THEN Plus(sh(x, 0, 0), sh(x, 0, 1)) ELSE sh(x, p, 0)]
    IN  /\ Is(x, "A") /\ Call("div", <<x, z, e>>)
        /\ WriteBoth(z, Vector("A", Handed([p \in Parties |-> Floor(part[p])], 0, 0)),
                     e, Vector("A", Handed([p \in Parties |-> Rest(part[p])], 1, Divisor)))
        /\ DrawnBy({0, 1}, {0, 1}, 2)

(* P0 shares the sum of its two shares as bits, P2 its first one.          *)
Redistribute(x, z1, z2) ==
    /\ Is(x, "A") /\ Call("redistribute", <<x, z1, z2>>)
    /\ WriteBoth(z1, Vector("B", Dealt("B", Plus(sh(x, 0, 0), sh(x, 0, 1)), 0, 0)),
                 z2, Vector("B", Dealt("B", sh(x, 2, 0), 2, 0)))
    /\ Drawn(LAMBDA p, g : IF p \in {0, 2} /\ g = {p} THEN 2 ELSE 0)

(* The two that know the word hold one share in common.                    *)
CommonShare(whoKnows) ==
    CASE whoKnows \in {{}, {0, 2}} -> 0
      [] whoKnows = {0, 1} -> 1
      [] whoKnows = {1, 2} -> 2
PublicShare(z, enc, w, whoKnows) ==
    /\ Call("share", <<z, enc, w>>)
    /\ Write(z, Vector(enc, [p \in Parties |-> [i \in Index |->
           IF Rank(p, i) = CommonShare(whoKnows) THEN w ELSE 0]]))
    /\ NothingDrawn

(* A party receives the second share of its successor.                     *)
OpenShares(x) == Open(x, LAMBDA p : sh(x, Rank(p, 1), 1)) /\ NothingDrawn

Reshare(x, g) ==
    /\ view[x].enc # "none" /\ Call("reshare", <<x>>)
    /\ Write(x, Vector(view[x].enc, Reshared(Rerandomized(x, g), g)))
    /\ DrawnBy(g, g, NumParties - 1)

Init == SharingInit

OnOne(x) ==
    \/ \E enc \in Encodings, w \in Inputs :
           \/ \E p \in Parties : SecretShare(x, enc, w, p, 0)
           \/ \E S \in Pairs \cup {{}} : PublicShare(x, enc, w, S)
    \/ OpenShares(x)
    \/ \E g \in Pairs : Reshare(x, g)
OnTwo(x, z) ==
    NotB(x, z) \/ NotB1(x, z) \/ Mask(x, z) \/ LTZ(x, z) \/ B2ABit(x, z)
OnThree(x, y, z) ==
    \/ \E enc \in Encodings :
           AddUp(x, y, z, enc) \/ Subtract(x, y, z, enc) \/ Multiply(x, y, z, enc)
    \/ DivConst(x, y, z) \/ Redistribute(x, y, z)

Next ==
    \/ \E x \in Registers : OnOne(x)
    \/ \E x, z \in Registers : OnTwo(x, z)
    \/ \E x, y, z \in Registers : OnThree(x, y, z)

Spec == Init /\ [][Next]_sharingVars
=============================================================================
