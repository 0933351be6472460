---------------------------- MODULE FourParties ----------------------------
(***************************************************************************)
(* What the two protocols of four parties have in common: party p holds    *)
(* shares p + 1, p + 2 and p + 3, all but the one of its own number, and   *)
(* every three parties have a generator that the fourth does not know.     *)
(***************************************************************************)
EXTENDS Sharing

Without(p) == Parties \ {p}
FourPartiesAssumption ==
    /\ SharingAssumption
    /\ NumParties = 4 /\ ReplicationNumber = 3
    /\ Groups = {{p} : p \in Parties} \cup {Without(p) : p \in Parties}

abs2sh(me, p) == IF p = me THEN 0 ELSE (p - me - 1) % 4
sh(r, me, p) == view[r].sh[me][abs2sh(me, p)]

(* Share 3 is negated, by the three parties that hold it.                  *)
Negating(op(_), x) == [p \in Parties |-> [i \in Index |->
    IF <<p, i>> \in {<<2, 0>>, <<1, 1>>, <<0, 2>>} THEN op(x[p][i]) ELSE x[p][i]]]
NotB(x, z) ==
    /\ Is(x, "B") /\ Call("not", <<x, z>>)
    /\ Write(z, Vector("B", Negating(Complement, view[x].sh)))
    /\ NothingDrawn
Not1Shares(x) == Negating(LogicalNot, Masked(view[x].sh))
NotB1(x, z) ==
    /\ Is(x, "B") /\ Call("not_1", <<x, z>>)
    /\ Write(z, Vector("B", Not1Shares(x)))
    /\ NothingDrawn

(* The word becomes the share that only the party left out does not hold.  *)
PublicShare(z, enc, w, k) ==
    /\ Call("share", <<z, enc, w>>)
    /\ Write(z, Vector(enc, [p \in Parties |-> [i \in Index |->
           IF p # k /\ i = abs2sh(p, k) THEN w ELSE 0]]))
    /\ NothingDrawn

(* Half of the quotient: P3 and P2 divide the sum of shares 0 and 1, P1    *)
(* and P0 that of 2 and 3; division rounds down.                           *)
Part(x, p) == IF p \in {3, 2} THEN Plus(sh(x, p, 0), sh(x, p, 1)) ELSE Plus(sh(x, p, 2), sh(x, p, 3))
Floor(w) == Minus(Quotient(w, Divisor), Sign(w))
Rest(w) == Plus(Remainder(w, Divisor), Times(Sign(w), Divisor))
RestOfPart(x, p) == IF p \in {3, 2} THEN Minus(Rest(Part(x, p)), Divisor) ELSE Rest(Part(x, p))

(* The last bit of one half of the shares.                                 *)
HalfBit(x, p) ==
    LET bit(s) == LSB(sh(x, p, s))
    IN  IF p \in {3, 2} THEN Xor(bit(0), bit(1)) ELSE Xor(bit(2), bit(3))
=============================================================================
