---------------------------- MODULE Fantastic4PC ----------------------------
(***************************************************************************)
(* The primitives of the four-party protocol of Dalskov et al. A word that *)
(* two parties know goes to a third one by a joint message: one of the two *)
(* sends it, the other one and the receiver put it into a digest, and the  *)
(* digests are compared later.                                             *)
(***************************************************************************)
EXTENDS FourParties

Fantastic4PCAssumption == FourPartiesAssumption

VARIABLES
    digest,    \* digest[pa][p]: the words p has put into the digest of assignment pa
    ok         \* whether every comparison so far has succeeded

vars == <<sharingVars, digest, ok>>

next_party(i, j) ==
    LET a == IF i < j THEN i ELSE j
        b == IF i < j THEN j ELSE i
    IN  IF b = (a + 1) % 4 THEN (b + 1) % 4 ELSE (a + 1) % 4
excluded_party(i, j, k) == 6 - (i + j + k)

who_hashes(i, j) == IF i < j THEN j ELSE i
Assignment(i, j, r) ==
    [hasher |-> who_hashes(i, j), sender |-> i + j - who_hashes(i, j), receiver |-> r]
Assignments ==
    {Assignment(t[1], t[2], t[3]) : t \in
        {u \in Parties \X Parties \X Parties : Cardinality({u[1], u[2], u[3]}) = 3}}

(* A joint message: w is what each of the parties would send.              *)
Message(i, j, r, w) == [pa |-> Assignment(i, j, r), word |-> w]
(* A joint message that its hasher forgets to put into the digest.         *)
DigestedByReceiver(d, msg) ==
    [d EXCEPT ![msg.pa][msg.pa.receiver] = Append(@, msg.word[msg.pa.sender])]
Digested(d, msg) ==
    LET pa == msg.pa
        both(lists) == [lists EXCEPT ![pa.hasher] = Append(@, msg.word[pa.hasher]),
                                     ![pa.receiver] = Append(@, msg.word[pa.sender])]
    IN  [d EXCEPT ![pa] = both(@)]
Jmp(msgs) == digest' = FoldLeft(Digested, digest, msgs) /\ UNCHANGED ok
NoJmp == UNCHANGED <<digest, ok>>

(* Shared input of the words w of i and j: the sharing has share g, which  *)
(* all but Pg draw as word number k of their generator, and share h, which *)
(* i and j compute and send to Pg.                                         *)
Input(enc, i, j, k, w) ==
    LET g == next_party(i, j)
    IN  [enc |-> enc, i |-> i, j |-> j, g |-> g, h |-> excluded_party(i, j, g), k |-> k, w |-> w]
ShareG(in, p) == Draw(p, Without(in.g), in.k)
ShareH(in, p) == Sub(in.enc, in.w[p], ShareG(in, p))
(* A share that only the two owners keep.                                  *)
InputShareOfOwners(in, p, n) ==
    CASE p \in {in.i, in.j} /\ n = abs2sh(p, in.g) -> ShareG(in, p)
      [] p \in {in.i, in.j} /\ n = abs2sh(p, in.h) -> ShareH(in, p)
      [] p = in.g /\ n = abs2sh(p, in.h) -> ShareH(in, Assignment(in.i, in.j, p).sender)
      [] OTHER -> 0
InputShare(in, p, n) ==
    CASE p # in.g /\ n = abs2sh(p, in.g) -> ShareG(in, p)
      [] p \in {in.i, in.j} /\ n = abs2sh(p, in.h) -> ShareH(in, p)
      [] p = in.g /\ n = abs2sh(p, in.h) -> ShareH(in, Assignment(in.i, in.j, p).sender)
      [] OTHER -> 0
inp(in) == [p \in Parties |-> [n \in Index |-> InputShare(in, p, n)]]

(* The inputs of a primitive, in their order.                              *)
InputsSend(ins) ==
    Jmp([n \in DOMAIN ins |->
            Message(ins[n].i, ins[n].j, ins[n].g,
                    [p \in {ins[n].i, ins[n].j} |-> ShareH(ins[n], p)])])
(* Inputs for which only the two owners draw, who alone compute with it.   *)
OwnersDraw(ins) ==
    Drawn(LAMBDA p, S : Cardinality({n \in DOMAIN ins :
              S = Without(ins[n].g) /\ p \in {ins[n].i, ins[n].j}}))
InputsDraw(ins) ==
    LET drawn == [g \in Parties |-> Cardinality({n \in DOMAIN ins : ins[n].g = g})]
    IN  Drawn(LAMBDA p, S : IF p \in S /\ Cardinality(S) = 3
                            THEN drawn[CHOOSE g \in Parties : g \notin S] ELSE 0)
InputsDone(ins) == InputsSend(ins) /\ InputsDraw(ins)

(* The cross terms of a product: each pair of parties inputs those of the  *)
(* two shares that both hold.  k[g] words were drawn before without Pg.    *)
SenderPairs == << <<0, 1>>, <<0, 2>>, <<0, 3>>, <<1, 2>>, <<1, 3>>, <<2, 3>> >>
PairReceiver == [n \in 1 .. 6 |-> next_party(SenderPairs[n][1], SenderPairs[n][2])]
Earlier(n) == Cardinality({m \in 1 .. n - 1 : PairReceiver[m] = PairReceiver[n]})
Cross(enc, x, y, g, h) == [p \in Without(g) \ {h} |->
    Add(enc, Mul(enc, x[p][abs2sh(p, h)], y[p][abs2sh(p, g)]),
             Mul(enc, x[p][abs2sh(p, g)], y[p][abs2sh(p, h)]))]
CrossTerm(enc, x, y, k, n) ==
    LET i == SenderPairs[n][1]
        j == SenderPairs[n][2]
        g == PairReceiver[n]
    IN  Input(enc, i, j, k[g] + Earlier(n), Cross(enc, x, y, g, excluded_party(i, j, g)))
CrossTerms(enc, x, y, k) ==
    <<CrossTerm(enc, x, y, k, 1), CrossTerm(enc, x, y, k, 2), CrossTerm(enc, x, y, k, 3),
      CrossTerm(enc, x, y, k, 4), CrossTerm(enc, x, y, k, 5), CrossTerm(enc, x, y, k, 6)>>
Product(enc, x, y, terms) ==
    [p \in Parties |-> [i \in Index |->
        Add(enc, Mul(enc, x[p][i], y[p][i]),
            SumOver(enc, 1 .. 6, [n \in 1 .. 6 |-> InputShare(terms[n], p, i)]))]]
NoWords == [g \in Parties |-> 0]

Multiply(x, y, z, enc) ==
    /\ Is(x, enc) /\ Is(y, enc) /\ Call("multiply", <<x, y, z, enc>>)
    /\ LET terms == CrossTerms(enc, view[x].sh, view[y].sh, NoWords)
       IN  /\ Write(z, Vector(enc, Product(enc, view[x].sh, view[y].sh, terms)))
           /\ InputsDone(terms)

(* P0 and P1 input the exclusive or of bits 2 and 3, P2 and P3 that of     *)
(* bits 0 and 1; the square of the difference is the result.               *)
B2ABit(x, z) ==
    LET half == [p \in Parties |-> HalfBit(x, p)]
        share0 == Input("A", 1, 0, 0, half)
        share1 == Input("A", 3, 2, 0, half)
        difference == Local(Minus, inp(share0), inp(share1))
        terms == CrossTerms("A", difference, difference,
                     [g \in Parties |-> IF g \in {share0.g, share1.g} THEN 1 ELSE 0])
    IN  /\ Is(x, "B") /\ Call("b2a_bit", <<x, z>>)
        /\ Write(z, Vector("A", Product("A", difference, difference, terms)))
        /\ InputsDone(<<share0, share1>> \o terms)

(* The error, then the quotient, of the two halves.                        *)
DivConst(x, z, e) ==
    LET rest == [p \in Parties |-> RestOfPart(x, p)]
        floor == [p \in Parties |-> Floor(Part(x, p))]
        err1 == Input("A", 3, 2, 0, rest)
        err2 == Input("A", 1, 0, 0, rest)
        res1 == Input("A", 3, 2, 1, floor)
        res2 == Input("A", 1, 0, 1, floor)
    IN  /\ Is(x, "A") /\ Call("div", <<x, z, e>>)
        /\ WriteBoth(z, Vector("A", Local(Plus, inp(res1), inp(res2))),
                     e, Vector("A", Local(Plus, inp(err1), inp(err2))))
        /\ InputsDone(<<err1, err2, res1, res2>>)

(* P0 and P3 input the sum of shares 1 and 2 as bits, P2 and P1 that of 3  *)
(* and 0.                                                                  *)
Redistribute(x, z1, z2) ==
    LET first == Input("B", 0, 3, 0, [p \in {0, 3} |-> Plus(sh(x, p, 1), sh(x, p, 2))])
        second == Input("B", 2, 1, 0, [p \in {1, 2} |-> Plus(sh(x, p, 3), sh(x, p, 0))])
    IN  /\ Is(x, "A") /\ Call("redistribute", <<x, z1, z2>>)
        /\ WriteBoth(z1, Vector("B", inp(first)), z2, Vector("B", inp(second)))
        /\ InputsDone(<<first, second>>)

(* The opening does not wait for the digests: the receiver compares at     *)
(* once what the sender sends with what the hasher sends.                  *)
Neighbours == {<<i, (i + 1) % 4>> : i \in Parties}
OpenedTo(x, r) ==
    LET pair == CHOOSE pr \in Neighbours : next_party(pr[1], pr[2]) = r
        pa == Assignment(pair[1], pair[2], r)
    IN  [sent |-> sh(x, pa.sender, r), hashed |-> sh(x, pa.hasher, r)]
OpenShares(x) ==
    /\ Open(x, LAMBDA p : OpenedTo(x, p).sent)
    /\ ok' = (ok /\ \A p \in Parties : OpenedTo(x, p).sent = OpenedTo(x, p).hashed)
    /\ NothingDrawn /\ UNCHANGED digest

(* The group rerandomizes the vector and sends every share, but the one    *)
(* that its receiver does not hold, from the two members that hold it.     *)
Reshare(x, receiver) ==
    LET g == Without(receiver)
        mine == Rerandomized(x, g)
        two(s) == g \ {s}
        msg(s) == Message(Min(two(s)), Max(two(s)), receiver,
                          [p \in two(s) |-> mine[p][abs2sh(p, s)]])
        order == [n \in 1 .. NumParties - 1 |-> IF n <= receiver THEN n - 1 ELSE n]
        received(i) == LET m == msg((receiver + 1 + i) % 4) IN m.word[m.pa.sender]
    IN  /\ view[x].enc # "none" /\ Call("reshare", <<x>>)
        /\ Write(x, Vector(view[x].enc, [mine EXCEPT ![receiver] = [i \in Index |-> received(i)]]))
        /\ DrawnBy(g, g, NumParties - 1)
        /\ Jmp([n \in DOMAIN order |-> msg(order[n])])

(* The check compares the digests of the hasher and of the receiver, and   *)
(* starts them anew.                                                       *)
Empty == [pa \in Assignments |-> [p \in {pa.hasher, pa.receiver} |-> <<>>]]
DigestsAgree == \A pa \in Assignments : digest[pa][pa.hasher] = digest[pa][pa.receiver]
MaliciousCheck ==
    /\ ok' = (ok /\ DigestsAgree)
    /\ digest' = Empty
    /\ Call("check", <<>>) /\ UNCHANGED <<view, nonce, opened>>

Init == SharingInit /\ digest = Empty /\ ok = TRUE

OnOne(x) ==
    \/ \E enc \in Encodings, w \in Inputs, p \in Parties :
           (SecretShare(x, enc, w, p, 1) \/ PublicShare(x, enc, w, p)) /\ NoJmp
    \/ OpenShares(x)
    \/ \E receiver \in Parties : Reshare(x, receiver)
OnTwo(x, z) ==
    \/ (NotB(x, z) \/ NotB1(x, z) \/ Mask(x, z) \/ LTZ(x, z)) /\ NoJmp
    \/ B2ABit(x, z)
OnThree(x, y, z) ==
    \/ \E enc \in Encodings :
           \/ (AddUp(x, y, z, enc) \/ Subtract(x, y, z, enc)) /\ NoJmp
           \/ Multiply(x, y, z, enc)
    \/ DivConst(x, y, z) \/ Redistribute(x, y, z)

Next ==
    \/ \E x \in Registers : OnOne(x)
    \/ \E x, z \in Registers : OnTwo(x, z)
    \/ \E x, y, z \in Registers : OnThree(x, y, z)
    \/ MaliciousCheck

Spec == Init /\ [][Next]_vars

TypeOK ==
    /\ SharingTypeOK
    /\ ok \in BOOLEAN
    /\ DOMAIN digest = Assignments
    /\ \A pa \in Assignments : digest[pa] \in [{pa.hasher, pa.receiver} -> Seq(Word)]

(* Parties that follow the protocol put the same words, in the same order, *)
(* into the two digests of an assignment, and no comparison has failed.    *)
NoFalseAlarm == ok /\ DigestsAgree
=============================================================================
