-------------------------- MODULE Protocols_proofs --------------------------
(***************************************************************************)
(* Proofs about the four protocols side by side, for words of any width,   *)
(* any divisor and programs of any length.  The proofs about the protocols *)
(* of three and of four parties are in their own modules; those about the  *)
(* two-party protocol come first here, then the abstract machine that      *)
(* every protocol implements.                                              *)
(***************************************************************************)
EXTENDS MCProtocols, TLAPS

(* Two parties, each with one share, and the generator they share.         *)
LEMMA TwoParties ==
    ASSUME P2!Beaver2PCAssumption
    PROVE  /\ P2!TwoShares /\ P2!TwoToFour /\ P2!FewParties /\ P2!SharingAssumption
           /\ P2!BitsAssumption
           /\ P2!Rank(0, 1) = 1 /\ P2!Rank(1, 1) = 0
           /\ P2!Parties = {0, 1} /\ P2!Index = {0} /\ P2!Both \in TwoGroups
           /\ {0} \in TwoGroups /\ {1} \in TwoGroups
           /\ "A" \in P2!Encodings /\ "B" \in P2!Encodings /\ 0 \in P2!Word
           /\ P2!Other(0) = 1 /\ P2!Other(1) = 0
           /\ Inputs \subseteq P2!Word /\ MaxPrimitives \in Nat
<1>1. P2!TwoShares /\ TwoGroups = {{0}, {1}, P2!Both}
  BY DEF P2!Beaver2PCAssumption, P2!TwoShares
<1>2. P2!Other(0) = 1 /\ P2!Other(1) = 0
  BY <1>1, P2!TwoFacts DEF P2!Other
<1> QED
  BY <1>1, <1>2, P2!TwoFacts DEF P2!Encodings, P2!SharingAssumption

(* A vector is its two words.                                              *)
LEMMA SingleTyped ==
    ASSUME NEW w, \A p \in P2!Parties : w[p] \in P2!Word
    PROVE  P2!Single(w) \in P2!Shares
BY DEF P2!Single, P2!Shares

(* The one share of a party is its word.                                   *)
LEMMA SingleIs ==
    ASSUME P2!Beaver2PCAssumption, NEW w, NEW p \in P2!Parties
    PROVE  P2!Single(w)[p][0] = w[p]
BY TwoParties DEF P2!Single

(* Between two primitives the vectors are words of both parties.           *)
LEMMA HonestFacts ==
    ASSUME P2!Beaver2PCAssumption, P2!Honest
    PROVE  /\ DOMAIN view = Registers /\ nonce \in P2!Counts
           /\ \A r \in Registers : /\ view[r].sh \in P2!Shares
                                   /\ view[r].enc \in P2!Encodings \cup {"none"}
                                   /\ \A p \in P2!Parties :
                                          /\ P2!sh(r, p) \in P2!Word
                                          /\ P2!sh(r, p) = view[r].sh[p][0]
BY TwoParties, P2!TypedFacts DEF P2!Honest, P2!Typed, P2!SharingTypeOK, P2!sh

-----------------------------------------------------------------------------
(* Both parties draw the same six words for a triple.                      *)
LEMMA TripleIsCorrelated ==
    ASSUME P2!Beaver2PCAssumption, P2!WordsDrawn, P2!Honest, NEW enc
    PROVE  \E l, r : P2!Correlated(enc, l, r)
<1> DEFINE l == [k \in 0 .. 2 |-> P2!Left(0, k)]
           r == [k \in 0 .. 2 |-> P2!Right(0, k)]
<1>1. nonce[0][P2!Both] = nonce[1][P2!Both]
  BY TwoParties DEF P2!Honest, P2!GeneratorsInStep, P2!Both
<1>2. \A k \in 0 .. 2 : /\ P2!Left(0, k) = l[k] /\ P2!Right(0, k) = r[k]
                        /\ P2!Left(1, k) = l[k] /\ P2!Right(1, k) = r[k]
  BY <1>1 DEF P2!Left, P2!Right, P2!Draw
<1>3. \A k \in 0 .. 2 : l[k] \in P2!Word /\ r[k] \in P2!Word
  <2>1. \A k \in 0 .. 2 : 2 * k \in Nat /\ 2 * k + 1 \in Nat
    OBVIOUS
  <2> QED BY <2>1, TwoParties, P2!DrawIsWord DEF P2!Honest, P2!Left, P2!Right
<1> HIDE DEF l, r
<1>4. 0 \in 0 .. 2 /\ 1 \in 0 .. 2 /\ 2 \in 0 .. 2
  OBVIOUS
<1>5. P2!Triple(enc)[0] = [a |-> l[1], b |-> r[1],
           c |-> P2!Add(enc, P2!Mul(enc, l[1], r[1]),
                     P2!Add(enc, P2!Sub(enc, P2!Mul(enc, l[1], l[2]), l[0]),
                                 P2!Sub(enc, P2!Mul(enc, r[1], r[2]), r[0])))]
  BY <1>2, <1>4, TwoParties DEF P2!Triple, P2!Factor, P2!Addend
<1>6. P2!Triple(enc)[1] = [a |-> r[2], b |-> l[2],
           c |-> P2!Add(enc, P2!Mul(enc, r[2], l[2]), P2!Add(enc, l[0], r[0]))]
  BY <1>2, <1>4, TwoParties DEF P2!Triple, P2!Factor, P2!Addend
<1> QED
  BY <1>3, <1>5, <1>6 DEF P2!Correlated

(* The product of shares reconstructs to the product of what they share.   *)
LEMMA ProductReconstructs ==
    ASSUME P2!Beaver2PCAssumption, P2!WordsDrawn, P2!Honest, NEW enc,
           NEW s \in P2!Shares, NEW x, x[0] = s[0][0], x[1] = s[1][0],
           NEW t \in P2!Shares, NEW y, y[0] = t[0][0], y[1] = t[1][0]
    PROVE  /\ P2!Product(enc, x, y) \in P2!Shares
           /\ P2!Reconstruct(enc, P2!Product(enc, x, y))
                  = P2!Mul(enc, P2!Reconstruct(enc, s), P2!Reconstruct(enc, t))
<1>1. PICK l, r : P2!Correlated(enc, l, r)
  BY TripleIsCorrelated
<1> DEFINE T == P2!Triple(enc)
           c == T[0].c
           d == T[1].c
           A == P2!Add(enc, P2!Add(enc, x[0], T[0].a), P2!Add(enc, x[1], T[1].a))
           B == P2!Add(enc, P2!Add(enc, y[0], T[0].b), P2!Add(enc, y[1], T[1].b))
           w == [p \in P2!Parties |->
                    P2!Add(enc, P2!Sub(enc, P2!Mul(enc, y[p], A), P2!Mul(enc, T[p].a, B)), T[p].c)]
           u == P2!Product(enc, x, y)
<1>2. /\ T[0].a = l[1] /\ T[0].b = r[1] /\ T[1].a = r[2] /\ T[1].b = l[2]
      /\ c = P2!Add(enc, P2!Mul(enc, l[1], r[1]),
                 P2!Add(enc, P2!Sub(enc, P2!Mul(enc, l[1], l[2]), l[0]),
                             P2!Sub(enc, P2!Mul(enc, r[1], r[2]), r[0])))
      /\ d = P2!Add(enc, P2!Mul(enc, r[2], l[2]), P2!Add(enc, l[0], r[0]))
  BY <1>1 DEF P2!Correlated
<1>3. /\ l[0] \in P2!Word /\ l[1] \in P2!Word /\ l[2] \in P2!Word /\ r[0] \in P2!Word
      /\ r[1] \in P2!Word /\ r[2] \in P2!Word
      /\ x[0] \in P2!Word /\ x[1] \in P2!Word /\ y[0] \in P2!Word /\ y[1] \in P2!Word
      /\ P2!BitsAssumption
  <2>1. 0 \in 0 .. 2 /\ 1 \in 0 .. 2 /\ 2 \in 0 .. 2
    OBVIOUS
  <2> QED BY <1>1, <2>1, TwoParties, P2!FewFacts DEF P2!Correlated
<1>4. u = P2!Single(w) /\ c = T[0].c /\ d = T[1].c
  BY Zenon DEF P2!Product
<1> HIDE DEF T, c, d, u
<1>5. c \in P2!Word /\ d \in P2!Word
  BY <1>2, <1>3, P2!SharesClosed
<1>6. /\ A = P2!Add(enc, P2!Add(enc, s[0][0], l[1]), P2!Add(enc, s[1][0], r[2]))
      /\ B = P2!Add(enc, P2!Add(enc, t[0][0], r[1]), P2!Add(enc, t[1][0], l[2]))
      /\ A \in P2!Word /\ B \in P2!Word
  BY <1>2, <1>3, P2!SharesClosed
<1> HIDE DEF A, B
<1>7. /\ w[0] = P2!Add(enc, P2!Sub(enc, P2!Mul(enc, t[0][0], A), P2!Mul(enc, l[1], B)), c)
      /\ w[1] = P2!Add(enc, P2!Sub(enc, P2!Mul(enc, t[1][0], A), P2!Mul(enc, r[2], B)), d)
  BY <1>2, <1>4, TwoParties
<1> HIDE DEF w
<1>8. w[0] \in P2!Word /\ w[1] \in P2!Word
  BY <1>3, <1>5, <1>6, <1>7, P2!SharesClosed
<1>9. u \in P2!Shares /\ u[0][0] = w[0] /\ u[1][0] = w[1]
  BY <1>4, <1>8, TwoParties, SingleTyped, SingleIs
<1>10. /\ u[0][0] = P2!Add(enc, P2!Sub(enc, P2!Mul(enc, t[0][0], A), P2!Mul(enc, l[1], B)), c)
       /\ u[1][0] = P2!Add(enc, P2!Sub(enc, P2!Mul(enc, t[1][0], A), P2!Mul(enc, r[2], B)), d)
  BY <1>7, <1>9
<1>11. P2!Reconstruct(enc, u) = P2!Mul(enc, P2!Reconstruct(enc, s), P2!Reconstruct(enc, t))
  BY <1>2, <1>3, <1>6, <1>9, <1>10, TwoParties, P2!TwoProduct
<1> QED
  BY <1>9, <1>11 DEF u

-----------------------------------------------------------------------------
(* A step that writes one vector and draws nothing, or a triple.           *)
LEMMA WriteIsHonest ==
    ASSUME P2!Beaver2PCAssumption, P2!Honest, NEW z \in Registers, NEW enc \in P2!Encodings,
           NEW s \in P2!Shares, P2!Write(z, P2!Vector(enc, s)),
           NEW name, NEW args, P2!Call(name, args),
           P2!NothingDrawn \/ P2!DrawnBy(P2!Both, P2!Both, P2!TripleWords)
    PROVE  P2!Honest'
<1>1. P2!SharingAssumption /\ MaxPrimitives \in Nat /\ P2!Typed /\ P2!GeneratorsInStep
  BY TwoParties DEF P2!Honest
<1>2. nonce' \in P2!Counts /\ P2!GeneratorsInStep'
  <2>1. P2!TripleWords \in Nat /\ P2!Both \in SUBSET P2!Both
    BY DEF P2!TripleWords
  <2> QED BY <1>1, <2>1, P2!NothingDrawnTyped, P2!DrawnByTyped,
             P2!NothingDrawnInStep, P2!DrawnByInStep
<1>3. P2!Typed'
  BY <1>1, <1>2, P2!WriteTyped
<1> QED
  BY <1>2, <1>3 DEF P2!Honest

(* Inputs and openings are the ideal ones.                                 *)
LEMMA OnOneIsIdeal ==
    ASSUME P2!Beaver2PCAssumption, P2!WordsDrawn, P2!Honest, NEW x \in Registers, P2!OnOne(x)
    PROVE  P2!Honest' /\ P2!Ideal!Next
<1>0. /\ P2!TwoShares /\ P2!TwoToFour /\ P2!SharingAssumption /\ P2!FewParties /\ P2!BitsAssumption
      /\ P2!Parties = {0, 1} /\ 0 \in P2!Word /\ Inputs \subseteq P2!Word /\ MaxPrimitives \in Nat
      /\ DOMAIN view = Registers /\ view[x].sh \in P2!Shares /\ P2!Typed /\ P2!GeneratorsInStep
  BY TwoParties, HonestFacts DEF P2!Honest
<1>1. ASSUME NEW enc \in P2!Encodings, NEW w \in Inputs, P2!Ideal!Share(x, enc, w)
      PROVE  P2!Ideal!Next
  <2>1. enc \in P2!Ideal!Encodings /\ w \in P2!Ideal!Word
    BY <1>0, P2!IdealWords
  <2> QED BY <1>1, <2>1 DEF P2!Ideal!Next
<1>2. ASSUME NEW enc \in P2!Encodings, NEW w \in Inputs, NEW p \in P2!Parties,
             P2!SecretShare(x, enc, w, p, 0)
      PROVE  P2!Honest' /\ P2!Ideal!Next
  <2>1. P2!Typed'
    BY <1>0, <1>2, P2!SecretShareTyped
  <2>2. P2!GeneratorsInStep'
    BY <1>0, <1>2, P2!DrawnByInStep DEF P2!SecretShare
  <2>3. P2!Ideal!Share(x, enc, w)
    BY <1>0, <1>2, P2!SecretShareIsIdeal
  <2> QED BY <1>1, <2>1, <2>2, <2>3 DEF P2!Honest
<1>3. ASSUME NEW enc \in P2!Encodings, NEW w \in Inputs, NEW S \in {{}, {0}, {1}},
             P2!PublicShare(x, enc, w, S)
      PROVE  P2!Honest' /\ P2!Ideal!Next
  <2> DEFINE k == [p \in P2!Parties |-> IF (S = {} /\ p = 0) \/ p \in S THEN w ELSE 0]
             s == P2!Single(k)
  <2>1. P2!Call("share", <<x, enc, w>>) /\ P2!Write(x, P2!Vector(enc, s)) /\ P2!NothingDrawn
    BY <1>3 DEF P2!PublicShare
  <2>2. (k[0] = w /\ k[1] = 0) \/ (k[0] = 0 /\ k[1] = w)
    BY <1>0
  <2> HIDE DEF k
  <2>3. s \in P2!Shares /\ s[0][0] = k[0] /\ s[1][0] = k[1]
    BY <1>0, <2>2, SingleTyped, SingleIs
  <2> HIDE DEF s
  <2>4. P2!Reconstruct(enc, s) = w
    BY <1>0, <2>2, <2>3, P2!TwoPublic
  <2>5. P2!Ideal!Share(x, enc, w)
    BY <1>0, <2>1, <2>4, P2!ShareIsIdeal
  <2>6. P2!Honest'
    BY <2>1, <2>3, WriteIsHonest
  <2> QED BY <1>1, <2>5, <2>6
<1>4. CASE P2!OpenShares(x)
  <2> DEFINE enc == view[x].enc
             s == view[x].sh
             received == [p \in P2!Parties |-> s[P2!Rank(p, 1)][0]]
  <2>1. /\ enc # "none" /\ P2!Call("open", <<x>>) /\ UNCHANGED view /\ P2!NothingDrawn
        /\ opened' = [p \in P2!Parties |->
                         P2!Add(enc, P2!SumOver(enc, P2!Index, s[p]), s[P2!Rank(p, 1)][0])]
    BY <1>4 DEF P2!OpenShares, P2!Open, P2!sh, P2!Other
  <2>2. \A p \in P2!Parties : received[p] \in P2!Word
    <3>1. \A p \in P2!Parties : P2!Rank(p, 1) \in P2!Parties
      BY <1>0, TwoParties
    <3> QED BY <1>0, <3>1, TwoParties, P2!FewFacts
  <2>3. opened' = [p \in P2!Parties |-> P2!Add(enc, P2!SumOver(enc, P2!Index, s[p]), received[p])]
    BY <2>1
  <2> HIDE DEF received
  <2>4. P2!Typed'
    BY <1>0, <2>1, <2>2, <2>3, P2!OpenTyped
  <2>5. P2!GeneratorsInStep'
    BY <1>0, <2>1, P2!NothingDrawnInStep
  <2>6. P2!Ideal!Open(x)
    <3> HIDE DEF enc, s
    <3>1. s \in P2!Shares
      BY <1>0 DEF s
    <3>2. \A p \in P2!Parties : opened'[p] = P2!Reconstruct(enc, s)
      BY <1>0, <2>1, <3>1, P2!TwoOpened
    <3> QED BY <1>0, <2>1, <3>2, P2!OpenIsIdeal DEF enc, s
  <2> QED BY <2>4, <2>5, <2>6 DEF P2!Honest, P2!Ideal!Next
<1> QED
  BY <1>2, <1>3, <1>4 DEF P2!OnOne

(* So are the primitives of one operand.                                   *)
LEMMA OnTwoIsIdeal ==
    ASSUME P2!Beaver2PCAssumption, P2!WordsDrawn, P2!Honest,
           NEW x \in Registers, NEW z \in Registers, P2!OnTwo(x, z)
    PROVE  P2!Honest' /\ (BitsOnly => P2!Ideal!Elementwise(x, x, z))
<1> DEFINE s == view[x].sh
<1>0. /\ P2!TwoShares /\ P2!SharingAssumption /\ P2!FewParties /\ P2!BitsAssumption
      /\ P2!Parties = {0, 1}
      /\ 0 \in P2!Word /\ "A" \in P2!Encodings /\ "B" \in P2!Encodings
      /\ DOMAIN view = Registers /\ s \in P2!Shares /\ P2!Typed /\ P2!GeneratorsInStep
      /\ s[0][0] \in P2!Word /\ s[1][0] \in P2!Word
      /\ P2!Reconstruct("B", s) = P2!Xor(s[0][0], s[1][0])
      /\ P2!sh(x, 0) = s[0][0] /\ P2!sh(x, 1) = s[1][0]
  BY TwoParties, HonestFacts, P2!TwoSum DEF P2!Honest, P2!sh, P2!Add
<1>1. CASE P2!NotB(x, z)
  <2> DEFINE k == [p \in P2!Parties |-> IF p = 0 THEN P2!Complement(P2!sh(x, p)) ELSE P2!sh(x, p)]
             u == P2!Single(k)
  <2>1. /\ P2!Is(x, "B") /\ P2!Call("not", <<x, z>>) /\ P2!Write(z, P2!Vector("B", u))
        /\ P2!NothingDrawn
    BY <1>1 DEF P2!NotB
  <2>2. k[0] = P2!Complement(s[0][0]) /\ k[1] = s[1][0]
    BY <1>0
  <2> HIDE DEF k, s
  <2>3. u \in P2!Shares /\ u[0][0] = k[0] /\ u[1][0] = k[1]
    BY <1>0, <2>2, P2!OnOneWord, SingleTyped, SingleIs
  <2> HIDE DEF u
  <2>4. P2!Reconstruct("B", u) = P2!Complement(P2!Reconstruct("B", s))
    BY <1>0, <2>2, <2>3, P2!TwoNot
  <2>5. P2!Honest'
    BY <1>0, <2>1, <2>3, WriteIsHonest
  <2> QED BY <1>0, <2>1, <2>4, <2>5, P2!UnaryIsIdeal DEF s
<1>2. CASE P2!NotB1(x, z)
  <2> DEFINE u == P2!Not1Shares(x)
             k == [p \in P2!Parties |-> IF p = 0 THEN P2!LogicalNot(P2!sh(x, p)) ELSE P2!sh(x, p)]
  <2>1. /\ P2!Is(x, "B") /\ P2!Call("not_1", <<x, z>>)
        /\ P2!Write(z, P2!Vector("B", P2!Single(u))) /\ P2!NothingDrawn
        /\ BitsOnly => \A p \in P2!Parties : P2!sh(x, p) \in {0, 1}
    BY <1>2 DEF P2!NotB1
  <2>2. k[0] = P2!LogicalNot(s[0][0]) /\ k[1] = s[1][0] /\ u = k
    BY <1>0 DEF P2!Not1Shares
  <2> HIDE DEF k, s, u
  <2>3. /\ P2!Single(u) \in P2!Shares /\ P2!Single(u)[0][0] = P2!LogicalNot(s[0][0])
        /\ P2!Single(u)[1][0] = s[1][0]
        /\ BitsOnly => s[0][0] \in {0, 1} /\ s[1][0] \in {0, 1}
    BY <1>0, <2>1, <2>2, P2!OnOneWord, SingleTyped, SingleIs
  <2> DEFINE t == P2!Single(u)
  <2>4. /\ P2!Write(z, P2!Vector("B", t)) /\ t \in P2!Shares
        /\ t[0][0] = P2!LogicalNot(s[0][0]) /\ t[1][0] = s[1][0]
    BY <2>1, <2>3
  <2> HIDE DEF t
  <2>5. BitsOnly => P2!Reconstruct("B", t) = 1 - P2!LSB(P2!Reconstruct("B", s))
    BY <1>0, <2>3, <2>4, P2!TwoNot1
  <2>6. P2!Honest'
    BY <1>0, <2>1, <2>4, WriteIsHonest
  <2> QED BY <1>0, <2>1, <2>4, <2>5, <2>6, P2!UnaryIsIdeal DEF s
<1>3. CASE P2!Mask(x, z) \/ P2!LTZ(x, z)
  <2>1. P2!Typed'
    BY <1>0, <1>3, P2!BitsTyped
  <2>2. P2!GeneratorsInStep'
    BY <1>0, <1>3, P2!NothingDrawnInStep DEF P2!Mask, P2!LTZ
  <2> QED BY <1>0, <1>3, <2>1, <2>2, P2!BitsAreIdeal DEF P2!Honest
<1>4. CASE P2!B2ABit(x, z)
  <2> DEFINE xm == [p \in P2!Parties |->
                       IF p = 1 THEN P2!Minus(0, P2!LSB(P2!sh(x, p))) ELSE P2!LSB(P2!sh(x, p))]
             t == P2!Single(xm)
             u == P2!Product("A", xm, xm)
             b == P2!LSB(s[0][0])
             c == P2!LSB(s[1][0])
  <2>1. /\ P2!Is(x, "B") /\ P2!Call("b2a_bit", <<x, z>>) /\ P2!Write(z, P2!Vector("A", u))
        /\ P2!DrawnBy(P2!Both, P2!Both, P2!TripleWords)
    BY <1>4, Zenon DEF P2!B2ABit
  <2>2. xm[0] = b /\ xm[1] = P2!Minus(0, c)
    BY <1>0
  <2>3. b \in P2!Word /\ P2!Minus(0, c) \in P2!Word
    BY <1>0, P2!OnOneWord, P2!Closed
  <2> HIDE DEF xm, s
  <2>4. t \in P2!Shares /\ t[0][0] = xm[0] /\ t[1][0] = xm[1]
    BY <1>0, <2>2, <2>3, SingleTyped, SingleIs
  <2> HIDE DEF t
  <2>5. P2!Mul("A", P2!Reconstruct("A", t), P2!Reconstruct("A", t)) = P2!LSB(P2!Reconstruct("B", s))
    BY <1>0, <2>2, <2>4, P2!TwoBits
  <2>6. xm[0] = t[0][0] /\ xm[1] = t[1][0]
    BY <2>4
  <2>7. /\ u \in P2!Shares
        /\ P2!Reconstruct("A", u) = P2!Mul("A", P2!Reconstruct("A", t), P2!Reconstruct("A", t))
    BY <2>4, <2>6, ProductReconstructs
  <2> HIDE DEF u
  <2>8. P2!Reconstruct("A", u) = P2!LSB(P2!Reconstruct("B", s))
    BY <2>5, <2>7
  <2>9. P2!Honest'
    BY <1>0, <2>1, <2>7, WriteIsHonest
  <2> QED BY <1>0, <2>1, <2>8, <2>9, P2!UnaryIsIdeal DEF s
<1> QED
  BY <1>1, <1>2, <1>3, <1>4 DEF P2!OnTwo

(* So are those of two operands, divisions and redistributions.            *)
LEMMA OnThreeIsIdeal ==
    ASSUME P2!Beaver2PCAssumption, P2!WordsDrawn, P2!Honest,
           NEW x \in Registers, NEW y \in Registers, NEW z \in Registers, P2!OnThree(x, y, z)
    PROVE  /\ P2!Honest'
           /\ \/ P2!Ideal!Elementwise(x, y, z) \/ P2!Ideal!DivConst(x, y, z)
              \/ P2!Ideal!Redistribute(x, y, z)
<1> DEFINE s == view[x].sh
           t == view[y].sh
<1>0. /\ P2!TwoShares /\ P2!TwoToFour /\ P2!SharingAssumption /\ P2!FewParties /\ P2!BitsAssumption
      /\ P2!Parties = {0, 1} /\ 0 \in P2!Word /\ "A" \in P2!Encodings /\ "B" \in P2!Encodings
      /\ MaxPrimitives \in Nat /\ DOMAIN view = Registers /\ s \in P2!Shares /\ t \in P2!Shares
      /\ P2!Typed /\ P2!GeneratorsInStep
      /\ s[0][0] \in P2!Word /\ s[1][0] \in P2!Word
      /\ P2!Reconstruct("A", s) = P2!Plus(s[0][0], s[1][0])
      /\ P2!sh(x, 0) = s[0][0] /\ P2!sh(x, 1) = s[1][0] /\ P2!sh(y, 0) = t[0][0]
      /\ P2!sh(y, 1) = t[1][0]
  BY TwoParties, HonestFacts, P2!TwoSum DEF P2!Honest, P2!sh, P2!Add
<1>1. ASSUME NEW enc \in P2!Encodings, P2!AddUp(x, y, z, enc) \/ P2!Subtract(x, y, z, enc)
      PROVE  P2!Honest' /\ P2!Ideal!Elementwise(x, y, z)
  <2>1. P2!Typed'
    BY <1>0, <1>1, P2!LocalTyped
  <2>2. P2!GeneratorsInStep'
    <3>1. P2!NothingDrawn
      BY <1>1, Zenon DEF P2!AddUp, P2!Subtract
    <3> QED BY <1>0, <3>1, P2!NothingDrawnInStep
  <2> QED BY <1>0, <1>1, <2>1, <2>2, P2!LocalIsIdeal DEF P2!Honest
<1>2. ASSUME NEW enc \in P2!Encodings, P2!Multiply(x, y, z, enc)
      PROVE  P2!Honest' /\ P2!Ideal!Elementwise(x, y, z)
  <2> DEFINE u == P2!Product(enc, P2!Own(x), P2!Own(y))
             a == P2!Reconstruct(enc, s)
             b == P2!Reconstruct(enc, t)
  <2>1. /\ P2!Is(x, enc) /\ P2!Is(y, enc) /\ P2!Call("multiply", <<x, y, z, enc>>)
        /\ P2!Write(z, P2!Vector(enc, u))
        /\ P2!DrawnBy(P2!Both, P2!Both, P2!TripleWords)
    BY <1>2 DEF P2!Multiply
  <2>2. /\ P2!Own(x)[0] = s[0][0] /\ P2!Own(x)[1] = s[1][0]
        /\ P2!Own(y)[0] = t[0][0] /\ P2!Own(y)[1] = t[1][0]
    BY <1>0 DEF P2!Own
  <2>3. a = P2!Reconstruct(enc, view[x].sh) /\ b = P2!Reconstruct(enc, view[y].sh)
    OBVIOUS
  <2> HIDE DEF s, t
  <2>4. u \in P2!Shares /\ P2!Reconstruct(enc, u) = P2!Mul(enc, a, b)
    BY <1>0, <2>2, ProductReconstructs
  <2> HIDE DEF u, a, b
  <2>5. P2!Honest'
    BY <2>1, <2>4, WriteIsHonest
  <2> QED BY <1>0, <2>1, <2>3, <2>4, <2>5, P2!BinaryIsIdeal
<1>3. CASE P2!DivConst(x, y, z)
  <2> DEFINE k == [p \in P2!Parties |-> P2!Floor(P2!sh(x, p))]
             l == [p \in P2!Parties |->
                      IF p = 0 THEN P2!Rest(P2!sh(x, p))
                      ELSE P2!Minus(P2!Rest(P2!sh(x, p)), Divisor)]
             s1 == P2!Single(k)
             s2 == P2!Single(l)
             q == P2!Reconstruct("A", s1)
             r == P2!Reconstruct("A", s2)
  <2>1. /\ P2!WriteBoth(y, P2!Vector("A", s1), z, P2!Vector("A", s2))
        /\ P2!Is(x, "A") /\ P2!Call("div", <<x, y, z>>) /\ P2!NothingDrawn
    BY <1>3 DEF P2!DivConst
  <2>2. \A o : P2!FloorOf(o) = P2!Floor(o) /\ P2!RestOf(o) = P2!Rest(o)
    BY DEF P2!FloorOf, P2!Floor, P2!RestOf, P2!Rest
  <2>3. /\ k[0] = P2!FloorOf(s[0][0]) /\ k[1] = P2!FloorOf(s[1][0])
        /\ l[0] = P2!RestOf(s[0][0]) /\ l[1] = P2!Minus(P2!RestOf(s[1][0]), Divisor)
    BY <1>0, <2>2
  <2> HIDE DEF k, l, s
  <2>4. k[0] \in P2!Word /\ k[1] \in P2!Word /\ l[0] \in P2!Word /\ l[1] \in P2!Word
    BY <1>0, <2>3, P2!PartsAreWords
  <2>5. /\ s1 \in P2!Shares /\ s1[0][0] = k[0] /\ s1[1][0] = k[1]
        /\ s2 \in P2!Shares /\ s2[0][0] = l[0] /\ s2[1][0] = l[1]
    BY <1>0, <2>4, SingleTyped, SingleIs
  <2>6. q = P2!Reconstruct("A", s1) /\ r = P2!Reconstruct("A", s2)
    OBVIOUS
  <2> HIDE DEF s1, s2, q, r
  <2>7. /\ q \in P2!Word /\ r \in P2!Word
        /\ P2!Signed(r) \in -Divisor .. Divisor
        /\ P2!Plus(P2!Times(Divisor, P2!Plus(q, 1)), r) = P2!Reconstruct("A", s)
    BY <1>0, <2>3, <2>5, <2>6, P2!TwoDivided
  <2>8. P2!Ideal!DivConst(x, y, z)
    BY <1>0, <2>1, <2>6, <2>7, P2!DivConstIsIdeal DEF s
  <2>9. nonce' \in P2!Counts /\ P2!GeneratorsInStep'
    BY <1>0, <2>1, P2!NothingDrawnTyped, P2!NothingDrawnInStep
  <2>10. P2!Typed'
    BY <1>0, <2>1, <2>5, <2>9, P2!WriteBothTyped
  <2> QED BY <2>8, <2>9, <2>10 DEF P2!Honest
<1>4. CASE P2!Redistribute(x, y, z)
  <2> DEFINE v == s[0][0]
             w == s[1][0]
             s1 == P2!Dealt("B", v, 0, 0)
             s2 == P2!Dealt("B", w, 1, 0)
  <2>1. /\ P2!WriteBoth(y, P2!Vector("B", s1), z, P2!Vector("B", s2))
        /\ P2!Is(x, "A") /\ P2!Call("redistribute", <<x, y, z>>)
        /\ P2!Drawn(LAMBDA p, g : IF g = {p} THEN 1 ELSE 0)
    BY <1>0, <1>4 DEF P2!Redistribute
  <2>2. v \in P2!Word /\ w \in P2!Word /\ 0 \in P2!Parties /\ 1 \in P2!Parties
    BY <1>0
  <2>3. P2!Reconstruct("A", view[x].sh) = P2!Plus(v, w)
    BY <1>0
  <2> HIDE DEF v, w
  <2>4. P2!Reconstruct("B", s1) = v /\ P2!Reconstruct("B", s2) = w
    BY <1>0, <2>2, P2!DealtReconstructs
  <2>5. s1 \in P2!Shares /\ s2 \in P2!Shares
    BY <1>0, <2>2, P2!DealtTyped
  <2>6. P2!Minus(P2!Plus(v, w), v) = w
    BY <1>0, <2>2, P2!PlusMinus
  <2> HIDE DEF s1, s2
  <2>7. /\ P2!Reconstruct("B", s1) \in P2!Word
        /\ P2!Reconstruct("B", s2)
               = P2!Minus(P2!Reconstruct("A", view[x].sh), P2!Reconstruct("B", s1))
    BY <2>2, <2>3, <2>4, <2>6
  <2>8. P2!Ideal!Redistribute(x, y, z)
    BY <1>0, <2>1, <2>7, P2!RedistributeIsIdeal
  <2>9. nonce' \in P2!Counts
    BY <2>1, <1>0, P2!TypedFacts DEF P2!Drawn, P2!Counts
  <2>10. P2!GeneratorsInStep'
    <3>1. \A g \in TwoGroups : \A p, q \in g : (g = {p}) <=> (g = {q})
      BY DEF P2!Beaver2PCAssumption, P2!Both
    <3>2. \A g \in TwoGroups : g \subseteq P2!Parties
      BY <1>0 DEF P2!SharingAssumption
    <3> QED BY <1>0, <2>1, <3>1, <3>2 DEF P2!Drawn, P2!GeneratorsInStep
  <2>11. P2!Typed'
    BY <1>0, <2>1, <2>5, <2>9, P2!WriteBothTyped
  <2> QED BY <2>8, <2>10, <2>11 DEF P2!Honest
<1> QED
  BY <1>1, <1>2, <1>3, <1>4 DEF P2!OnThree

(* The two-party protocol starts as the abstract machine does.             *)
LEMMA TwoStart ==
    ASSUME P2!Beaver2PCAssumption, P2!Init
    PROVE  P2!Honest /\ P2!Ideal!Init
BY TwoParties, P2!StartAgrees, P2!StartTyped, P2!StartIsIdeal DEF P2!Init, P2!Honest

(* Every step of it keeps the invariant and is one of the abstract machine *)
(* - the negation of a bit only if it is called on bits.                   *)
LEMMA TwoStep ==
    ASSUME P2!Beaver2PCAssumption, P2!WordsDrawn, P2!Honest, [P2!Next]_(P2!sharingVars)
    PROVE  P2!Honest' /\ (BitsOnly => [P2!Ideal!Next]_(P2!Ideal!vars))
<1>1. ASSUME NEW x \in Registers, P2!OnOne(x) PROVE P2!Honest' /\ P2!Ideal!Next
  BY <1>1, OnOneIsIdeal
<1>2. ASSUME NEW x \in Registers, NEW z \in Registers, P2!OnTwo(x, z)
      PROVE  P2!Honest' /\ (BitsOnly => P2!Ideal!Next)
  <2>1. P2!Honest' /\ (BitsOnly => P2!Ideal!Elementwise(x, x, z))
    BY <1>2, OnTwoIsIdeal
  <2> QED BY <2>1 DEF P2!Ideal!Next
<1>3. ASSUME NEW x \in Registers, NEW y \in Registers, NEW z \in Registers, P2!OnThree(x, y, z)
      PROVE  P2!Honest' /\ P2!Ideal!Next
  <2>1. /\ P2!Honest'
        /\ \/ P2!Ideal!Elementwise(x, y, z) \/ P2!Ideal!DivConst(x, y, z)
           \/ P2!Ideal!Redistribute(x, y, z)
    BY <1>3, OnThreeIsIdeal
  <2> QED BY <2>1 DEF P2!Ideal!Next
<1>4. CASE P2!Next
  BY <1>1, <1>2, <1>3, <1>4 DEF P2!Next
<1>5. CASE UNCHANGED P2!sharingVars
  <2>1. P2!Honest'
    BY <1>5 DEF P2!Honest, P2!GeneratorsInStep, P2!Typed, P2!SharingTypeOK, P2!sharingVars
  <2>2. UNCHANGED P2!Ideal!vars
    BY <1>5 DEF P2!sharingVars, P2!Ideal!vars, P2!Plaintexts, P2!Plaintext, P2!Agreed
  <2> QED BY <2>1, <2>2
<1> QED
  BY <1>4, <1>5

-----------------------------------------------------------------------------
(* The abstract machine of the two-party protocol is the one of the run.   *)
LEMMA TwoWords ==
    /\ P2!Ideal!Size = Ideal!Size /\ P2!Ideal!Word = Ideal!Word
    /\ P2!Ideal!Encodings = Ideal!Encodings
    /\ \A a, b : /\ P2!Ideal!Plus(a, b) = Ideal!Plus(a, b)
                 /\ P2!Ideal!Minus(a, b) = Ideal!Minus(a, b)
                 /\ P2!Ideal!Times(a, b) = Ideal!Times(a, b)
    /\ \A enc, a, b : /\ P2!Ideal!Add(enc, a, b) = Ideal!Add(enc, a, b)
                      /\ P2!Ideal!Sub(enc, a, b) = Ideal!Sub(enc, a, b)
                      /\ P2!Ideal!Mul(enc, a, b) = Ideal!Mul(enc, a, b)
    /\ \A a : P2!Ideal!Signed(a) = Ideal!Signed(a) /\ P2!Ideal!Sign(a) = Ideal!Sign(a)
    /\ \A a : /\ P2!Ideal!Complement(a) = Ideal!Complement(a)
              /\ P2!Ideal!Flipped(a) = Ideal!Flipped(a)
              /\ P2!Ideal!LSB(a) = Ideal!LSB(a)
<1>1. P2!Ideal!Size = Ideal!Size
  BY DEF P2!Ideal!Size, Ideal!Size
<1>2. \A bits : P2!Ideal!FromBits(bits) = Ideal!FromBits(bits)
  BY DEF P2!Ideal!FromBits, Ideal!FromBits, P2!Ideal!Places, Ideal!Places,
         P2!Ideal!MapThenSumSet, Ideal!MapThenSumSet, P2!Ideal!MapThenFoldSet,
         Ideal!MapThenFoldSet
<1>3. P2!Ideal!XorTable = Ideal!XorTable /\ P2!Ideal!AndTable = Ideal!AndTable
  BY <1>1, <1>2 DEF P2!Ideal!XorTable, Ideal!XorTable, P2!Ideal!AndTable, Ideal!AndTable,
         P2!Ideal!Places, Ideal!Places, P2!Ideal!Word, Ideal!Word, P2!Ideal!Bit,
         Ideal!Bit
<1> QED
  BY <1>1, <1>3 DEF P2!Ideal!Word, Ideal!Word, P2!Ideal!Encodings, Ideal!Encodings,
         P2!Ideal!Plus, Ideal!Plus, P2!Ideal!Minus, Ideal!Minus, P2!Ideal!Times,
         Ideal!Times, P2!Ideal!Xor, Ideal!Xor, P2!Ideal!And, Ideal!And,
         P2!Ideal!Add, Ideal!Add, P2!Ideal!Sub, Ideal!Sub, P2!Ideal!Mul, Ideal!Mul,
         P2!Ideal!Signed, Ideal!Signed, P2!Ideal!Sign, Ideal!Sign,
         P2!Ideal!IsNegative, Ideal!IsNegative, P2!Ideal!Complement,
         Ideal!Complement, P2!Ideal!Flipped, Ideal!Flipped, P2!Ideal!LSB, Ideal!LSB


(* Its steps are those of the abstract machine of the run.                 *)
LEMMA TwoMachine ==
    ASSUME plain = P2!Plaintexts, Agreed = P2!Agreed,
           plain' = P2!Plaintexts', Agreed' = P2!Agreed', P2!Ideal!Next
    PROVE  Ideal!Next
<1>1. /\ \A enc, w : P2!Ideal!Vector(enc, w) = Ideal!Vector(enc, w)
      /\ P2!Ideal!NoVector = Ideal!NoVector
      /\ \A r, enc : P2!Ideal!Is(r, enc) <=> Ideal!Is(r, enc)
      /\ \A name, args : P2!Ideal!Call(name, args) <=> Ideal!Call(name, args)
      /\ \A r, v : P2!Ideal!Write(r, v) <=> Ideal!Write(r, v)
      /\ \A r1, v1, r2, v2 : P2!Ideal!WriteBoth(r1, v1, r2, v2) <=> Ideal!WriteBoth(r1, v1, r2, v2)
  BY DEF P2!Ideal!Vector, Ideal!Vector, P2!Ideal!NoVector, Ideal!NoVector,
         P2!Ideal!Is, Ideal!Is, P2!Ideal!Call, Ideal!Call, P2!Ideal!Write,
         Ideal!Write, P2!Ideal!WriteBoth, Ideal!WriteBoth
<1>2. \A r, enc, w : P2!Ideal!Share(r, enc, w) <=> Ideal!Share(r, enc, w)
  BY <1>1 DEF P2!Ideal!Share, Ideal!Share
<1>3. \A r : /\ P2!Ideal!Open(r) <=> Ideal!Open(r)
             /\ P2!Ideal!Reshare(r) <=> Ideal!Reshare(r)
             /\ P2!Ideal!Check <=> Ideal!Check
  BY <1>1 DEF P2!Ideal!Open, Ideal!Open, P2!Ideal!Reshare, Ideal!Reshare,
         P2!Ideal!Check, Ideal!Check
<1>4. \A x, r1, r2 : P2!Ideal!Redistribute(x, r1, r2) <=> Ideal!Redistribute(x, r1, r2)
  BY <1>1, TwoWords DEF P2!Ideal!Redistribute, Ideal!Redistribute
<1>5. \A x, r1, r2 : P2!Ideal!DivConst(x, r1, r2) <=> Ideal!DivConst(x, r1, r2)
  BY <1>1, TwoWords DEF P2!Ideal!DivConst, Ideal!DivConst
<1>6. ASSUME NEW x, NEW y, NEW z, NEW enc
      PROVE  /\ P2!Ideal!Binary("add", x, y, z, enc, P2!Ideal!Add)
                <=> Ideal!Binary("add", x, y, z, enc, Ideal!Add)
             /\ P2!Ideal!Binary("sub", x, y, z, enc, P2!Ideal!Sub)
                <=> Ideal!Binary("sub", x, y, z, enc, Ideal!Sub)
             /\ P2!Ideal!Binary("multiply", x, y, z, enc, P2!Ideal!Mul)
                <=> Ideal!Binary("multiply", x, y, z, enc, Ideal!Mul)
  BY <1>1, TwoWords DEF P2!Ideal!Binary, Ideal!Binary
<1>7. ASSUME NEW x, NEW z
      PROVE  /\ P2!Ideal!Unary("not", x, z, "B", P2!Ideal!Complement)
                <=> Ideal!Unary("not", x, z, "B", Ideal!Complement)
             /\ P2!Ideal!Unary("not_1", x, z, "B", P2!Ideal!Flipped)
                <=> Ideal!Unary("not_1", x, z, "B", Ideal!Flipped)
             /\ P2!Ideal!Unary("mask", x, z, "B", P2!Ideal!LSB)
                <=> Ideal!Unary("mask", x, z, "B", Ideal!LSB)
             /\ P2!Ideal!Unary("ltz", x, z, "B", P2!Ideal!Sign)
                <=> Ideal!Unary("ltz", x, z, "B", Ideal!Sign)
             /\ P2!Ideal!Unary("b2a_bit", x, z, "A", P2!Ideal!LSB)
                <=> Ideal!Unary("b2a_bit", x, z, "A", Ideal!LSB)
  BY <1>1, TwoWords DEF P2!Ideal!Unary, Ideal!Unary
<1>8. ASSUME NEW x, NEW y, NEW z
      PROVE  P2!Ideal!Elementwise(x, y, z) => Ideal!Elementwise(x, y, z)
  BY <1>6, <1>7, TwoWords, Zenon DEF P2!Ideal!Elementwise, Ideal!Elementwise
<1> QED
  BY <1>2, <1>3, <1>4, <1>5, <1>8, TwoWords DEF P2!Ideal!Next, Ideal!Next

(* The abstract machine of the three-party protocol is the one of the run. *)
LEMMA ThreeWords ==
    /\ P3!Ideal!Size = Ideal!Size /\ P3!Ideal!Word = Ideal!Word
    /\ P3!Ideal!Encodings = Ideal!Encodings
    /\ \A a, b : /\ P3!Ideal!Plus(a, b) = Ideal!Plus(a, b)
                 /\ P3!Ideal!Minus(a, b) = Ideal!Minus(a, b)
                 /\ P3!Ideal!Times(a, b) = Ideal!Times(a, b)
    /\ \A enc, a, b : /\ P3!Ideal!Add(enc, a, b) = Ideal!Add(enc, a, b)
                      /\ P3!Ideal!Sub(enc, a, b) = Ideal!Sub(enc, a, b)
                      /\ P3!Ideal!Mul(enc, a, b) = Ideal!Mul(enc, a, b)
    /\ \A a : P3!Ideal!Signed(a) = Ideal!Signed(a) /\ P3!Ideal!Sign(a) = Ideal!Sign(a)
    /\ \A a : /\ P3!Ideal!Complement(a) = Ideal!Complement(a)
              /\ P3!Ideal!Flipped(a) = Ideal!Flipped(a)
              /\ P3!Ideal!LSB(a) = Ideal!LSB(a)
<1>1. P3!Ideal!Size = Ideal!Size
  BY DEF P3!Ideal!Size, Ideal!Size
<1>2. \A bits : P3!Ideal!FromBits(bits) = Ideal!FromBits(bits)
  BY DEF P3!Ideal!FromBits, Ideal!FromBits, P3!Ideal!Places, Ideal!Places,
         P3!Ideal!MapThenSumSet, Ideal!MapThenSumSet, P3!Ideal!MapThenFoldSet,
         Ideal!MapThenFoldSet
<1>3. P3!Ideal!XorTable = Ideal!XorTable /\ P3!Ideal!AndTable = Ideal!AndTable
  BY <1>1, <1>2 DEF P3!Ideal!XorTable, Ideal!XorTable, P3!Ideal!AndTable, Ideal!AndTable,
         P3!Ideal!Places, Ideal!Places, P3!Ideal!Word, Ideal!Word, P3!Ideal!Bit,
         Ideal!Bit
<1> QED
  BY <1>1, <1>3 DEF P3!Ideal!Word, Ideal!Word, P3!Ideal!Encodings, Ideal!Encodings,
         P3!Ideal!Plus, Ideal!Plus, P3!Ideal!Minus, Ideal!Minus, P3!Ideal!Times,
         Ideal!Times, P3!Ideal!Xor, Ideal!Xor, P3!Ideal!And, Ideal!And,
         P3!Ideal!Add, Ideal!Add, P3!Ideal!Sub, Ideal!Sub, P3!Ideal!Mul, Ideal!Mul,
         P3!Ideal!Signed, Ideal!Signed, P3!Ideal!Sign, Ideal!Sign,
         P3!Ideal!IsNegative, Ideal!IsNegative, P3!Ideal!Complement,
         Ideal!Complement, P3!Ideal!Flipped, Ideal!Flipped, P3!Ideal!LSB, Ideal!LSB


(* Its steps are those of the abstract machine of the run.                 *)
LEMMA ThreeMachine ==
    ASSUME plain = P3!Plaintexts, Agreed = P3!Agreed,
           plain' = P3!Plaintexts', Agreed' = P3!Agreed', P3!Ideal!Next
    PROVE  Ideal!Next
<1>1. /\ \A enc, w : P3!Ideal!Vector(enc, w) = Ideal!Vector(enc, w)
      /\ P3!Ideal!NoVector = Ideal!NoVector
      /\ \A r, enc : P3!Ideal!Is(r, enc) <=> Ideal!Is(r, enc)
      /\ \A name, args : P3!Ideal!Call(name, args) <=> Ideal!Call(name, args)
      /\ \A r, v : P3!Ideal!Write(r, v) <=> Ideal!Write(r, v)
      /\ \A r1, v1, r2, v2 : P3!Ideal!WriteBoth(r1, v1, r2, v2) <=> Ideal!WriteBoth(r1, v1, r2, v2)
  BY DEF P3!Ideal!Vector, Ideal!Vector, P3!Ideal!NoVector, Ideal!NoVector,
         P3!Ideal!Is, Ideal!Is, P3!Ideal!Call, Ideal!Call, P3!Ideal!Write,
         Ideal!Write, P3!Ideal!WriteBoth, Ideal!WriteBoth
<1>2. \A r, enc, w : P3!Ideal!Share(r, enc, w) <=> Ideal!Share(r, enc, w)
  BY <1>1 DEF P3!Ideal!Share, Ideal!Share
<1>3. \A r : /\ P3!Ideal!Open(r) <=> Ideal!Open(r)
             /\ P3!Ideal!Reshare(r) <=> Ideal!Reshare(r)
             /\ P3!Ideal!Check <=> Ideal!Check
  BY <1>1 DEF P3!Ideal!Open, Ideal!Open, P3!Ideal!Reshare, Ideal!Reshare,
         P3!Ideal!Check, Ideal!Check
<1>4. \A x, r1, r2 : P3!Ideal!Redistribute(x, r1, r2) <=> Ideal!Redistribute(x, r1, r2)
  BY <1>1, ThreeWords DEF P3!Ideal!Redistribute, Ideal!Redistribute
<1>5. \A x, r1, r2 : P3!Ideal!DivConst(x, r1, r2) <=> Ideal!DivConst(x, r1, r2)
  BY <1>1, ThreeWords DEF P3!Ideal!DivConst, Ideal!DivConst
<1>6. ASSUME NEW x, NEW y, NEW z, NEW enc
      PROVE  /\ P3!Ideal!Binary("add", x, y, z, enc, P3!Ideal!Add)
                <=> Ideal!Binary("add", x, y, z, enc, Ideal!Add)
             /\ P3!Ideal!Binary("sub", x, y, z, enc, P3!Ideal!Sub)
                <=> Ideal!Binary("sub", x, y, z, enc, Ideal!Sub)
             /\ P3!Ideal!Binary("multiply", x, y, z, enc, P3!Ideal!Mul)
                <=> Ideal!Binary("multiply", x, y, z, enc, Ideal!Mul)
  BY <1>1, ThreeWords DEF P3!Ideal!Binary, Ideal!Binary
<1>7. ASSUME NEW x, NEW z
      PROVE  /\ P3!Ideal!Unary("not", x, z, "B", P3!Ideal!Complement)
                <=> Ideal!Unary("not", x, z, "B", Ideal!Complement)
             /\ P3!Ideal!Unary("not_1", x, z, "B", P3!Ideal!Flipped)
                <=> Ideal!Unary("not_1", x, z, "B", Ideal!Flipped)
             /\ P3!Ideal!Unary("mask", x, z, "B", P3!Ideal!LSB)
                <=> Ideal!Unary("mask", x, z, "B", Ideal!LSB)
             /\ P3!Ideal!Unary("ltz", x, z, "B", P3!Ideal!Sign)
                <=> Ideal!Unary("ltz", x, z, "B", Ideal!Sign)
             /\ P3!Ideal!Unary("b2a_bit", x, z, "A", P3!Ideal!LSB)
                <=> Ideal!Unary("b2a_bit", x, z, "A", Ideal!LSB)
  BY <1>1, ThreeWords DEF P3!Ideal!Unary, Ideal!Unary
<1>8. ASSUME NEW x, NEW y, NEW z
      PROVE  P3!Ideal!Elementwise(x, y, z) => Ideal!Elementwise(x, y, z)
  BY <1>6, <1>7, ThreeWords, Zenon DEF P3!Ideal!Elementwise, Ideal!Elementwise
<1> QED
  BY <1>2, <1>3, <1>4, <1>5, <1>8, ThreeWords DEF P3!Ideal!Next, Ideal!Next

(* The abstract machine of the four-party protocol is the one of the run.  *)
LEMMA FantasticWords ==
    /\ P4!Ideal!Size = Ideal!Size /\ P4!Ideal!Word = Ideal!Word
    /\ P4!Ideal!Encodings = Ideal!Encodings
    /\ \A a, b : /\ P4!Ideal!Plus(a, b) = Ideal!Plus(a, b)
                 /\ P4!Ideal!Minus(a, b) = Ideal!Minus(a, b)
                 /\ P4!Ideal!Times(a, b) = Ideal!Times(a, b)
    /\ \A enc, a, b : /\ P4!Ideal!Add(enc, a, b) = Ideal!Add(enc, a, b)
                      /\ P4!Ideal!Sub(enc, a, b) = Ideal!Sub(enc, a, b)
                      /\ P4!Ideal!Mul(enc, a, b) = Ideal!Mul(enc, a, b)
    /\ \A a : P4!Ideal!Signed(a) = Ideal!Signed(a) /\ P4!Ideal!Sign(a) = Ideal!Sign(a)
    /\ \A a : /\ P4!Ideal!Complement(a) = Ideal!Complement(a)
              /\ P4!Ideal!Flipped(a) = Ideal!Flipped(a)
              /\ P4!Ideal!LSB(a) = Ideal!LSB(a)
<1>1. P4!Ideal!Size = Ideal!Size
  BY DEF P4!Ideal!Size, Ideal!Size
<1>2. \A bits : P4!Ideal!FromBits(bits) = Ideal!FromBits(bits)
  BY DEF P4!Ideal!FromBits, Ideal!FromBits, P4!Ideal!Places, Ideal!Places,
         P4!Ideal!MapThenSumSet, Ideal!MapThenSumSet, P4!Ideal!MapThenFoldSet,
         Ideal!MapThenFoldSet
<1>3. P4!Ideal!XorTable = Ideal!XorTable /\ P4!Ideal!AndTable = Ideal!AndTable
  BY <1>1, <1>2 DEF P4!Ideal!XorTable, Ideal!XorTable, P4!Ideal!AndTable, Ideal!AndTable,
         P4!Ideal!Places, Ideal!Places, P4!Ideal!Word, Ideal!Word, P4!Ideal!Bit,
         Ideal!Bit
<1> QED
  BY <1>1, <1>3 DEF P4!Ideal!Word, Ideal!Word, P4!Ideal!Encodings, Ideal!Encodings,
         P4!Ideal!Plus, Ideal!Plus, P4!Ideal!Minus, Ideal!Minus, P4!Ideal!Times,
         Ideal!Times, P4!Ideal!Xor, Ideal!Xor, P4!Ideal!And, Ideal!And,
         P4!Ideal!Add, Ideal!Add, P4!Ideal!Sub, Ideal!Sub, P4!Ideal!Mul, Ideal!Mul,
         P4!Ideal!Signed, Ideal!Signed, P4!Ideal!Sign, Ideal!Sign,
         P4!Ideal!IsNegative, Ideal!IsNegative, P4!Ideal!Complement,
         Ideal!Complement, P4!Ideal!Flipped, Ideal!Flipped, P4!Ideal!LSB, Ideal!LSB


(* Its steps are those of the abstract machine of the run.                 *)
LEMMA FantasticMachine ==
    ASSUME plain = P4!Plaintexts, Agreed = P4!Agreed,
           plain' = P4!Plaintexts', Agreed' = P4!Agreed', P4!Ideal!Next
    PROVE  Ideal!Next
<1>1. /\ \A enc, w : P4!Ideal!Vector(enc, w) = Ideal!Vector(enc, w)
      /\ P4!Ideal!NoVector = Ideal!NoVector
      /\ \A r, enc : P4!Ideal!Is(r, enc) <=> Ideal!Is(r, enc)
      /\ \A name, args : P4!Ideal!Call(name, args) <=> Ideal!Call(name, args)
      /\ \A r, v : P4!Ideal!Write(r, v) <=> Ideal!Write(r, v)
      /\ \A r1, v1, r2, v2 : P4!Ideal!WriteBoth(r1, v1, r2, v2) <=> Ideal!WriteBoth(r1, v1, r2, v2)
  BY DEF P4!Ideal!Vector, Ideal!Vector, P4!Ideal!NoVector, Ideal!NoVector,
         P4!Ideal!Is, Ideal!Is, P4!Ideal!Call, Ideal!Call, P4!Ideal!Write,
         Ideal!Write, P4!Ideal!WriteBoth, Ideal!WriteBoth
<1>2. \A r, enc, w : P4!Ideal!Share(r, enc, w) <=> Ideal!Share(r, enc, w)
  BY <1>1 DEF P4!Ideal!Share, Ideal!Share
<1>3. \A r : /\ P4!Ideal!Open(r) <=> Ideal!Open(r)
             /\ P4!Ideal!Reshare(r) <=> Ideal!Reshare(r)
             /\ P4!Ideal!Check <=> Ideal!Check
  BY <1>1 DEF P4!Ideal!Open, Ideal!Open, P4!Ideal!Reshare, Ideal!Reshare,
         P4!Ideal!Check, Ideal!Check
<1>4. \A x, r1, r2 : P4!Ideal!Redistribute(x, r1, r2) <=> Ideal!Redistribute(x, r1, r2)
  BY <1>1, FantasticWords DEF P4!Ideal!Redistribute, Ideal!Redistribute
<1>5. \A x, r1, r2 : P4!Ideal!DivConst(x, r1, r2) <=> Ideal!DivConst(x, r1, r2)
  BY <1>1, FantasticWords DEF P4!Ideal!DivConst, Ideal!DivConst
<1>6. ASSUME NEW x, NEW y, NEW z, NEW enc
      PROVE  /\ P4!Ideal!Binary("add", x, y, z, enc, P4!Ideal!Add)
                <=> Ideal!Binary("add", x, y, z, enc, Ideal!Add)
             /\ P4!Ideal!Binary("sub", x, y, z, enc, P4!Ideal!Sub)
                <=> Ideal!Binary("sub", x, y, z, enc, Ideal!Sub)
             /\ P4!Ideal!Binary("multiply", x, y, z, enc, P4!Ideal!Mul)
                <=> Ideal!Binary("multiply", x, y, z, enc, Ideal!Mul)
  BY <1>1, FantasticWords DEF P4!Ideal!Binary, Ideal!Binary
<1>7. ASSUME NEW x, NEW z
      PROVE  /\ P4!Ideal!Unary("not", x, z, "B", P4!Ideal!Complement)
                <=> Ideal!Unary("not", x, z, "B", Ideal!Complement)
             /\ P4!Ideal!Unary("not_1", x, z, "B", P4!Ideal!Flipped)
                <=> Ideal!Unary("not_1", x, z, "B", Ideal!Flipped)
             /\ P4!Ideal!Unary("mask", x, z, "B", P4!Ideal!LSB)
                <=> Ideal!Unary("mask", x, z, "B", Ideal!LSB)
             /\ P4!Ideal!Unary("ltz", x, z, "B", P4!Ideal!Sign)
                <=> Ideal!Unary("ltz", x, z, "B", Ideal!Sign)
             /\ P4!Ideal!Unary("b2a_bit", x, z, "A", P4!Ideal!LSB)
                <=> Ideal!Unary("b2a_bit", x, z, "A", Ideal!LSB)
  BY <1>1, FantasticWords DEF P4!Ideal!Unary, Ideal!Unary
<1>8. ASSUME NEW x, NEW y, NEW z
      PROVE  P4!Ideal!Elementwise(x, y, z) => Ideal!Elementwise(x, y, z)
  BY <1>6, <1>7, FantasticWords, Zenon DEF P4!Ideal!Elementwise, Ideal!Elementwise
<1> QED
  BY <1>2, <1>3, <1>4, <1>5, <1>8, FantasticWords DEF P4!Ideal!Next, Ideal!Next

(* The abstract machine of the other four-party protocol is that of the    *)
(* run.                                                                    *)
LEMMA CustomWords ==
    /\ P5!Ideal!Size = Ideal!Size /\ P5!Ideal!Word = Ideal!Word
    /\ P5!Ideal!Encodings = Ideal!Encodings
    /\ \A a, b : /\ P5!Ideal!Plus(a, b) = Ideal!Plus(a, b)
                 /\ P5!Ideal!Minus(a, b) = Ideal!Minus(a, b)
                 /\ P5!Ideal!Times(a, b) = Ideal!Times(a, b)
    /\ \A enc, a, b : /\ P5!Ideal!Add(enc, a, b) = Ideal!Add(enc, a, b)
                      /\ P5!Ideal!Sub(enc, a, b) = Ideal!Sub(enc, a, b)
                      /\ P5!Ideal!Mul(enc, a, b) = Ideal!Mul(enc, a, b)
    /\ \A a : P5!Ideal!Signed(a) = Ideal!Signed(a) /\ P5!Ideal!Sign(a) = Ideal!Sign(a)
    /\ \A a : /\ P5!Ideal!Complement(a) = Ideal!Complement(a)
              /\ P5!Ideal!Flipped(a) = Ideal!Flipped(a)
              /\ P5!Ideal!LSB(a) = Ideal!LSB(a)
<1>1. P5!Ideal!Size = Ideal!Size
  BY DEF P5!Ideal!Size, Ideal!Size
<1>2. \A bits : P5!Ideal!FromBits(bits) = Ideal!FromBits(bits)
  BY DEF P5!Ideal!FromBits, Ideal!FromBits, P5!Ideal!Places, Ideal!Places,
         P5!Ideal!MapThenSumSet, Ideal!MapThenSumSet, P5!Ideal!MapThenFoldSet,
         Ideal!MapThenFoldSet
<1>3. P5!Ideal!XorTable = Ideal!XorTable /\ P5!Ideal!AndTable = Ideal!AndTable
  BY <1>1, <1>2 DEF P5!Ideal!XorTable, Ideal!XorTable, P5!Ideal!AndTable, Ideal!AndTable,
         P5!Ideal!Places, Ideal!Places, P5!Ideal!Word, Ideal!Word, P5!Ideal!Bit,
         Ideal!Bit
<1> QED
  BY <1>1, <1>3 DEF P5!Ideal!Word, Ideal!Word, P5!Ideal!Encodings, Ideal!Encodings,
         P5!Ideal!Plus, Ideal!Plus, P5!Ideal!Minus, Ideal!Minus, P5!Ideal!Times,
         Ideal!Times, P5!Ideal!Xor, Ideal!Xor, P5!Ideal!And, Ideal!And,
         P5!Ideal!Add, Ideal!Add, P5!Ideal!Sub, Ideal!Sub, P5!Ideal!Mul, Ideal!Mul,
         P5!Ideal!Signed, Ideal!Signed, P5!Ideal!Sign, Ideal!Sign,
         P5!Ideal!IsNegative, Ideal!IsNegative, P5!Ideal!Complement,
         Ideal!Complement, P5!Ideal!Flipped, Ideal!Flipped, P5!Ideal!LSB, Ideal!LSB


(* Its steps are those of the abstract machine of the run.                 *)
LEMMA CustomMachine ==
    ASSUME plain = P5!Plaintexts, Agreed = P5!Agreed,
           plain' = P5!Plaintexts', Agreed' = P5!Agreed', P5!Ideal!Next
    PROVE  Ideal!Next
<1>1. /\ \A enc, w : P5!Ideal!Vector(enc, w) = Ideal!Vector(enc, w)
      /\ P5!Ideal!NoVector = Ideal!NoVector
      /\ \A r, enc : P5!Ideal!Is(r, enc) <=> Ideal!Is(r, enc)
      /\ \A name, args : P5!Ideal!Call(name, args) <=> Ideal!Call(name, args)
      /\ \A r, v : P5!Ideal!Write(r, v) <=> Ideal!Write(r, v)
      /\ \A r1, v1, r2, v2 : P5!Ideal!WriteBoth(r1, v1, r2, v2) <=> Ideal!WriteBoth(r1, v1, r2, v2)
  BY DEF P5!Ideal!Vector, Ideal!Vector, P5!Ideal!NoVector, Ideal!NoVector,
         P5!Ideal!Is, Ideal!Is, P5!Ideal!Call, Ideal!Call, P5!Ideal!Write,
         Ideal!Write, P5!Ideal!WriteBoth, Ideal!WriteBoth
<1>2. \A r, enc, w : P5!Ideal!Share(r, enc, w) <=> Ideal!Share(r, enc, w)
  BY <1>1 DEF P5!Ideal!Share, Ideal!Share
<1>3. \A r : /\ P5!Ideal!Open(r) <=> Ideal!Open(r)
             /\ P5!Ideal!Reshare(r) <=> Ideal!Reshare(r)
             /\ P5!Ideal!Check <=> Ideal!Check
  BY <1>1 DEF P5!Ideal!Open, Ideal!Open, P5!Ideal!Reshare, Ideal!Reshare,
         P5!Ideal!Check, Ideal!Check
<1>4. \A x, r1, r2 : P5!Ideal!Redistribute(x, r1, r2) <=> Ideal!Redistribute(x, r1, r2)
  BY <1>1, CustomWords DEF P5!Ideal!Redistribute, Ideal!Redistribute
<1>5. \A x, r1, r2 : P5!Ideal!DivConst(x, r1, r2) <=> Ideal!DivConst(x, r1, r2)
  BY <1>1, CustomWords DEF P5!Ideal!DivConst, Ideal!DivConst
<1>6. ASSUME NEW x, NEW y, NEW z, NEW enc
      PROVE  /\ P5!Ideal!Binary("add", x, y, z, enc, P5!Ideal!Add)
                <=> Ideal!Binary("add", x, y, z, enc, Ideal!Add)
             /\ P5!Ideal!Binary("sub", x, y, z, enc, P5!Ideal!Sub)
                <=> Ideal!Binary("sub", x, y, z, enc, Ideal!Sub)
             /\ P5!Ideal!Binary("multiply", x, y, z, enc, P5!Ideal!Mul)
                <=> Ideal!Binary("multiply", x, y, z, enc, Ideal!Mul)
  BY <1>1, CustomWords DEF P5!Ideal!Binary, Ideal!Binary
<1>7. ASSUME NEW x, NEW z
      PROVE  /\ P5!Ideal!Unary("not", x, z, "B", P5!Ideal!Complement)
                <=> Ideal!Unary("not", x, z, "B", Ideal!Complement)
             /\ P5!Ideal!Unary("not_1", x, z, "B", P5!Ideal!Flipped)
                <=> Ideal!Unary("not_1", x, z, "B", Ideal!Flipped)
             /\ P5!Ideal!Unary("mask", x, z, "B", P5!Ideal!LSB)
                <=> Ideal!Unary("mask", x, z, "B", Ideal!LSB)
             /\ P5!Ideal!Unary("ltz", x, z, "B", P5!Ideal!Sign)
                <=> Ideal!Unary("ltz", x, z, "B", Ideal!Sign)
             /\ P5!Ideal!Unary("b2a_bit", x, z, "A", P5!Ideal!LSB)
                <=> Ideal!Unary("b2a_bit", x, z, "A", Ideal!LSB)
  BY <1>1, CustomWords DEF P5!Ideal!Unary, Ideal!Unary
<1>8. ASSUME NEW x, NEW y, NEW z
      PROVE  P5!Ideal!Elementwise(x, y, z) => Ideal!Elementwise(x, y, z)
  BY <1>6, <1>7, CustomWords, Zenon DEF P5!Ideal!Elementwise, Ideal!Elementwise
<1> QED
  BY <1>2, <1>3, <1>4, <1>5, <1>8, CustomWords DEF P5!Ideal!Next, Ideal!Next

-----------------------------------------------------------------------------
(* The generators yield words.                                             *)
LEMMA PrgIsWord ==
    /\ P2!WordsDrawn /\ P3!WordsDrawn /\ P4!WordsDrawn /\ P5!WordsDrawn
<1>1. \A g : \A n \in Nat : Prg(g, n) \in 0 .. 2 ^ Bits - 1
  <2>1. 2 ^ Bits \in Nat \ {0}
    BY ProtocolsAssumption, TwoParties, P2!Reduces DEF P2!Size
  <2> DEFINE s == 2 ^ Bits
  <2> HIDE DEF s
  <2> SUFFICES ASSUME NEW g, NEW n \in Nat PROVE Prg(g, n) \in 0 .. s - 1
    BY DEF s
  <2> DEFINE tag == (IF 0 \in g THEN 1 ELSE 0) + (IF 1 \in g THEN 2 ELSE 0)
                    + (IF 2 \in g THEN 4 ELSE 0) + (IF 3 \in g THEN 7 ELSE 0)
             word == 5 * n * n + tag * (3 * n + 1) + n \div 2
  <2>2. tag \in Nat
    OBVIOUS
  <2> HIDE DEF tag
  <2>3. word \in Nat
    BY <2>2
  <2>4. Prg(g, n) = word % s
    BY DEF Prg, tag, s
  <2> HIDE DEF word
  <2> QED BY <2>1, <2>3, <2>4 DEF s
<1> QED
  BY <1>1 DEF P2!WordsDrawn, P2!Word, P2!Size, P3!WordsDrawn, P3!Word, P3!Size,
              P4!WordsDrawn, P4!Word, P4!Size, P5!WordsDrawn, P5!Word, P5!Size

(* What the abstract machine of a run sees is what that of its protocol    *)
(* sees.                                                                   *)
SameMachine ==
    /\ protocol = 2 => Plaintexts = P2!Plaintexts /\ Agreed = P2!Agreed
    /\ protocol = 3 => Plaintexts = P3!Plaintexts /\ Agreed = P3!Agreed
    /\ protocol = 4 => Plaintexts = P4!Plaintexts /\ Agreed = P4!Agreed
    /\ protocol = 5 => Plaintexts = P5!Plaintexts /\ Agreed = P5!Agreed

(* So it is, as every run has one protocol.                                *)
LEMMA Seen == SameMachine
<1>1. protocol = 2 => Plaintexts = P2!Plaintexts /\ Agreed = P2!Agreed
  <2>1. protocol = 2 => protocol # 3 /\ protocol # 4 /\ protocol # 5
    OBVIOUS
  <2> QED BY <2>1, Zenon DEF Plaintexts, Agreed
<1>2. protocol = 3 => Plaintexts = P3!Plaintexts /\ Agreed = P3!Agreed
  <2>1. protocol = 3 => protocol # 2 /\ protocol # 4 /\ protocol # 5
    OBVIOUS
  <2> QED BY <2>1, Zenon DEF Plaintexts, Agreed
<1>3. protocol = 4 => Plaintexts = P4!Plaintexts /\ Agreed = P4!Agreed
  <2>1. protocol = 4 => protocol # 2 /\ protocol # 3 /\ protocol # 5
    OBVIOUS
  <2> QED BY <2>1, Zenon DEF Plaintexts, Agreed
<1>4. protocol = 5 => Plaintexts = P5!Plaintexts /\ Agreed = P5!Agreed
  <2>1. protocol = 5 => protocol # 2 /\ protocol # 3 /\ protocol # 4
    OBVIOUS
  <2> QED BY <2>1, Zenon DEF Plaintexts, Agreed
<1> QED
  BY <1>1, <1>2, <1>3, <1>4 DEF SameMachine

(* The inductive invariant: what each protocol keeps between primitives.   *)
Kept ==
    /\ protocol \in {2, 3, 4, 5} /\ protocol \in Protocols
    /\ protocol = 2 => P2!Honest /\ NoDigest
    /\ protocol = 3 => P3!Honest /\ NoDigest
    /\ protocol = 4 => P4!Honest
    /\ protocol = 5 => P5!Honest /\ NoDigest
    /\ plain = Plaintexts

(* The negation of a bit of two parties is only called on bits.            *)
AsBits == 2 \in Protocols => BitsOnly

(* Every run starts with it, and as the abstract machine does.             *)
LEMMA Starts ==
    ASSUME Init
    PROVE  Kept /\ Ideal!Init
<1>0. protocol \in {2, 3, 4, 5} /\ protocol \in Protocols /\ plain = Plaintexts
  BY ProtocolsAssumption DEF Init
<1>1. CASE protocol = 2
  <2>1. P2!Init /\ NoDigest
    BY <1>1 DEF Init, NoCheck
  <2>2. P2!Honest /\ P2!Ideal!Init
    BY <2>1, ProtocolsAssumption, TwoStart
  <2>3. Ideal!Init
    BY <1>0, <1>1, <2>2, Seen
       DEF SameMachine, Ideal!Init, P2!Ideal!Init, Ideal!NoVector, P2!Ideal!NoVector,
           Ideal!Vector, P2!Ideal!Vector, Ideal!NotOpened, P2!Ideal!NotOpened,
           Ideal!Size, P2!Ideal!Size
  <2> QED BY <1>0, <1>1, <2>1, <2>2, <2>3 DEF Kept
<1>2. CASE protocol = 3
  <2>1. P3!Init /\ NoDigest
    BY <1>2 DEF Init, NoCheck
  <2>2. P3!Honest /\ P3!Ideal!Init
    BY <2>1, ProtocolsAssumption, P3!ThreeStart
  <2>3. Ideal!Init
    BY <1>0, <1>2, <2>2, Seen
       DEF SameMachine, Ideal!Init, P3!Ideal!Init, Ideal!NoVector, P3!Ideal!NoVector,
           Ideal!Vector, P3!Ideal!Vector, Ideal!NotOpened, P3!Ideal!NotOpened,
           Ideal!Size, P3!Ideal!Size
  <2> QED BY <1>0, <1>2, <2>1, <2>2, <2>3 DEF Kept
<1>3. CASE protocol = 4
  <2>1. P4!Init
    BY <1>3 DEF Init, NoCheck
  <2>2. P4!Honest /\ P4!Ideal!Init
    BY <2>1, ProtocolsAssumption, P4!FantasticStart
  <2>3. Ideal!Init
    BY <1>0, <1>3, <2>2, Seen
       DEF SameMachine, Ideal!Init, P4!Ideal!Init, Ideal!NoVector, P4!Ideal!NoVector,
           Ideal!Vector, P4!Ideal!Vector, Ideal!NotOpened, P4!Ideal!NotOpened,
           Ideal!Size, P4!Ideal!Size
  <2> QED BY <1>0, <1>3, <2>1, <2>2, <2>3 DEF Kept
<1>4. CASE protocol = 5
  <2>1. P5!Init /\ NoDigest
    BY <1>4 DEF Init, NoCheck
  <2>2. P5!Honest /\ P5!Ideal!Init
    BY <2>1, ProtocolsAssumption, P5!CustomStart
  <2>3. Ideal!Init
    BY <1>0, <1>4, <2>2, Seen
       DEF SameMachine, Ideal!Init, P5!Ideal!Init, Ideal!NoVector, P5!Ideal!NoVector,
           Ideal!Vector, P5!Ideal!Vector, Ideal!NotOpened, P5!Ideal!NotOpened,
           Ideal!Size, P5!Ideal!Size
  <2> QED BY <1>0, <1>4, <2>1, <2>2, <2>3 DEF Kept
<1> QED
  BY <1>0, <1>1, <1>2, <1>3, <1>4

(* Whichever protocol runs, a step keeps the invariant and is one of the   *)
(* abstract machine.                                                       *)
LEMMA Steps ==
    ASSUME Kept, [Next]_vars
    PROVE  Kept' /\ (AsBits => [Ideal!Next]_(Ideal!vars))
<1>s. SameMachine'
  BY Seen, PTL
<1>p. plain' = Plaintexts'
  <2>1. CASE UNCHANGED vars
    <3>1. view' = view /\ plain' = plain /\ protocol' = protocol
      BY <2>1 DEF vars
    <3>2. /\ P2!Plaintexts' = P2!Plaintexts /\ P3!Plaintexts' = P3!Plaintexts
          /\ P4!Plaintexts' = P4!Plaintexts /\ P5!Plaintexts' = P5!Plaintexts
      BY <3>1 DEF P2!Plaintexts, P2!Plaintext, P3!Plaintexts, P3!Plaintext,
                  P4!Plaintexts, P4!Plaintext, P5!Plaintexts, P5!Plaintext
    <3> QED BY <1>s, <3>1, <3>2, Seen DEF Kept, SameMachine
  <2> QED BY <2>1 DEF Next
<1>0. /\ protocol \in {2, 3, 4, 5} /\ protocol \in Protocols /\ protocol' = protocol
      /\ plain = Plaintexts /\ plain' = Plaintexts' /\ SameMachine'
  BY <1>s, <1>p DEF Kept, Next, vars
<1>1. CASE protocol = 2
  <2>1. [P2!Next]_(P2!sharingVars) /\ UNCHANGED digest
    BY <1>1 DEF Kept, Next, vars, P2!sharingVars
  <2>2. P2!Honest' /\ (BitsOnly => [P2!Ideal!Next]_(P2!Ideal!vars))
    BY <1>1, <2>1, ProtocolsAssumption, PrgIsWord, TwoStep DEF Kept
  <2>3. /\ plain = P2!Plaintexts /\ Agreed = P2!Agreed
        /\ plain' = P2!Plaintexts' /\ Agreed' = P2!Agreed'
    BY <1>0, <1>1, Seen DEF SameMachine
  <2>4. P2!Ideal!Next => Ideal!Next
    BY <2>3, TwoMachine
  <2>5. UNCHANGED P2!Ideal!vars => UNCHANGED Ideal!vars
    BY <2>3 DEF P2!Ideal!vars, Ideal!vars
  <2>6. AsBits => [Ideal!Next]_(Ideal!vars)
    BY <1>1, <2>2, <2>4, <2>5 DEF AsBits, Kept
  <2> QED BY <1>0, <1>1, <2>1, <2>2, <2>6 DEF Kept, NoDigest
<1>2. CASE protocol = 3
  <2>1. [P3!Next]_(P3!sharingVars) /\ UNCHANGED digest
    BY <1>2 DEF Kept, Next, vars, P3!sharingVars
  <2>2. P3!Honest' /\ [P3!Ideal!Next]_(P3!Ideal!vars)
    BY <1>2, <2>1, ProtocolsAssumption, PrgIsWord, P3!ThreeStep DEF Kept
  <2>3. /\ plain = P3!Plaintexts /\ Agreed = P3!Agreed
        /\ plain' = P3!Plaintexts' /\ Agreed' = P3!Agreed'
    BY <1>0, <1>2, Seen DEF SameMachine
  <2>4. P3!Ideal!Next => Ideal!Next
    BY <2>3, ThreeMachine
  <2>5. UNCHANGED P3!Ideal!vars => UNCHANGED Ideal!vars
    BY <2>3 DEF P3!Ideal!vars, Ideal!vars
  <2>6. [Ideal!Next]_(Ideal!vars)
    BY <1>2, <2>2, <2>4, <2>5 DEF AsBits, Kept
  <2> QED BY <1>0, <1>2, <2>1, <2>2, <2>6 DEF Kept, NoDigest
<1>3. CASE protocol = 4
  <2>1. [P4!Next]_(P4!vars) /\ P4!Honest
    BY <1>3 DEF Kept, Next, vars, P4!vars, P4!sharingVars
  <2>2. P4!Honest' /\ [P4!Ideal!Next]_(P4!Ideal!vars)
    BY <1>3, <2>1, ProtocolsAssumption, PrgIsWord, P4!FantasticStep DEF Kept
  <2>3. /\ plain = P4!Plaintexts /\ Agreed = P4!Agreed
        /\ plain' = P4!Plaintexts' /\ Agreed' = P4!Agreed'
    BY <1>0, <1>3, Seen DEF SameMachine
  <2>4. P4!Ideal!Next => Ideal!Next
    BY <2>3, FantasticMachine
  <2>5. UNCHANGED P4!Ideal!vars => UNCHANGED Ideal!vars
    BY <2>3 DEF P4!Ideal!vars, Ideal!vars
  <2>6. [Ideal!Next]_(Ideal!vars)
    BY <1>3, <2>2, <2>4, <2>5 DEF AsBits, Kept
  <2> QED BY <1>0, <1>3, <2>1, <2>2, <2>6 DEF Kept, NoDigest
<1>4. CASE protocol = 5
  <2>1. [P5!Next]_(P5!vars) /\ UNCHANGED digest
    BY <1>4 DEF Kept, Next, vars, P5!vars, P5!sharingVars
  <2>2. P5!Honest' /\ [P5!Ideal!Next]_(P5!Ideal!vars)
    BY <1>4, <2>1, ProtocolsAssumption, PrgIsWord, P5!CustomStep DEF Kept
  <2>3. /\ plain = P5!Plaintexts /\ Agreed = P5!Agreed
        /\ plain' = P5!Plaintexts' /\ Agreed' = P5!Agreed'
    BY <1>0, <1>4, Seen DEF SameMachine
  <2>4. P5!Ideal!Next => Ideal!Next
    BY <2>3, CustomMachine
  <2>5. UNCHANGED P5!Ideal!vars => UNCHANGED Ideal!vars
    BY <2>3 DEF P5!Ideal!vars, Ideal!vars
  <2>6. [Ideal!Next]_(Ideal!vars)
    BY <1>4, <2>2, <2>4, <2>5 DEF AsBits, Kept
  <2> QED BY <1>0, <1>4, <2>1, <2>2, <2>6 DEF Kept, NoDigest
<1> QED
  BY <1>0, <1>1, <1>2, <1>3, <1>4

-----------------------------------------------------------------------------
(* What the protocol that runs keeps between two primitives is kept for as *)
(* long as the program runs.                                               *)
THEOREM AlwaysKept == Spec => []Kept
<1>1. Init => Kept
  BY Starts
<1>2. Kept /\ [Next]_vars => Kept'
  BY Steps
<1> QED
  BY <1>1, <1>2, PTL DEF Spec

(* Whatever the parties of any protocol compute, hold and open are machine *)
(* words, and generators are counted per party and group.                  *)
THEOREM TypeCorrect == Spec => []TypeOK
<1>1. Kept => TypeOK
  BY P3!ThreeHonest, P4!FantasticHonest, P5!CustomHonestIs DEF Kept, TypeOK, P2!Honest, P2!Typed
<1> QED
  BY <1>1, AlwaysKept, PTL

(* The copies that parties hold of one share are equal in every state.     *)
THEOREM AlwaysSharesAgree == Spec => []SharesAgree
<1>1. Kept => SharesAgree
  BY P3!ThreeHonest, P4!FantasticHonest, P5!CustomHonestIs DEF Kept, SharesAgree
<1> QED
  BY <1>1, AlwaysKept, PTL

(* The members of a group have drawn as many words as each other from      *)
(* their generator in every state, also under the two-party protocol,      *)
(* whose shares have no copies to compare.                                 *)
THEOREM AlwaysInStep == Spec => []GeneratorsInStep
<1>1. Kept => GeneratorsInStep
  BY P3!ThreeHonest, P4!FantasticHonest, P5!CustomHonestIs DEF Kept, GeneratorsInStep, P2!Honest
<1> QED
  BY <1>1, AlwaysKept, PTL

(* Between parties that follow a protocol of four parties no comparison    *)
(* fails.                                                                  *)
THEOREM NeverFalseAlarm == Spec => []NoFalseAlarm
<1>1. Kept => NoFalseAlarm
  BY P4!FantasticHonest, P5!CustomHonestIs DEF Kept, NoFalseAlarm
<1> QED
  BY <1>1, AlwaysKept, PTL

(* Every protocol computes on the plaintexts what class Protocol says, the *)
(* two-party protocol as long as not_b_1 is only called on bits.           *)
THEOREM EveryProtocolImplementsIdeal ==
    ASSUME AsBits
    PROVE  Spec => ImplementsIdeal
<1>1. Init => Kept /\ Ideal!Init
  BY Starts
<1>2. Kept /\ [Next]_vars => Kept' /\ [Ideal!Next]_(Ideal!vars)
  BY Steps
<1> QED
  BY <1>1, <1>2, PTL DEF Spec, ImplementsIdeal, Ideal!Spec
=============================================================================
