------------------------ MODULE Replicated3PC_proofs ------------------------
(***************************************************************************)
(* Proofs about the three-party protocol, for words of any width, any      *)
(* generators and divisor, and programs of any length: the two copies of   *)
(* every share stay equal, so do the generators two parties share, and     *)
(* what the parties hold and open are words; and every primitive computes  *)
(* on the plaintexts what class Protocol says.                             *)
(***************************************************************************)
EXTENDS Replicated3PC, Sharing_proofs

(* Three parties, each with the shares of its own number and the next.     *)
LEMMA ThreeParties ==
    ASSUME Replicated3PCAssumption
    PROVE  /\ SharingAssumption
           /\ Parties = {0, 1, 2} /\ Index = {0, 1} /\ Pairs \subseteq Groups
           /\ \A p, d : Rank(p, d) = (p + d) % 3
           /\ \A p \in Parties : Rank(p, -1) = Rank(p, 2)
<1>1. NumParties = 3 /\ ReplicationNumber = 2 /\ SharingAssumption /\ Pairs \subseteq Groups
  BY DEF Replicated3PCAssumption
<1>2. \A p, d : Rank(p, d) = (p + d) % 3
  BY <1>1 DEF Rank
<1>3. ASSUME NEW p \in Int, 0 <= p, p <= 2
      PROVE  Rank(p, -1) = Rank(p, 2)
  <2>1. \A a \in Int : 0 <= a /\ a <= 2 => (a - 1) % 3 = (a + 2) % 3
    BY Mod3
  <2> QED BY <1>2, <1>3, <2>1
<1>4. \A p \in Parties : p \in Int /\ 0 <= p /\ p <= 2
  BY <1>1 DEF Parties
<1> QED
  BY <1>1, <1>2, <1>3, <1>4 DEF Parties, Index

(* The distance from the owner of a word, that is never a negative rank.   *)
Behind(p, owner) == (p - owner) % NumParties

(* It is the distance from a rank that is not negative.                    *)
LEMMA BehindIs ==
    ASSUME Replicated3PCAssumption, NEW p \in Parties, NEW owner \in Parties
    PROVE  Behind(p, owner) = (p + (3 - owner)) % 3
<1>1. NumParties = 3 /\ p \in Int /\ 0 <= p /\ p <= 2 /\ owner \in Int /\ 0 <= owner /\ owner <= 2
  BY DEF Replicated3PCAssumption, Parties
<1>2. (p - owner) % 3 = (p + (3 - owner)) % 3
  BY <1>1, Mod3
<1> QED
  BY <1>1, <1>2 DEF Behind

(* Of two parties one holds each share of the third.                       *)
LEMMA PairsServe ==
    ASSUME Replicated3PCAssumption
    PROVE  \A g \in Pairs : \A q \in Parties \ g : CanServe(g, q)
<1>1. \A p \in Parties, i \in Index : ShareOf(p, i) = (p + i) % 3
  BY ThreeParties DEF ShareOf
<1>2. \A q \in Parties, i \in Index : \E o \in Parties \ {q}, j \in Index :
          ShareOf(o, j) = ShareOf(q, i)
  <2> SUFFICES ASSUME NEW q \in Parties, NEW i \in Index
               PROVE  \E o \in Parties \ {q}, j \in Index : ShareOf(o, j) = ShareOf(q, i)
    OBVIOUS
  <2> DEFINE other == IF i = 0 THEN (q + 2) % 3 ELSE (q + 1) % 3
  <2>1. other \in Parties \ {q} /\ 1 - i \in Index
    BY ThreeParties
  <2>2. ShareOf(other, 1 - i) = ShareOf(q, i)
    BY <1>1, <2>1, ThreeParties
  <2> HIDE DEF other
  <2> QED
    BY <2>1, <2>2
<1>3. \A g \in Pairs : \A q \in Parties \ g : g = Parties \ {q}
  BY ThreeParties DEF Pairs
<1> QED
  BY <1>2, <1>3 DEF CanServe, Holders

(* What every party sends its predecessor is held by both.                 *)
LEMMA WithSuccessorAgrees == \A w : Agrees(WithSuccessor(w))
BY DEF Agrees, WithSuccessor, ShareOf

(* So is what an owner deals out.                                          *)
LEMMA DealtAgrees ==
    ASSUME Replicated3PCAssumption, NEW enc, NEW w, NEW owner \in Parties
    PROVE  Agrees(Dealt(enc, w, owner, 0))
<1> DEFINE last == NumParties - 1
           drawn == [k \in 0 .. last - 1 |-> Draw(owner, {owner}, k)]
           share(k) == IF k < last THEN drawn[k]
                       ELSE Sub(enc, w, SumOver(enc, 0 .. last - 1, drawn))
           number(p, i) == (Behind(p, owner) + i + 0) % NumParties
<1>1. Dealt(enc, w, owner, 0)
        = [p \in Parties |-> [i \in Index |-> share(number(p, i))]]
  BY DEF Dealt, Behind
<1>2. \A p, q \in Parties, i, j \in Index :
          ShareOf(p, i) = ShareOf(q, j) => number(p, i) = number(q, j)
  <2>1. \A p \in Parties, i \in Index : number(p, i) = (ShareOf(p, i) + (3 - owner)) % 3
    <3>1. NumParties = 3 /\ \A p, i : ShareOf(p, i) = (p + i) % 3
      BY ThreeParties DEF Replicated3PCAssumption, ShareOf
    <3>2. \A p \in Parties : Behind(p, owner) = (p + (3 - owner)) % 3
      BY BehindIs
    <3> QED BY <3>1, <3>2, ThreeParties
  <2> HIDE DEF number
  <2> QED BY <2>1
<1> HIDE DEF share, number
<1> QED
  BY <1>1, <1>2 DEF Agrees

(* Two parties draw the word they share for a sharing of zero, or neither. *)
LEMMA ZeroDrawnInStep ==
    ASSUME Replicated3PCAssumption, NEW k
    PROVE  \A g \in Groups : \A p, q \in g : ZeroDrawn(p, g, k) = ZeroDrawn(q, g, k)
<1>1. \A p \in Parties : Rank(p, -1) = (p + 2) % 3 /\ Rank(p, 1) = (p + 1) % 3
  BY ThreeParties
<1>2. \A p \in Parties, g \in Pairs : p \in g => ZeroDrawn(p, g, k) = k
  <2>1. \A p \in {0, 1, 2}, g \in Pairs : p \in g => g \in {{p, (p + 2) % 3}, {p, (p + 1) % 3}}
    BY DEF Pairs
  <2> QED BY <1>1, <2>1, ThreeParties DEF ZeroDrawn
<1>3. \A p \in Parties : {p} \notin Pairs
  <2>1. \A g \in Pairs : \E a, b \in g : a # b
    BY DEF Pairs
  <2> QED BY <2>1
<1>4. \A g \in Pairs : g \subseteq Parties
  BY ThreeParties DEF Pairs
<1> QED
  BY <1>2, <1>3, <1>4 DEF Replicated3PCAssumption

(* What holds between two primitives.                                      *)
Consistent == Replicated /\ GeneratorsInStep

(* The primitives on one vector.                                           *)
LEMMA OnOneKeeps ==
    ASSUME Replicated3PCAssumption, Consistent, NEW x \in Registers, OnOne(x)
    PROVE  Consistent'
<1> USE DEF Consistent
<1>0. SharingAssumption
  BY ThreeParties
<1>1. ASSUME NEW enc, NEW w, NEW p \in Parties, SecretShare(x, enc, w, p, 0)
      PROVE  Consistent'
  <2>1. Write(x, Vector(enc, Dealt(enc, w, p, 0)))
    BY <1>1 DEF SecretShare
  <2>2. DrawnBy({p}, {p}, NumParties - 1)
    BY <1>1 DEF SecretShare
  <2> QED
    BY <1>0, <2>1, <2>2, DealtAgrees, WriteKeeps, DrawnByInStep
<1>2. ASSUME NEW enc, NEW w, NEW S, PublicShare(x, enc, w, S)
      PROVE  Consistent'
  <2> DEFINE s == [p \in Parties |-> [i \in Index |->
                      IF Rank(p, i) = CommonShare(S) THEN w ELSE 0]]
  <2>1. Agrees(s)
    BY DEF Agrees, ShareOf
  <2>2. Write(x, Vector(enc, s)) /\ NothingDrawn
    BY <1>2 DEF PublicShare
  <2> HIDE DEF s
  <2> QED
    BY <2>1, <2>2, WriteKeeps, NothingDrawnInStep
<1>3. CASE OpenShares(x)
  <2>1. UNCHANGED <<view, nonce>>
    BY <1>3 DEF OpenShares, Open, NothingDrawn
  <2> QED
    BY <2>1 DEF Replicated, Agrees, GeneratorsInStep
<1>4. ASSUME NEW g \in Pairs, Reshare(x, g) PROVE Consistent'
  <2>1. Agrees(Reshared(Rerandomized(x, g), g))
    BY <1>0, ThreeParties, PairsServe, ReshareAgrees DEF Replicated
  <2>2. /\ Write(x, Vector(view[x].enc, Reshared(Rerandomized(x, g), g)))
        /\ DrawnBy(g, g, NumParties - 1)
    BY <1>4 DEF Reshare
  <2> QED
    BY <1>0, <2>1, <2>2, WriteKeeps, DrawnByInStep
<1> QED
  BY <1>1, <1>2, <1>3, <1>4 DEF OnOne

(* The primitives that compute a vector from another.                      *)
LEMMA OnTwoKeeps ==
    ASSUME Replicated3PCAssumption, Consistent,
           NEW x \in Registers, NEW z \in Registers, OnTwo(x, z)
    PROVE  Consistent'
<1> USE DEF Consistent
<1>1. CASE NotB(x, z)
  <2> DEFINE s == [p \in Parties |-> [i \in Index |-> Complement(sh(x, p, i))]]
  <2>1. Agrees(s)
    BY DEF Agrees, Replicated, sh
  <2>2. Write(z, Vector("B", s)) /\ NothingDrawn
    BY <1>1 DEF NotB
  <2> HIDE DEF s
  <2> QED
    BY <2>1, <2>2, WriteKeeps, NothingDrawnInStep
<1>2. CASE NotB1(x, z)
  <2>1. Agrees(Not1Shares(x))
    BY DEF Agrees, Replicated, sh, Not1Shares
  <2>2. Write(z, Vector("B", Not1Shares(x))) /\ NothingDrawn
    BY <1>2 DEF NotB1
  <2> QED
    BY <2>1, <2>2, WriteKeeps, NothingDrawnInStep
<1>3. CASE Mask(x, z) \/ LTZ(x, z)
  BY <1>3, BitsKeep
<1>4. CASE B2ABit(x, z)
  <2>1. PICK d : Write(z, Vector("A", Product("A", d, d, 2)))
    BY <1>4, Zenon DEF B2ABit
  <2>2. Agrees(Product("A", d, d, 2))
    BY WithSuccessorAgrees DEF Product
  <2>3. GeneratorsInStep'
    BY <1>4, ThreeParties, ZeroDrawnInStep
       DEF B2ABit, Drawn, GeneratorsInStep, SharingAssumption
  <2> QED
    BY <2>1, <2>2, <2>3, WriteKeeps
<1> QED
  BY <1>1, <1>2, <1>3, <1>4 DEF OnTwo

(* The primitives on two vectors, or with two results.                     *)
LEMMA OnThreeKeeps ==
    ASSUME Replicated3PCAssumption, Consistent,
           NEW x \in Registers, NEW y \in Registers, NEW z \in Registers, OnThree(x, y, z)
    PROVE  Consistent'
<1> USE DEF Consistent
<1>1. ASSUME NEW enc, AddUp(x, y, z, enc) \/ Subtract(x, y, z, enc) PROVE Consistent'
  BY <1>1, AddUpKeeps, SubtractKeeps
<1>2. ASSUME NEW enc, Multiply(x, y, z, enc) PROVE Consistent'
  <2>1. Agrees(Product(enc, view[x].sh, view[y].sh, 0))
    BY WithSuccessorAgrees DEF Product
  <2>2. Write(z, Vector(enc, Product(enc, view[x].sh, view[y].sh, 0)))
    BY <1>2 DEF Multiply
  <2>3. GeneratorsInStep'
    BY <1>2, ThreeParties, ZeroDrawnInStep
       DEF Multiply, Drawn, GeneratorsInStep, SharingAssumption
  <2> QED
    BY <2>1, <2>2, <2>3, WriteKeeps
<1>3. CASE DivConst(x, y, z)
  <2>1. PICK f, h : WriteBoth(y, Vector("A", Handed(f, 0, 0)),
                              z, Vector("A", Handed(h, 1, Divisor)))
    BY <1>3, Zenon DEF DivConst
  <2>2. Agrees(Handed(f, 0, 0)) /\ Agrees(Handed(h, 1, Divisor))
    BY WithSuccessorAgrees DEF Handed
  <2>3. DrawnBy({0, 1}, {0, 1}, 2)
    BY <1>3 DEF DivConst
  <2> QED
    BY <2>1, <2>2, <2>3, ThreeParties, WriteBothKeeps, DrawnByInStep
<1>4. CASE Redistribute(x, y, z)
  <2>1. PICK v, w : WriteBoth(y, Vector("B", Dealt("B", v, 0, 0)),
                              z, Vector("B", Dealt("B", w, 2, 0)))
    BY <1>4, Zenon DEF Redistribute
  <2>2. Agrees(Dealt("B", v, 0, 0)) /\ Agrees(Dealt("B", w, 2, 0))
    BY ThreeParties, DealtAgrees
  <2>3. GeneratorsInStep'
    BY <1>4, ThreeParties DEF Redistribute, Drawn, GeneratorsInStep, SharingAssumption
  <2> QED
    BY <2>1, <2>2, <2>3, WriteBothKeeps
<1> QED
  BY <1>1, <1>2, <1>3, <1>4 DEF OnThree

(* Every primitive of the three-party protocol leaves the copies of every  *)
(* share equal and the common generators in step, for every word size.     *)
THEOREM ThreePartiesConsistent ==
    ASSUME Replicated3PCAssumption
    PROVE  Spec => []Consistent
<1>1. Init => Consistent
  BY ThreeParties, StartAgrees DEF Init, Consistent
<1>2. Consistent /\ [Next]_sharingVars => Consistent'
  <2>1. ASSUME Consistent, Next PROVE Consistent'
    BY <2>1, OnOneKeeps, OnTwoKeeps, OnThreeKeeps DEF Next
  <2>2. ASSUME Consistent, UNCHANGED sharingVars PROVE Consistent'
    BY <2>2 DEF Consistent, Replicated, Agrees, GeneratorsInStep, sharingVars
  <2> QED
    BY <2>1, <2>2
<1> QED
  BY <1>1, <1>2, PTL DEF Spec

(* The copies of a share are equal in every state: what the parties send   *)
(* in a multiplication, a conversion, a division or a resharing is what    *)
(* the other holder of the share computes or receives.                     *)
THEOREM ThreePartiesSharesAgree ==
    ASSUME Replicated3PCAssumption
    PROVE  Spec => []SharesAgree
<1>1. Consistent => SharesAgree
  BY ReplicatedIsSharesAgree DEF Consistent
<1> QED
  BY <1>1, ThreePartiesConsistent, PTL

(* Two parties have drawn as many words from the generator they share.     *)
THEOREM ThreePartiesGeneratorsInStep ==
    ASSUME Replicated3PCAssumption
    PROVE  Spec => []GeneratorsInStep
<1>1. Consistent => GeneratorsInStep
  BY DEF Consistent
<1> QED
  BY <1>1, ThreePartiesConsistent, PTL

-----------------------------------------------------------------------------
(* What the parties hand each other are words.                             *)
LEMMA WithSuccessorTyped ==
    ASSUME Replicated3PCAssumption, NEW w, \A p \in Parties : w[p] \in Word
    PROVE  WithSuccessor(w) \in Shares
<1>1. \A p \in Parties, i \in Index : Rank(p, i) \in Parties
  BY ThreeParties
<1> QED
  BY <1>1 DEF WithSuccessor, Shares

(* So are their sharings of zero.                                          *)
LEMMA ZeroShareIsWord ==
    ASSUME Replicated3PCAssumption, WordsDrawn, Typed, NEW enc, NEW p \in Parties, NEW k \in Nat
    PROVE  ZeroShare(enc, p, k) \in Word
<1>1. {p, Rank(p, -1)} \in Groups /\ {p, Rank(p, 1)} \in Groups
  <2>1. {p, Rank(p, -1)} \in Pairs /\ {p, Rank(p, 1)} \in Pairs
    BY ThreeParties DEF Pairs
  <2> QED BY <2>1, ThreeParties
<1>2. Draw(p, {p, Rank(p, -1)}, k) \in Word /\ Draw(p, {p, Rank(p, 1)}, k) \in Word
  BY <1>1, ThreeParties, DrawIsWord
<1> QED
  BY <1>2, ThreeParties, TypedFacts, SharesClosed DEF ZeroShare

(* So is a product.                                                        *)
LEMMA ProductTyped ==
    ASSUME Replicated3PCAssumption, WordsDrawn, Typed, NEW enc,
           NEW x \in Shares, NEW y \in Shares, NEW k \in Nat
    PROVE  Product(enc, x, y, k) \in Shares
<1> DEFINE w == [p \in Parties |->
        Add(enc, ZeroShare(enc, p, k),
            Add(enc, Mul(enc, x[p][0], y[p][0]),
                Add(enc, Mul(enc, x[p][0], y[p][1]), Mul(enc, x[p][1], y[p][0]))))]
<1>1. \A p \in Parties, i \in Index : x[p][i] \in Word /\ y[p][i] \in Word
  BY DEF Shares
<1>2. 0 \in Index /\ 1 \in Index /\ BitsAssumption
  BY ThreeParties, TypedFacts
<1>3. \A p \in Parties : w[p] \in Word
  BY <1>1, <1>2, ZeroShareIsWord, SharesClosed
<1>4. Product(enc, x, y, k) = WithSuccessor(w)
  BY DEF Product
<1> HIDE DEF w
<1> QED
  BY <1>3, <1>4, WithSuccessorTyped

(* The quotient and the rest of a word.                                    *)
LEMMA FloorIsWord ==
    ASSUME Replicated3PCAssumption, NEW w \in Word
    PROVE  Floor(w) \in Word /\ Rest(w) \in Word
<1>1. BitsAssumption /\ Divisor \in Word /\ Divisor > 0
  BY ThreeParties, DivisorFacts
<1>2. Sign(w) \in Word /\ Quotient(w, Divisor) \in Word /\ Remainder(w, Divisor) \in Word
  BY <1>1, OnOneWord, DivisionClosed
<1> QED
  BY <1>1, <1>2, Closed DEF Floor, Rest

(* What P0 hands P1, and what P2 keeps.                                    *)
LEMMA HandedTyped ==
    ASSUME Replicated3PCAssumption, WordsDrawn, Typed,
           NEW f, \A p \in Parties : f[p] \in Word, NEW k \in Nat, NEW correction \in Word
    PROVE  Handed(f, k, correction) \in Shares
<1> DEFINE w == [p \in Parties |->
        CASE p = 0 -> Minus(f[p], Draw(0, {0, 1}, k))
          [] p = 1 -> Draw(1, {0, 1}, k)
          [] p = 2 -> Minus(f[p], correction)]
<1>1. {0, 1} \in Groups /\ Parties = {0, 1, 2} /\ BitsAssumption /\ SharingAssumption
  BY ThreeParties, TypedFacts DEF Pairs
<1>2. Draw(0, {0, 1}, k) \in Word /\ Draw(1, {0, 1}, k) \in Word
  BY <1>1, DrawIsWord
<1>3. \A p \in Parties : w[p] \in Word
  BY <1>1, <1>2, Closed
<1>4. Handed(f, k, correction) = WithSuccessor(w)
  BY DEF Handed
<1> HIDE DEF w
<1> QED
  BY <1>3, <1>4, WithSuccessorTyped

(* The counts of drawn words stay numbers.                                 *)
LEMMA ZeroDrawnTyped ==
    ASSUME Replicated3PCAssumption, Typed, NEW k \in Nat, Drawn(LAMBDA p, g : ZeroDrawn(p, g, k))
    PROVE  nonce' \in Counts
BY ThreeParties, TypedFacts DEF Drawn, ZeroDrawn, Counts

(* The primitives on one vector keep the types.                            *)
LEMMA OnOneTyped ==
    ASSUME Replicated3PCAssumption, WordsDrawn, Typed, NEW x \in Registers, OnOne(x)
    PROVE  Typed'
<1>0. SharingAssumption /\ BitsAssumption /\ MaxPrimitives \in Nat /\ 0 \in Word
  BY ThreeParties, TypedFacts DEF SharingAssumption
<1>1. ASSUME NEW enc \in Encodings, NEW w \in Inputs, NEW p \in Parties, SecretShare(x, enc, w, p, 0)
      PROVE  Typed'
  BY <1>0, <1>1, SecretShareTyped
<1>2. ASSUME NEW enc \in Encodings, NEW w \in Inputs, NEW S, PublicShare(x, enc, w, S)
      PROVE  Typed'
  <2> DEFINE s == [p \in Parties |-> [i \in Index |->
                      IF Rank(p, i) = CommonShare(S) THEN w ELSE 0]]
  <2>1. s \in Shares
    BY <1>0 DEF Shares, SharingAssumption
  <2>2. Write(x, Vector(enc, s)) /\ NothingDrawn /\ Call("share", <<x, enc, w>>)
    BY <1>2 DEF PublicShare
  <2> HIDE DEF s
  <2> QED
    BY <1>0, <2>1, <2>2, WriteTyped, NothingDrawnTyped
<1>3. CASE OpenShares(x)
  <2> DEFINE received == [p \in Parties |-> sh(x, Rank(p, 1), 1)]
  <2>1. \A p \in Parties : received[p] \in Word
    <3>1. \A p \in Parties : Rank(p, 1) \in Parties /\ 1 \in Index
      BY ThreeParties
    <3> QED BY <1>0, <3>1, TypedFacts DEF sh
  <2>2. /\ opened' = [p \in Parties |->
               Add(view[x].enc, SumOver(view[x].enc, Index, view[x].sh[p]), received[p])]
        /\ UNCHANGED view /\ Call("open", <<x>>) /\ NothingDrawn
    BY <1>3 DEF OpenShares, Open
  <2> HIDE DEF received
  <2> QED
    BY <1>0, <2>1, <2>2, OpenTyped
<1>4. ASSUME NEW g \in Pairs, Reshare(x, g) PROVE Typed'
  <2>1. g \in Groups /\ g \in SUBSET Parties
    BY ThreeParties DEF Pairs
  <2>2. Rerandomized(x, g) \in Shares
    BY <1>0, <2>1, RerandomizedTyped
  <2>3. Reshared(Rerandomized(x, g), g) \in Shares
    BY <1>0, <2>1, <2>2, PairsServe, ResharedTyped
  <2>4. /\ Write(x, Vector(view[x].enc, Reshared(Rerandomized(x, g), g)))
        /\ DrawnBy(g, g, NumParties - 1) /\ Call("reshare", <<x>>)
    BY <1>4 DEF Reshare
  <2>5. view[x].enc \in Encodings \cup {"none"} /\ NumParties - 1 \in Nat
    BY DEF Typed, SharingTypeOK, Replicated3PCAssumption
  <2> QED
    BY <1>0, <2>3, <2>4, <2>5, WriteTyped, DrawnByTyped
<1> QED
  BY <1>1, <1>2, <1>3, <1>4 DEF OnOne

(* The primitives that compute a vector from another.                      *)
LEMMA OnTwoTyped ==
    ASSUME Replicated3PCAssumption, WordsDrawn, Typed,
           NEW x \in Registers, NEW z \in Registers, OnTwo(x, z)
    PROVE  Typed'
<1>0. /\ SharingAssumption /\ BitsAssumption /\ MaxPrimitives \in Nat /\ 0 \in Word
      /\ "A" \in Encodings /\ "B" \in Encodings
  BY ThreeParties, TypedFacts DEF SharingAssumption, Encodings
<1>1. \A p \in Parties, i \in Index : sh(x, p, i) \in Word
  BY <1>0, TypedFacts DEF sh
<1>2. CASE NotB(x, z) \/ NotB1(x, z)
  <2> DEFINE s == [p \in Parties |-> [i \in Index |-> Complement(sh(x, p, i))]]
  <2>1. s \in Shares /\ Not1Shares(x) \in Shares
    BY <1>0, <1>1, OnOneWord DEF Shares, Not1Shares
  <2>2. /\ \/ Write(z, Vector("B", s)) /\ Call("not", <<x, z>>)
           \/ Write(z, Vector("B", Not1Shares(x))) /\ Call("not_1", <<x, z>>)
        /\ NothingDrawn
    BY <1>2 DEF NotB, NotB1
  <2> HIDE DEF s
  <2> QED
    BY <1>0, <2>1, <2>2, WriteTyped, NothingDrawnTyped
<1>3. CASE Mask(x, z) \/ LTZ(x, z)
  BY <1>0, <1>3, BitsTyped
<1>4. CASE B2ABit(x, z)
  <2> DEFINE bit(p, i) == LSB(sh(x, p, i))
             w0 == [p \in Parties |->
                  Plus(ZeroShare("A", p, 0), IF p = 0 THEN Xor(bit(p, 0), bit(p, 1)) ELSE 0)]
             w1 == [p \in Parties |->
                  Plus(ZeroShare("A", p, 1), IF p = 1 THEN bit(p, 1) ELSE 0)]
             s0 == WithSuccessor(w0)
             s1 == WithSuccessor(w1)
             difference == Local(Minus, s0, s1)
  <2>1. \A p \in Parties, i \in Index : bit(p, i) \in Word
    BY <1>0, <1>1, OnOneWord
  <2> HIDE DEF bit
  <2>2. \A p \in Parties : Xor(bit(p, 0), bit(p, 1)) \in Word /\ bit(p, 1) \in Word
    BY <1>0, <2>1, ThreeParties, Closed
  <2>3. \A p \in Parties : ZeroShare("A", p, 0) \in Word /\ ZeroShare("A", p, 1) \in Word
    BY ZeroShareIsWord
  <2>4. \A p \in Parties : w0[p] \in Word /\ w1[p] \in Word
    BY <1>0, <2>2, <2>3, Closed
  <2>5. Write(z, Vector("A", Product("A", difference, difference, 2))) /\ Call("b2a_bit", <<x, z>>)
    BY <1>4, Zenon DEF B2ABit, bit
  <2> HIDE DEF w0, w1
  <2>6. s0 \in Shares /\ s1 \in Shares
    BY <2>4, WithSuccessorTyped
  <2> HIDE DEF s0, s1
  <2>7. difference \in Shares
    BY <1>0, <2>6, Closed DEF Local, Shares
  <2> HIDE DEF difference
  <2>8. Product("A", difference, difference, 2) \in Shares
    BY <2>7, ProductTyped
  <2>9. nonce' \in Counts
    BY <1>4, <1>0, TypedFacts DEF B2ABit, Drawn, ZeroDrawn, Counts
  <2> QED
    BY <1>0, <2>5, <2>8, <2>9, WriteTyped
<1> QED
  BY <1>2, <1>3, <1>4 DEF OnTwo

(* The primitives on two vectors, or with two results.                     *)
LEMMA OnThreeTyped ==
    ASSUME Replicated3PCAssumption, WordsDrawn, Typed,
           NEW x \in Registers, NEW y \in Registers, NEW z \in Registers, OnThree(x, y, z)
    PROVE  Typed'
<1>0. /\ SharingAssumption /\ BitsAssumption /\ MaxPrimitives \in Nat /\ 0 \in Word
      /\ "A" \in Encodings /\ "B" \in Encodings
      /\ \A r \in Registers : view[r].sh \in Shares
  BY ThreeParties, TypedFacts DEF SharingAssumption, Encodings
<1>1. ASSUME NEW enc \in Encodings, AddUp(x, y, z, enc) \/ Subtract(x, y, z, enc) PROVE Typed'
  BY <1>0, <1>1, LocalTyped
<1>2. ASSUME NEW enc \in Encodings, Multiply(x, y, z, enc) PROVE Typed'
  <2>1. Product(enc, view[x].sh, view[y].sh, 0) \in Shares
    BY <1>0, ProductTyped
  <2>2. /\ Write(z, Vector(enc, Product(enc, view[x].sh, view[y].sh, 0)))
        /\ Call("multiply", <<x, y, z, enc>>)
    BY <1>2 DEF Multiply
  <2>3. nonce' \in Counts
    BY <1>2, <1>0, TypedFacts DEF Multiply, Drawn, ZeroDrawn, Counts
  <2> QED
    BY <1>0, <2>1, <2>2, <2>3, WriteTyped
<1>3. \A p \in Parties, i \in Index : sh(x, p, i) \in Word
  BY <1>0, TypedFacts DEF sh
<1>4. \A p \in Parties : sh(x, p, 0) \in Word /\ Plus(sh(x, p, 0), sh(x, p, 1)) \in Word
  BY <1>0, <1>3, ThreeParties, Closed
<1>5. CASE DivConst(x, y, z)
  <2> DEFINE part == [p \in Parties |->
                    IF p = 0 THEN Plus(sh(x, 0, 0), sh(x, 0, 1)) ELSE sh(x, p, 0)]
             floor == [p \in Parties |-> Floor(part[p])]
             rest == [p \in Parties |-> Rest(part[p])]
  <2>1. \A p \in Parties : part[p] \in Word
    BY <1>4
  <2>2. /\ WriteBoth(y, Vector("A", Handed(floor, 0, 0)), z, Vector("A", Handed(rest, 1, Divisor)))
        /\ Call("div", <<x, y, z>>) /\ DrawnBy({0, 1}, {0, 1}, 2)
    BY <1>5, Zenon DEF DivConst
  <2> HIDE DEF part
  <2>3. \A p \in Parties : floor[p] \in Word /\ rest[p] \in Word
    BY <2>1, FloorIsWord
  <2>4. Divisor \in Word
    BY ThreeParties, DivisorFacts
  <2> HIDE DEF floor, rest
  <2>5. Handed(floor, 0, 0) \in Shares /\ Handed(rest, 1, Divisor) \in Shares
    BY <1>0, <2>3, <2>4, HandedTyped
  <2>6. nonce' \in Counts
    BY <1>0, <2>2, DrawnByTyped
  <2> QED
    BY <1>0, <2>2, <2>5, <2>6, WriteBothTyped
<1>6. CASE Redistribute(x, y, z)
  <2> DEFINE v == Plus(sh(x, 0, 0), sh(x, 0, 1))
             w == sh(x, 2, 0)
  <2>1. v \in Word /\ w \in Word /\ 0 \in Parties /\ 2 \in Parties
    BY <1>4, ThreeParties
  <2>2. /\ WriteBoth(y, Vector("B", Dealt("B", v, 0, 0)), z, Vector("B", Dealt("B", w, 2, 0)))
        /\ Call("redistribute", <<x, y, z>>)
    BY <1>6 DEF Redistribute
  <2>3. nonce' \in Counts
    BY <1>6, <1>0, TypedFacts DEF Redistribute, Drawn, Counts
  <2> HIDE DEF v, w
  <2>4. Dealt("B", v, 0, 0) \in Shares /\ Dealt("B", w, 2, 0) \in Shares
    BY <1>0, <2>1, DealtTyped
  <2> QED
    BY <1>0, <2>2, <2>3, <2>4, WriteBothTyped
<1> QED
  BY <1>1, <1>2, <1>5, <1>6 DEF OnThree

(* Whatever the parties compute, hold and open are machine words.          *)
THEOREM ThreePartiesTypeCorrect ==
    ASSUME Replicated3PCAssumption, WordsDrawn
    PROVE  Spec => []SharingTypeOK
<1>1. Init => Typed
  BY ThreeParties, StartTyped DEF Init
<1>2. Typed /\ [Next]_sharingVars => Typed'
  <2>1. ASSUME Typed, Next PROVE Typed'
    BY <2>1, OnOneTyped, OnTwoTyped, OnThreeTyped DEF Next
  <2>2. ASSUME Typed, UNCHANGED sharingVars PROVE Typed'
    BY <2>2 DEF Typed, SharingTypeOK, sharingVars
  <2> QED
    BY <2>1, <2>2
<1>3. Typed => SharingTypeOK
  BY DEF Typed
<1> QED
  BY <1>1, <1>2, <1>3, PTL DEF Spec
-----------------------------------------------------------------------------
(* What a vector stands for is the sum of the first shares.                *)
LEMMA ThreeFacts ==
    ASSUME Replicated3PCAssumption
    PROVE  /\ TwoToFour /\ FewParties /\ SharingAssumption /\ BitsAssumption
           /\ "A" \in Encodings /\ "B" \in Encodings
           /\ Parties = 0 .. 2 /\ 0 \in Parties /\ 1 \in Parties /\ 2 \in Parties
           /\ Index = 0 .. 1 /\ 0 \in Index /\ 1 \in Index
           /\ Rank(0, 1) = 1 /\ Rank(1, 1) = 2 /\ Rank(2, 1) = 0
           /\ \A p \in Parties : Rank(p, 0) = p
<1>1. TwoToFour /\ FewParties /\ SharingAssumption /\ BitsAssumption
  BY TwoToFourAreFew DEF Replicated3PCAssumption, TwoToFour, SharingAssumption
<1>2. NumParties = 3 /\ ReplicationNumber = 2
  BY DEF Replicated3PCAssumption
<1>3. Parties = 0 .. 2 /\ Index = 0 .. 1
  BY <1>2 DEF Parties, Index
<1>4. \A p, d : Rank(p, d) = (p + d) % 3
  BY <1>2 DEF Rank
<1>5. Rank(0, 1) = 1 /\ Rank(1, 1) = 2 /\ Rank(2, 1) = 0 /\ \A p \in Parties : Rank(p, 0) = p
  BY <1>3, <1>4
<1> QED
  BY <1>1, <1>3, <1>5 DEF Encodings

(* Three first shares reconstruct to the sum of their numbers.             *)
LEMMA ThreeAddUp ==
    ASSUME Replicated3PCAssumption, NEW enc, NEW i \in Places, NEW s \in Shares,
           NEW a, Num(enc, i, s[0][0], a), NEW b, Num(enc, i, s[1][0], b),
           NEW c, Num(enc, i, s[2][0], c)
    PROVE  Num(enc, i, Reconstruct(enc, s), a + b + c)
<1> DEFINE n == [p \in Parties |-> CASE p = 0 -> a [] p = 1 -> b [] p = 2 -> c]
<1>1. Parties = 0 .. 2
  BY ThreeFacts
<1>2. n[0] = a /\ n[1] = b /\ n[2] = c
  BY <1>1
<1> HIDE DEF n
<1>3. \A p \in Parties : p = 0 \/ p = 1 \/ p = 2
  BY <1>1
<1>4. Firsts(enc, i, s, n)
  BY <1>2, <1>3 DEF Firsts
<1>5. a \in Int /\ b \in Int /\ c \in Int
  BY DEF Num
<1>6. Total(Parties, n) = a + b + c
  <2>1. \A k \in 0 .. 2 : n[k] \in Int
    BY <1>1, <1>2, <1>3, <1>5
  <2>2. Total(0 .. 2, n) = n[0] + n[1] + n[2]
    BY <2>1, TotalOfFew
  <2> QED BY <1>1, <1>2, <2>2
<1> QED
  BY <1>4, <1>6, ThreeFacts, ReconstructNumber

(* The numbers a[0], a[1], a[2] of the shares, of which each party has     *)
(* two.                                                                    *)
Holds(enc, i, s, a) ==
    /\ \A p \in Parties : Num(enc, i, s[p][0], a[p]) /\ Num(enc, i, s[p][1], a[Rank(p, 1)])
    /\ a[0] \in Int /\ a[1] \in Int /\ a[2] \in Int
    /\ Num(enc, i, Reconstruct(enc, s), a[0] + a[1] + a[2])

(* Shares that agree have the numbers of three words.                      *)
LEMMA SharesHold ==
    ASSUME Replicated3PCAssumption, NEW enc, NEW i \in Places, NEW s \in Shares, Agrees(s)
    PROVE  \E a : Holds(enc, i, s, a)
<1>1. PICK a : Firsts(enc, i, s, a)
  BY ThreeFacts, SharesHaveNumbers
<1>2. \A p \in Parties : Num(enc, i, s[p][0], a[p])
  BY <1>1 DEF Firsts
<1>3. \A p \in Parties : s[p][1] = s[Rank(p, 1)][0]
  <2> TAKE p \in Parties
  <2>1. Rank(p, 1) \in Parties /\ ShareOf(p, 1) = ShareOf(Rank(p, 1), 0)
    BY ThreeFacts DEF ShareOf
  <2> QED BY <2>1, ThreeFacts DEF Agrees
<1>4. \A p \in Parties : Num(enc, i, s[p][1], a[Rank(p, 1)])
  <2> TAKE p \in Parties
  <2>1. Rank(p, 1) \in Parties
    BY ThreeFacts
  <2> QED BY <1>2, <1>3, <2>1
<1>5. Num(enc, i, Reconstruct(enc, s), a[0] + a[1] + a[2])
  BY <1>2, ThreeFacts, ThreeAddUp
<1>6. a[0] \in Int /\ a[1] \in Int /\ a[2] \in Int
  BY <1>2, ThreeFacts DEF Num
<1> QED
  BY <1>2, <1>4, <1>5, <1>6 DEF Holds

-----------------------------------------------------------------------------
(* The sharings of zero cancel: each word in them is drawn by two parties, *)
(* whose generators are in step, and added by one, subtracted by the other.*)
ZeroNumbers(enc, i, k, e) ==
    /\ \A p \in Parties : Num(enc, i, ZeroShare(enc, p, k), e[p])
    /\ e[0] \in Int /\ e[1] \in Int /\ e[2] \in Int /\ e[0] + e[1] + e[2] = 0

(* The three shares of zero add up to zero, in both encodings.             *)
LEMMA ZeroSharesCancel ==
    ASSUME Replicated3PCAssumption, WordsDrawn, Typed, GeneratorsInStep,
           NEW enc, NEW i \in Places, NEW k \in Nat
    PROVE  \E e : ZeroNumbers(enc, i, k, e)
<1> DEFINE d == [p \in Parties |-> Draw(p, {p, Rank(p, 1)}, k)]
<1>1. /\ BitsAssumption /\ \A p \in Parties : p = 0 \/ p = 1 \/ p = 2
      /\ 0 \in Parties /\ 1 \in Parties /\ 2 \in Parties /\ SharingAssumption
      /\ Rank(0, 1) = 1 /\ Rank(1, 1) = 2 /\ Rank(2, 1) = 0
  BY ThreeFacts
<1>2. Rank(0, -1) = 2 /\ Rank(1, -1) = 0 /\ Rank(2, -1) = 1
  <2>1. Rank(0, 2) = 2 /\ Rank(1, 2) = 0 /\ Rank(2, 2) = 1
    BY ThreeParties
  <2> QED BY <1>1, <2>1, ThreeParties
<1>3. {0, 1} \in Groups /\ {1, 2} \in Groups /\ {0, 2} \in Groups
  BY ThreeParties DEF Pairs
<1>4. /\ Draw(0, {0, 1}, k) = Draw(1, {1, 0}, k) /\ Draw(1, {1, 2}, k) = Draw(2, {2, 1}, k)
      /\ Draw(2, {2, 0}, k) = Draw(0, {0, 2}, k)
  <2>1. {1, 0} = {0, 1} /\ {2, 1} = {1, 2} /\ {2, 0} = {0, 2}
    OBVIOUS
  <2>2. /\ nonce[0][{0, 1}] = nonce[1][{0, 1}] /\ nonce[1][{1, 2}] = nonce[2][{1, 2}]
        /\ nonce[2][{0, 2}] = nonce[0][{0, 2}]
    BY <1>3 DEF GeneratorsInStep
  <2> QED BY <2>1, <2>2 DEF Draw
<1>5. d[0] = Draw(0, {0, 1}, k) /\ d[1] = Draw(1, {1, 2}, k) /\ d[2] = Draw(2, {2, 0}, k)
  BY <1>1
<1>6. d[0] \in Word /\ d[1] \in Word /\ d[2] \in Word
  <2>1. {2, 0} = {0, 2}
    OBVIOUS
  <2> QED BY <1>1, <1>3, <1>5, <2>1, DrawIsWord
<1>7. /\ ZeroShare(enc, 0, k) = Sub(enc, d[2], d[0])
      /\ ZeroShare(enc, 1, k) = Sub(enc, d[0], d[1])
      /\ ZeroShare(enc, 2, k) = Sub(enc, d[1], d[2])
  BY <1>1, <1>2, <1>4, <1>5 DEF ZeroShare
<1> HIDE DEF d
<1>8. PICK a : Num(enc, i, d[0], a)
  BY <1>1, <1>6, HasNumber
<1>9. PICK b : Num(enc, i, d[1], b)
  BY <1>1, <1>6, HasNumber
<1>10. PICK c : Num(enc, i, d[2], c)
  BY <1>1, <1>6, HasNumber
<1>11. /\ Num(enc, i, ZeroShare(enc, 0, k), c - a)
       /\ Num(enc, i, ZeroShare(enc, 1, k), a - b)
       /\ Num(enc, i, ZeroShare(enc, 2, k), b - c)
  <2>1. Num(enc, i, Sub(enc, d[2], d[0]), c - a)
    BY <1>1, <1>6, <1>8, <1>10, NumbersCompute
  <2>2. Num(enc, i, Sub(enc, d[0], d[1]), a - b)
    BY <1>1, <1>6, <1>8, <1>9, NumbersCompute
  <2>3. Num(enc, i, Sub(enc, d[1], d[2]), b - c)
    BY <1>1, <1>6, <1>9, <1>10, NumbersCompute
  <2> QED BY <1>7, <2>1, <2>2, <2>3
<1> DEFINE e == [p \in Parties |-> IF p = 0 THEN c - a ELSE IF p = 1 THEN a - b ELSE b - c]
<1>12. e[0] = c - a /\ e[1] = a - b /\ e[2] = b - c
  BY <1>1
<1>13. a \in Int /\ b \in Int /\ c \in Int
  BY <1>8, <1>9, <1>10 DEF Num
<1> HIDE DEF e
<1>14. ZeroNumbers(enc, i, k, e)
  BY <1>1, <1>11, <1>12, <1>13 DEF ZeroNumbers
<1> QED
  BY <1>14

(* Three cross terms per party are the nine of the product.                *)
Ints(a) == a[0] \in Int /\ a[1] \in Int /\ a[2] \in Int

(* With the shares of zero, which cancel.                                  *)
LEMMA NineTerms ==
    ASSUME NEW e, Ints(e), e[0] + e[1] + e[2] = 0, NEW a, Ints(a), NEW b, Ints(b)
    PROVE  (e[0] + (a[0] * b[0] + (a[0] * b[1] + a[1] * b[0])))
               + (e[1] + (a[1] * b[1] + (a[1] * b[2] + a[2] * b[1])))
               + (e[2] + (a[2] * b[2] + (a[2] * b[0] + a[0] * b[2])))
               = (a[0] + a[1] + a[2]) * (b[0] + b[1] + b[2])
<1>1. PICK x \in Int, y \in Int, z \in Int, p \in Int, q \in Int, r \in Int,
           u \in Int, v \in Int, w \in Int :
          /\ x = e[0] /\ y = e[1] /\ z = e[2] /\ p = a[0] /\ q = a[1] /\ r = a[2]
          /\ u = b[0] /\ v = b[1] /\ w = b[2]
  BY DEF Ints
<1>2. x + y + z = 0
  BY <1>1
<1>3. (x + (p * u + (p * v + q * u))) + (y + (q * v + (q * w + r * v)))
          + (z + (r * w + (r * u + p * w)))
          = (p + q + r) * (u + v + w)
  BY <1>2
<1> QED
  BY <1>1, <1>3, Zenon

(* The product of shares reconstructs to the product of what they share.   *)
LEMMA ProductReconstructs ==
    ASSUME Replicated3PCAssumption, WordsDrawn, Typed, GeneratorsInStep, NEW enc, NEW k \in Nat,
           NEW s \in Shares, Agrees(s), NEW t \in Shares, Agrees(t)
    PROVE  Reconstruct(enc, Product(enc, s, t, k)) = Mul(enc, Reconstruct(enc, s), Reconstruct(enc, t))
<1> DEFINE z(p) == ZeroShare(enc, p, k)
           m(p, i, j) == Mul(enc, s[p][i], t[p][j])
           u == Product(enc, s, t, k)
           rs == Reconstruct(enc, s)
           rt == Reconstruct(enc, t)
<1>1. /\ BitsAssumption /\ FewParties /\ \A p \in Parties : p = 0 \/ p = 1 \/ p = 2
      /\ 0 \in Parties /\ 1 \in Parties /\ 2 \in Parties /\ 0 \in Index /\ 1 \in Index
      /\ Rank(0, 1) = 1 /\ Rank(1, 1) = 2 /\ Rank(2, 1) = 0
      /\ \A p \in Parties : Rank(p, 0) = p
  BY ThreeFacts
<1>2. u \in Shares
  BY ProductTyped
<1>3. \A p \in Parties : u[p][0] = Add(enc, z(p), Add(enc, m(p, 0, 0), Add(enc, m(p, 0, 1), m(p, 1, 0))))
  BY <1>1 DEF Product, WithSuccessor
<1>4. \A p \in Parties : z(p) \in Word /\ s[p][0] \in Word /\ s[p][1] \in Word
                         /\ t[p][0] \in Word /\ t[p][1] \in Word
  BY <1>1, ZeroShareIsWord DEF Shares
<1>5. rs \in Word /\ rt \in Word /\ Reconstruct(enc, u) \in Word
  BY <1>1, <1>2, ReconstructIsWord
<1>6. ASSUME NEW i \in Places
      PROVE  \E n : Num(enc, i, Reconstruct(enc, u), n) /\ Num(enc, i, Mul(enc, rs, rt), n)
  <2>1. PICK e : ZeroNumbers(enc, i, k, e)
    BY ZeroSharesCancel
  <2>2. PICK a : Holds(enc, i, s, a)
    BY SharesHold
  <2>3. PICK b : Holds(enc, i, t, b)
    BY SharesHold
  <2>4. /\ e[0] \in Int /\ e[1] \in Int /\ e[2] \in Int /\ e[0] + e[1] + e[2] = 0
        /\ a[0] \in Int /\ a[1] \in Int /\ a[2] \in Int
        /\ b[0] \in Int /\ b[1] \in Int /\ b[2] \in Int
    BY <2>1, <2>2, <2>3 DEF ZeroNumbers, Holds
  <2> DEFINE term(p, q) == e[p] + (a[p] * b[p] + (a[p] * b[q] + a[q] * b[p]))
  <2>5. ASSUME NEW p \in Parties
        PROVE  Num(enc, i, u[p][0], term(p, Rank(p, 1)))
    <3> DEFINE q == Rank(p, 1)
    <3>1. /\ Num(enc, i, z(p), e[p]) /\ Num(enc, i, s[p][0], a[p]) /\ Num(enc, i, s[p][1], a[q])
          /\ Num(enc, i, t[p][0], b[p]) /\ Num(enc, i, t[p][1], b[q])
      BY <2>1, <2>2, <2>3 DEF ZeroNumbers, Holds
    <3> HIDE DEF q, z
    <3>2. /\ Num(enc, i, m(p, 0, 0), a[p] * b[p]) /\ m(p, 0, 0) \in Word
          /\ Num(enc, i, m(p, 0, 1), a[p] * b[q]) /\ m(p, 0, 1) \in Word
          /\ Num(enc, i, m(p, 1, 0), a[q] * b[p]) /\ m(p, 1, 0) \in Word
      BY <1>1, <1>4, <3>1, NumbersCompute, SharesClosed
    <3> HIDE DEF m
    <3>3. /\ Num(enc, i, Add(enc, m(p, 0, 1), m(p, 1, 0)), a[p] * b[q] + a[q] * b[p])
          /\ Add(enc, m(p, 0, 1), m(p, 1, 0)) \in Word
      BY <1>1, <3>2, NumbersCompute, SharesClosed
    <3> DEFINE v == Add(enc, m(p, 0, 1), m(p, 1, 0))
               w == Add(enc, m(p, 0, 0), v)
    <3>4. /\ Num(enc, i, w, a[p] * b[p] + (a[p] * b[q] + a[q] * b[p]))
          /\ w \in Word
      <4> HIDE DEF v
      <4>1. Num(enc, i, v, a[p] * b[q] + a[q] * b[p]) /\ v \in Word
        BY <3>3 DEF v
      <4> QED BY <1>1, <3>2, <4>1, NumbersCompute, SharesClosed
    <3> HIDE DEF w
    <3>5. Num(enc, i, Add(enc, z(p), w), e[p] + (a[p] * b[p] + (a[p] * b[q] + a[q] * b[p])))
      <4>1. z(p) \in Word
        BY <1>4 DEF z
      <4> QED BY <1>1, <3>1, <3>4, <4>1, NumbersCompute
    <3>6. u[p][0] = Add(enc, z(p), w)
      BY <1>3 DEF w, v, z, m
    <3> QED BY <3>5, <3>6 DEF q
  <2>6. Num(enc, i, u[0][0], term(0, 1)) /\ Num(enc, i, u[1][0], term(1, 2)) /\ Num(enc, i, u[2][0], term(2, 0))
    BY <1>1, <2>5
  <2> HIDE DEF u
  <2>7. Num(enc, i, Reconstruct(enc, u), term(0, 1) + term(1, 2) + term(2, 0))
    <3> HIDE DEF term
    <3> QED BY <1>2, <2>6, ThreeAddUp
  <2>8. Num(enc, i, Mul(enc, rs, rt), (a[0] + a[1] + a[2]) * (b[0] + b[1] + b[2]))
    <3>1. Num(enc, i, rs, a[0] + a[1] + a[2]) /\ Num(enc, i, rt, b[0] + b[1] + b[2])
      BY <2>2, <2>3 DEF Holds
    <3> HIDE DEF rs, rt
    <3> QED BY <1>1, <1>5, <3>1, NumbersCompute
  <2>9. term(0, 1) + term(1, 2) + term(2, 0) = (a[0] + a[1] + a[2]) * (b[0] + b[1] + b[2])
    <3>1. Ints(e) /\ Ints(a) /\ Ints(b) /\ e[0] + e[1] + e[2] = 0
      BY <2>4 DEF Ints
    <3> QED BY <3>1, NineTerms
  <2> HIDE DEF term
  <2> QED BY <2>7, <2>8, <2>9
<1>7. Mul(enc, rs, rt) \in Word
  <2> HIDE DEF rs, rt
  <2> QED BY <1>1, <1>5, SharesClosed
<1> HIDE DEF u, rs, rt
<1>8. Reconstruct(enc, u) = Mul(enc, rs, rt)
  BY <1>1, <1>5, <1>6, <1>7, SameNumbers
<1> QED
  BY <1>8 DEF u, rs, rt

-----------------------------------------------------------------------------
(* Three complements are as good as one.                                   *)
LEMMA NotReconstructs ==
    ASSUME Replicated3PCAssumption, NEW s \in Shares, Agrees(s), NEW u \in Shares
    PROVE  /\ (\A p \in Parties : u[p][0] = Complement(s[p][0]))
                  => Reconstruct("B", u) = Complement(Reconstruct("B", s))
           /\ (\A p \in Parties : u[p][0] = LogicalNot(LSB(s[p][0])))
                  => Reconstruct("B", u) = 1 - LSB(Reconstruct("B", s))
<1> DEFINE w == Reconstruct("B", s)
           v == Reconstruct("B", u)
<1>1. w \in Word /\ v \in Word /\ BitsAssumption
  BY ThreeFacts, ReconstructIsWord
<1>2. /\ 0 \in Parties /\ 1 \in Parties /\ 2 \in Parties /\ 0 \in Index
      /\ \A p \in Parties : s[p][0] \in Word
  BY ThreeFacts DEF Shares
<1>3. \A a \in Int : (a + 3) % 2 = (a + 1) % 2
  OBVIOUS
<1>4. \A x, a : Num("B", x, v, a + 3) /\ a \in Int => Num("B", x, v, a + 1)
  BY <1>3 DEF Num
<1>5. ASSUME \A p \in Parties : u[p][0] = Complement(s[p][0])
      PROVE  v = Complement(w)
  <2>1. ASSUME NEW i \in Places
        PROVE  \E n : Num("B", i, v, n) /\ Num("B", i, Complement(w), n)
    <3>1. PICK a : Holds("B", i, s, a)
      BY SharesHold
    <3>2. /\ a[0] \in Int /\ a[1] \in Int /\ a[2] \in Int /\ Num("B", i, w, a[0] + a[1] + a[2])
          /\ \A p \in Parties : Num("B", i, s[p][0], a[p])
      BY <3>1 DEF Holds
    <3>3. \A p \in Parties : Num("B", i, u[p][0], a[p] + 1)
      BY <1>1, <1>2, <1>5, <3>2, NumbersOfBits
    <3>4. Num("B", i, v, (a[0] + 1) + (a[1] + 1) + (a[2] + 1))
      BY <1>2, <3>3, ThreeAddUp
    <3>5. (a[0] + 1) + (a[1] + 1) + (a[2] + 1) = (a[0] + a[1] + a[2]) + 3 /\ a[0] + a[1] + a[2] \in Int
      BY <3>2
    <3> HIDE DEF w, v
    <3>6. Num("B", i, v, (a[0] + a[1] + a[2]) + 1)
      BY <1>4, <3>4, <3>5
    <3>7. Num("B", i, Complement(w), (a[0] + a[1] + a[2]) + 1)
      BY <1>1, <3>2, NumbersOfBits
    <3> QED BY <3>6, <3>7
  <2> HIDE DEF w, v
  <2> QED BY <1>1, <2>1, OnOneWord, SameNumbers
<1>6. ASSUME \A p \in Parties : u[p][0] = LogicalNot(LSB(s[p][0]))
      PROVE  v = 1 - LSB(w)
  <2>0. 0 \in Places
    BY <1>1 DEF Places, BitsAssumption
  <2>1. ASSUME NEW i \in Places
        PROVE  \E n : Num("B", i, v, n) /\ Num("B", i, LogicalNot(LSB(w)), n)
    <3>1. PICK a : Holds("B", 0, s, a)
      BY <2>0, SharesHold
    <3>2. /\ a[0] \in Int /\ a[1] \in Int /\ a[2] \in Int /\ Num("B", 0, w, a[0] + a[1] + a[2])
          /\ \A p \in Parties : Num("B", 0, s[p][0], a[p])
      BY <3>1 DEF Holds
    <3> DEFINE b(x) == IF i = 0 THEN x + 1 ELSE 0
    <3>3. \A p \in Parties : Num("B", i, u[p][0], b(a[p]))
      BY <1>1, <1>2, <1>6, <3>2, NumbersOfBits
    <3>4. Num("B", i, v, b(a[0]) + b(a[1]) + b(a[2]))
      <4> HIDE DEF b
      <4> QED BY <1>2, <3>3, ThreeAddUp
    <3> HIDE DEF v, w
    <3>5. Num("B", i, v, b(a[0] + a[1] + a[2]))
      <4>1. CASE i = 0
        <5>1. b(a[0]) + b(a[1]) + b(a[2]) = (a[0] + a[1] + a[2]) + 3 /\ a[0] + a[1] + a[2] \in Int
          BY <3>2, <4>1
        <5> QED BY <1>4, <3>4, <4>1, <5>1
      <4>2. CASE i # 0
        BY <3>4, <4>2
      <4> QED BY <4>1, <4>2
    <3>6. Num("B", i, LogicalNot(LSB(w)), b(a[0] + a[1] + a[2]))
      BY <1>1, <3>2, NumbersOfBits
    <3> QED BY <3>5, <3>6
  <2> HIDE DEF w, v
  <2>2. v = LogicalNot(LSB(w))
    BY <1>1, <2>1, OnOneWord, SameNumbers
  <2>3. LogicalNot(LSB(w)) = 1 - LSB(w)
    BY <1>1, LastBit DEF LogicalNot
  <2> QED BY <2>2, <2>3
<1> QED
  BY <1>5, <1>6 DEF w, v

(* A word that one party adds to a sharing of zero is shared.              *)
LEMMA HiddenReconstructs ==
    ASSUME Replicated3PCAssumption, WordsDrawn, Typed, GeneratorsInStep, NEW b \in Word,
           NEW owner \in Parties, NEW k \in Nat,
           NEW w, \A p \in Parties : w[p] = Plus(ZeroShare("A", p, k), IF p = owner THEN b ELSE 0)
    PROVE  WithSuccessor(w) \in Shares /\ Reconstruct("A", WithSuccessor(w)) = b
<1> DEFINE s == WithSuccessor(w)
           v == Reconstruct("A", s)
           own(p) == IF p = owner THEN b ELSE 0
<1>1. /\ BitsAssumption /\ FewParties /\ 0 \in Word /\ \A p \in Parties : p = 0 \/ p = 1 \/ p = 2
      /\ 0 \in Parties /\ 1 \in Parties /\ 2 \in Parties /\ 0 \in Index
      /\ \A p \in Parties : Rank(p, 0) = p
  BY ThreeFacts, TypedFacts
<1>2. \A p \in Parties : ZeroShare("A", p, k) \in Word
  BY ZeroShareIsWord
<1>3. \A p \in Parties : own(p) \in Word
  BY <1>1
<1>4. \A p \in Parties : w[p] = Plus(ZeroShare("A", p, k), own(p))
  OBVIOUS
<1> HIDE DEF own
<1>5. \A p \in Parties : w[p] \in Word
  BY <1>1, <1>2, <1>3, <1>4, Closed
<1>6. s \in Shares
  BY <1>5, WithSuccessorTyped
<1>7. \A p \in Parties : s[p][0] = w[p]
  BY <1>1 DEF WithSuccessor
<1> HIDE DEF s
<1>8. v \in Word
  BY <1>1, <1>6, ReconstructIsWord
<1> HIDE DEF v
<1>9. ASSUME NEW i \in Places
      PROVE  \E n : Num("A", i, v, n) /\ Num("A", i, b, n)
  <2>1. PICK e : ZeroNumbers("A", i, k, e)
    BY ZeroSharesCancel
  <2>2. PICK x \in Int, y \in Int, z \in Int : x = e[0] /\ y = e[1] /\ z = e[2]
    BY <2>1 DEF ZeroNumbers
  <2>3. x + y + z = 0
    BY <2>1, <2>2 DEF ZeroNumbers
  <2>4. PICK a : Num("A", i, b, a)
    BY <1>1, HasNumber
  <2>5. a \in Int /\ Num("A", i, 0, 0)
    BY <1>1, <2>4, ZeroNumber DEF Num
  <2> DEFINE o(p) == IF p = owner THEN a ELSE 0
  <2>6. ASSUME NEW p \in Parties, NEW n, Num("A", i, ZeroShare("A", p, k), n)
        PROVE  Num("A", i, s[p][0], n + o(p))
    <3>1. Num("A", i, own(p), o(p))
      BY <2>4, <2>5 DEF own
    <3> DEFINE m == o(p)
               u == own(p)
               zero == ZeroShare("A", p, k)
    <3>2. Num("A", i, u, m) /\ u \in Word /\ zero \in Word /\ Num("A", i, zero, n)
      BY <1>2, <1>3, <2>6, <3>1
    <3> HIDE DEF m, u, zero
    <3>3. Num("A", i, Add("A", zero, u), n + m)
      BY <1>1, <3>2, NumbersCompute
    <3>4. Add("A", zero, u) = Plus(zero, u)
      BY DEF Add
    <3>5. s[p][0] = Plus(zero, u)
      BY <1>4, <1>7 DEF zero, u
    <3> QED BY <3>3, <3>4, <3>5 DEF m
  <2>7. /\ Num("A", i, ZeroShare("A", 0, k), x) /\ Num("A", i, ZeroShare("A", 1, k), y)
        /\ Num("A", i, ZeroShare("A", 2, k), z)
    BY <1>1, <2>1, <2>2 DEF ZeroNumbers
  <2>8. Num("A", i, s[0][0], x + o(0)) /\ Num("A", i, s[1][0], y + o(1)) /\ Num("A", i, s[2][0], z + o(2))
    BY <1>1, <2>6, <2>7
  <2>9. Num("A", i, v, (x + o(0)) + (y + o(1)) + (z + o(2)))
    <3> HIDE DEF o
    <3> QED BY <1>6, <2>8, ThreeAddUp DEF v
  <2>10. o(0) + o(1) + o(2) = a /\ o(0) \in Int /\ o(1) \in Int /\ o(2) \in Int
    BY <1>1, <2>5
  <2>11. PICK o0 \in Int, o1 \in Int, o2 \in Int : o0 = o(0) /\ o1 = o(1) /\ o2 = o(2)
    BY <2>10
  <2> HIDE DEF o
  <2>12. (x + o0) + (y + o1) + (z + o2) = a
    BY <2>3, <2>10, <2>11
  <2> QED BY <2>4, <2>9, <2>11, <2>12
<1>10. v = b
  BY <1>1, <1>8, <1>9, SameNumbers
<1> QED
  BY <1>6, <1>10 DEF v, s

(* The square of the difference of two bits is their exclusive or.         *)
LEMMA SquaredDifference ==
    \A b, c \in {0, 1} : (b - c) * (b - c) = (b + c) % 2
OBVIOUS

(* The square of the difference of two dealt bits is the last bit of the   *)
(* operand.                                                                *)
LEMMA BitBecomesNumber ==
    ASSUME Replicated3PCAssumption, WordsDrawn, Typed, GeneratorsInStep,
           NEW x \in Registers, Agrees(view[x].sh),
           NEW w0, \A p \in Parties : w0[p] = Plus(ZeroShare("A", p, 0),
               IF p = 0 THEN Xor(LSB(sh(x, 0, 0)), LSB(sh(x, 0, 1))) ELSE 0),
           NEW w1, \A p \in Parties : w1[p] = Plus(ZeroShare("A", p, 1),
               IF p = 1 THEN LSB(sh(x, 1, 1)) ELSE 0),
           NEW d, d = Local(Minus, WithSuccessor(w0), WithSuccessor(w1))
    PROVE  Reconstruct("A", Product("A", d, d, 2)) = LSB(Reconstruct("B", view[x].sh))
<1> DEFINE s == view[x].sh
           w == Reconstruct("B", s)
           s0 == WithSuccessor(w0)
           s1 == WithSuccessor(w1)
<1>1. /\ s \in Shares /\ BitsAssumption /\ FewParties /\ 0 \in Word
      /\ \A p \in Parties : p = 0 \/ p = 1 \/ p = 2
      /\ 0 \in Parties /\ 1 \in Parties /\ 2 \in Parties /\ 0 \in Index /\ 1 \in Index
      /\ Rank(0, 1) = 1 /\ Rank(1, 1) = 2 /\ Rank(2, 1) = 0
      /\ \A p \in Parties : Rank(p, 0) = p
  BY ThreeFacts, TypedFacts
<1>2. \A p \in Parties : s[p][0] \in Word /\ s[p][1] \in Word
  BY <1>1 DEF Shares
<1>3. w \in Word /\ 0 \in Places
  BY <1>1, ReconstructIsWord DEF Places, BitsAssumption
<1>4. PICK b \in {0, 1}, c \in {0, 1} :
          b = Xor(LSB(s[0][0]), LSB(s[0][1])) /\ c = LSB(s[1][1]) /\ LSB(w) = (b + c) % 2
  <2>1. PICK a : Holds("B", 0, s, a)
    BY <1>1, <1>3, SharesHold
  <2>2. /\ Num("B", 0, w, a[0] + a[1] + a[2])
        /\ Num("B", 0, s[0][0], a[0]) /\ Num("B", 0, s[0][1], a[1]) /\ Num("B", 0, s[1][1], a[2])
    BY <1>1, <2>1 DEF Holds
  <2>3. PICK k \in Int, l \in Int, m \in Int : k = a[0] /\ l = a[1] /\ m = a[2]
    BY <2>2 DEF Num
  <2>4. /\ LSB(s[0][0]) \in {0, 1} /\ LSB(s[0][0]) = k % 2
        /\ LSB(s[0][1]) \in {0, 1} /\ LSB(s[0][1]) = l % 2
        /\ LSB(s[1][1]) \in {0, 1} /\ LSB(s[1][1]) = m % 2
    BY <1>1, <1>2, <2>2, <2>3, LastBit
  <2>5. LSB(w) = (k + l + m) % 2
    <3> HIDE DEF w
    <3> QED BY <1>1, <1>3, <2>2, <2>3, LastBit
  <2>6. PICK e \in {0, 1}, f \in {0, 1}, c \in {0, 1} :
            e = LSB(s[0][0]) /\ f = LSB(s[0][1]) /\ c = LSB(s[1][1])
    BY <2>4
  <2>7. Xor(e, f) = (e + f) % 2
    BY <1>1, XorOfBits
  <2>8. e = k % 2 /\ f = l % 2 /\ c = m % 2
    BY <2>4, <2>6
  <2>9. (e + f) % 2 \in {0, 1} /\ (((e + f) % 2) + c) % 2 = (k + l + m) % 2
    BY <2>8
  <2> HIDE DEF w
  <2> WITNESS (e + f) % 2 \in {0, 1}, c \in {0, 1}
  <2> QED BY <2>5, <2>6, <2>7, <2>9
<1>5. /\ \A p \in Parties : w0[p] = Plus(ZeroShare("A", p, 0), IF p = 0 THEN b ELSE 0)
      /\ \A p \in Parties : w1[p] = Plus(ZeroShare("A", p, 1), IF p = 1 THEN c ELSE 0)
  BY <1>4 DEF sh
<1>6. b \in Word /\ c \in Word
  BY <1>1, Reduces
<1>7. /\ s0 \in Shares /\ Reconstruct("A", s0) = b
      /\ s1 \in Shares /\ Reconstruct("A", s1) = c
  BY <1>1, <1>5, <1>6, HiddenReconstructs
<1>8. d \in Shares /\ Agrees(d)
  <2>1. Agrees(s0) /\ Agrees(s1)
    BY WithSuccessorAgrees
  <2> HIDE DEF s0, s1
  <2>2. d = Local(Minus, s0, s1)
    BY DEF s0, s1
  <2> QED BY <1>1, <1>7, <2>1, <2>2, Closed DEF Local, Agrees, Shares
<1>9. Reconstruct("A", d) = Minus(b, c)
  <2>1. \A p \in Parties : d[p][0] = Minus(s0[p][0], s1[p][0])
    BY <1>1 DEF Local
  <2> HIDE DEF s0, s1
  <2>2. \A p \in Parties : d[p][0] = Sub("A", s0[p][0], s1[p][0])
    BY <2>1 DEF Sub
  <2>3. Reconstruct("A", d) = Sub("A", Reconstruct("A", s0), Reconstruct("A", s1))
    BY <1>1, <1>7, <1>8, <2>2, LocalReconstructs
  <2> QED BY <1>7, <2>3 DEF Sub
<1> DEFINE m == Minus(b, c)
<1>10. Reconstruct("A", Product("A", d, d, 2)) = Times(m, m)
  <2>1. Reconstruct("A", Product("A", d, d, 2)) = Mul("A", Reconstruct("A", d), Reconstruct("A", d))
    BY <1>8, ProductReconstructs
  <2>2. \A u, v : Mul("A", u, v) = Times(u, v)
    BY DEF Mul
  <2> QED BY <1>9, <2>1, <2>2
<1>11. Times(m, m) = LSB(w)
  <2>1. b \in Int /\ c \in Int /\ WordOf(b, b) /\ WordOf(c, c)
    BY <1>1, <1>4, <1>6, WordsOfWords
  <2>2. WordOf(m, b - c)
    BY <1>1, <2>1, WordsOfResults
  <2> HIDE DEF m, w
  <2>3. WordOf(Times(m, m), (b - c) * (b - c))
    BY <1>1, <2>2, WordsOfResults
  <2>4. (b - c) * (b - c) = LSB(w)
    BY <1>4, SquaredDifference
  <2>5. WordOf(LSB(w), LSB(w))
    BY <1>1, <1>3, OnOneWord, WordsOfWords
  <2> QED BY <2>3, <2>4, <2>5, OneWord
<1> QED
  BY <1>10, <1>11

-----------------------------------------------------------------------------
(* What P0 hands P1 it takes off its own share.                            *)
LEMMA HandedReconstructs ==
    ASSUME Replicated3PCAssumption, WordsDrawn, Typed, GeneratorsInStep, NEW k \in Nat,
           NEW f, \A p \in Parties : f[p] \in Word,
           NEW a, WordOf(f[0], a), NEW b, WordOf(f[2], b),
           NEW correction \in Word, NEW c, WordOf(correction, c)
    PROVE  WordOf(Reconstruct("A", Handed(f, k, correction)), a + (b - c))
<1> DEFINE s == Handed(f, k, correction)
           d == Draw(0, {0, 1}, k)
           v == Reconstruct("A", s)
<1>1. /\ BitsAssumption /\ SharingAssumption /\ FewParties
      /\ \A p \in Parties : p = 0 \/ p = 1 \/ p = 2
      /\ 0 \in Parties /\ 1 \in Parties /\ 2 \in Parties /\ 0 \in Index
      /\ \A p \in Parties : Rank(p, 0) = p
  BY ThreeFacts
<1>2. s \in Shares
  BY HandedTyped
<1>3. d \in Word /\ Draw(1, {0, 1}, k) = d
  <2>1. {0, 1} \in Groups
    BY ThreeParties DEF Pairs
  <2>2. nonce[0][{0, 1}] = nonce[1][{0, 1}]
    BY <2>1 DEF GeneratorsInStep
  <2> QED BY <1>1, <2>1, <2>2, DrawIsWord DEF Draw
<1>4. s[0][0] = Minus(f[0], d) /\ s[1][0] = d /\ s[2][0] = Minus(f[2], correction)
  <2> DEFINE w == [p \in Parties |->
                CASE p = 0 -> Minus(f[p], Draw(0, {0, 1}, k))
                  [] p = 1 -> Draw(1, {0, 1}, k)
                  [] p = 2 -> Minus(f[p], correction)]
  <2>1. s = WithSuccessor(w)
    BY Zenon DEF Handed
  <2>2. w[0] = Minus(f[0], d) /\ w[1] = d /\ w[2] = Minus(f[2], correction)
    BY <1>1, <1>3
  <2> HIDE DEF w, s
  <2> QED BY <1>1, <2>1, <2>2 DEF WithSuccessor
<1> HIDE DEF s, d
<1>5. v \in Word
  BY <1>1, <1>2, ReconstructIsWord
<1>6. PICK n \in Int : n = d /\ WordOf(d, n)
  <2>1. d \in Int /\ WordOf(d, d)
    BY <1>1, <1>3, WordsOfWords, Reduces
  <2> QED BY <2>1
<1>7. WordOf(s[0][0], a - n) /\ WordOf(s[1][0], n) /\ WordOf(s[2][0], b - c)
  BY <1>1, <1>4, <1>6, WordsOfResults
<1>8. a \in Int /\ b \in Int /\ c \in Int /\ a - n \in Int /\ b - c \in Int
  BY DEF WordOf
<1>9. 0 \in Places
  BY <1>1 DEF Places, BitsAssumption
<1>10. Num("A", 0, s[0][0], a - n) /\ Num("A", 0, s[1][0], n) /\ Num("A", 0, s[2][0], b - c)
  BY <1>7, <1>8 DEF Num
<1>11. Num("A", 0, v, (a - n) + n + (b - c))
  BY <1>2, <1>9, <1>10, ThreeAddUp
<1>12. (a - n) + n + (b - c) = a + (b - c)
  BY <1>8
<1> QED
  BY <1>11, <1>12 DEF Num, v, s

(* A vector of numbers is the part of P0 and that of P2.                   *)
LEMMA TwoParts ==
    ASSUME Replicated3PCAssumption, NEW s \in Shares, Agrees(s)
    PROVE  Reconstruct("A", s) = Plus(Plus(s[0][0], s[0][1]), s[2][0])
<1> DEFINE v == Reconstruct("A", s)
<1>1. /\ BitsAssumption /\ FewParties /\ 0 \in Parties /\ 1 \in Parties /\ 2 \in Parties
      /\ Rank(0, 1) = 1
  BY ThreeFacts
<1>2. 0 \in Places
  BY <1>1 DEF Places, BitsAssumption
<1>3. PICK a : Holds("A", 0, s, a)
  BY <1>2, SharesHold
<1>4. PICK k \in Int, l \in Int, m \in Int : k = a[0] /\ l = a[1] /\ m = a[2]
  BY <1>3 DEF Holds
<1>5. WordOf(s[0][0], k) /\ WordOf(s[0][1], l) /\ WordOf(s[2][0], m) /\ WordOf(v, k + l + m)
  BY <1>1, <1>3, <1>4 DEF Holds, Num
<1> HIDE DEF v
<1>6. WordOf(Plus(s[0][0], s[0][1]), k + l)
  BY <1>1, <1>5, WordsOfResults
<1>7. WordOf(Plus(Plus(s[0][0], s[0][1]), s[2][0]), (k + l) + m)
  BY <1>1, <1>5, <1>6, WordsOfResults
<1> QED
  BY <1>5, <1>7, OneWord DEF v

(* Quotient and error of the divided shares add up, the error within a     *)
(* divisor.                                                                *)
LEMMA DivConstReconstructs ==
    ASSUME Replicated3PCAssumption, WordsDrawn, Typed, GeneratorsInStep,
           NEW x \in Registers, Agrees(view[x].sh),
           NEW part, \A p \in Parties : part[p] =
               IF p = 0 THEN Plus(sh(x, 0, 0), sh(x, 0, 1)) ELSE sh(x, p, 0),
           NEW floor, \A p \in Parties : floor[p] = Floor(part[p]),
           NEW rest, \A p \in Parties : rest[p] = Rest(part[p]),
           NEW q, q = Reconstruct("A", Handed(floor, 0, 0)),
           NEW r, r = Reconstruct("A", Handed(rest, 1, Divisor))
    PROVE  /\ q \in Word /\ r \in Word
           /\ Signed(r) \in -Divisor .. Divisor
           /\ Plus(Times(Divisor, Plus(q, 1)), r) = Reconstruct("A", view[x].sh)
<1> DEFINE s == view[x].sh
<1>1. /\ BitsAssumption /\ SharingAssumption /\ FewParties /\ s \in Shares /\ 0 \in Word
      /\ 0 \in Parties /\ 1 \in Parties /\ 2 \in Parties /\ 0 \in Index /\ 1 \in Index
  BY ThreeFacts, TypedFacts
<1>2. Divisor \in Word /\ Divisor \in Int /\ WordOf(Divisor, Divisor) /\ WordOf(0, 0)
  <2>1. Divisor \in Word /\ Divisor \in Nat
    BY <1>1, DivisorFacts
  <2> QED BY <1>1, <2>1, WordsOfWords
<1>3. \A p \in Parties : s[p][0] \in Word /\ s[p][1] \in Word
  BY <1>1 DEF Shares
<1>4. \A p \in Parties : part[p] = IF p = 0 THEN Plus(s[0][0], s[0][1]) ELSE s[p][0]
  BY DEF sh
<1>5. \A p \in Parties : part[p] \in Word
  BY <1>1, <1>3, <1>4, Closed
<1>6. part[0] = Plus(s[0][0], s[0][1]) /\ part[2] = s[2][0]
  BY <1>1, <1>4
<1>7. Reconstruct("A", s) = Plus(part[0], part[2])
  BY <1>1, <1>6, TwoParts
<1>8. \A w : FloorOf(w) = Floor(w) /\ RestOf(w) = Rest(w)
  BY DEF FloorOf, Floor, RestOf, Rest
<1>9. PICK f0, r0 : Divided(part[0], f0, r0)
  BY <1>1, <1>5, WordIsDivided
<1>10. PICK f2, r2 : Divided(part[2], f2, r2)
  BY <1>1, <1>5, WordIsDivided
<1>11. /\ f0 \in Int /\ r0 \in Int /\ WordOf(floor[0], f0) /\ WordOf(rest[0], r0)
       /\ WordOf(part[0], Divisor * f0 + r0)
       /\ f2 \in Int /\ r2 \in Int /\ WordOf(floor[2], f2) /\ WordOf(rest[2], r2)
       /\ WordOf(part[2], Divisor * f2 + r2)
  <2>1. Floor(part[0]) = floor[0] /\ Floor(part[2]) = floor[2] /\ Rest(part[0]) = rest[0] /\ Rest(part[2]) = rest[2]
    BY <1>1
  <2>2. r0 \in 0 .. Divisor /\ r2 \in 0 .. Divisor
    BY <1>9, <1>10 DEF Divided
  <2> QED BY <1>2, <1>8, <1>9, <1>10, <2>1, <2>2 DEF Divided
<1>12. \A p \in Parties : floor[p] \in Word /\ rest[p] \in Word
  BY <1>5, FloorIsWord
<1>13. WordOf(q, f0 + (f2 - 0)) /\ WordOf(r, r0 + (r2 - Divisor))
  BY <1>1, <1>2, <1>11, <1>12, HandedReconstructs
<1>14. WordOf(q, f0 + f2) /\ WordOf(r, r0 + r2 - Divisor)
  <2>1. f0 + (f2 - 0) = f0 + f2 /\ r0 + (r2 - Divisor) = r0 + r2 - Divisor
    BY <1>2, <1>11
  <2> QED BY <1>13, <2>1
<1>15. WordOf(Reconstruct("A", s), Divisor * (f0 + f2) + r0 + r2)
  <2>1. WordOf(Plus(part[0], part[2]), (Divisor * f0 + r0) + (Divisor * f2 + r2))
    BY <1>1, <1>11, WordsOfResults
  <2>2. PICK m \in Int, n \in Int : m = Divisor * f0 /\ n = Divisor * f2
    BY <1>2, <1>11
  <2>3. Divisor * (f0 + f2) = m + n
    BY <1>2, <1>11, <2>2
  <2>4. (m + r0) + (n + r2) = (m + n) + r0 + r2
    BY <1>11
  <2>5. (Divisor * f0 + r0) + (Divisor * f2 + r2) = Divisor * (f0 + f2) + r0 + r2
    BY <2>2, <2>3, <2>4
  <2> QED BY <1>7, <2>1, <2>5
<1>16. q \in Word /\ r \in Word
  <2>1. Handed(floor, 0, 0) \in Shares /\ Handed(rest, 1, Divisor) \in Shares
    BY <1>1, <1>2, <1>12, HandedTyped
  <2> QED BY <1>1, <2>1, ReconstructIsWord
<1> HIDE DEF s
<1>17. Signed(r) \in -Divisor .. Divisor /\ Plus(Times(Divisor, Plus(q, 1)), r) = Reconstruct("A", s)
  BY <1>1, <1>9, <1>10, <1>14, <1>15, HalvesDivide
<1> QED
  BY <1>16, <1>17 DEF s

-----------------------------------------------------------------------------
(* A word that is one of the shares, the others being zero, is shared.     *)
LEMMA PublicReconstructs ==
    ASSUME Replicated3PCAssumption, NEW enc, NEW w \in Word, NEW k \in Parties,
           NEW s, s = [p \in Parties |-> [i \in Index |-> IF Rank(p, i) = k THEN w ELSE 0]]
    PROVE  Reconstruct(enc, s) = w
<1>1. /\ BitsAssumption /\ FewParties /\ 0 \in Word /\ \A p \in Parties : p = 0 \/ p = 1 \/ p = 2
      /\ 0 \in Parties /\ 1 \in Parties /\ 2 \in Parties /\ 0 \in Index
      /\ \A p \in Parties : Rank(p, 0) = p
  BY ThreeFacts, Reduces
<1>2. s \in Shares
  BY <1>1 DEF Shares
<1>3. \A p \in Parties : s[p][0] = IF p = k THEN w ELSE 0
  BY <1>1
<1> DEFINE v == Reconstruct(enc, s)
<1>4. v \in Word
  BY <1>1, <1>2, ReconstructIsWord
<1> HIDE DEF v
<1>5. ASSUME NEW i \in Places
      PROVE  \E n : Num(enc, i, v, n) /\ Num(enc, i, w, n)
  <2>1. PICK a : Num(enc, i, w, a)
    BY <1>1, HasNumber
  <2>2. a \in Int /\ Num(enc, i, 0, 0)
    BY <1>1, <2>1, ZeroNumber DEF Num
  <2> DEFINE o(p) == IF p = k THEN a ELSE 0
  <2>3. \A p \in Parties : Num(enc, i, s[p][0], o(p))
    BY <1>3, <2>1, <2>2
  <2>4. Num(enc, i, v, o(0) + o(1) + o(2))
    <3> HIDE DEF o
    <3> QED BY <1>1, <1>2, <2>3, ThreeAddUp DEF v
  <2>5. o(0) + o(1) + o(2) = a
    BY <1>1, <2>2
  <2> QED BY <2>1, <2>4, <2>5
<1>6. v = w
  BY <1>1, <1>4, <1>5, SameNumbers
<1> QED
  BY <1>6 DEF v

(* A party adds the share it lacks to its own two.                         *)
LEMMA OpenedIsWord ==
    ASSUME Replicated3PCAssumption, NEW enc, NEW s \in Shares, Agrees(s), NEW p \in Parties
    PROVE  Add(enc, SumOver(enc, Index, s[p]), s[Rank(p, 1)][1]) = Reconstruct(enc, s)
<1> DEFINE q == Rank(p, 1)
           o == Rank(q, 1)
           own == SumOver(enc, Index, s[p])
           v == Reconstruct(enc, s)
           u == Add(enc, own, s[q][1])
<1>1. /\ BitsAssumption /\ FewParties /\ p \in {0, 1, 2} /\ Index = 0 .. 1 /\ Parties = 0 .. 2
      /\ Rank(0, 1) = 1 /\ Rank(1, 1) = 2 /\ Rank(2, 1) = 0
  BY ThreeFacts
<1>2. q \in Parties /\ o \in Parties
  BY <1>1
<1>3. \A k \in Parties, j \in Index : s[k][j] \in Word
  BY DEF Shares
<1>4. own \in Word
  <2>1. IsFiniteSet(Index)
    <3>1. PICK zero \in Int, one \in Int : zero = 0 /\ one = 1
      OBVIOUS
    <3>2. IsFiniteSet(zero .. one)
      BY FS_Interval
    <3> QED BY <1>1, <3>1, <3>2
  <2> QED BY <1>1, <1>3, <2>1, SumIsWord
<1>5. s[q][1] \in Word
  BY <1>1, <1>2, <1>3
<1>6. v \in Word
  BY <1>1, ReconstructIsWord
<1>7. u \in Word
  <2> HIDE DEF own
  <2> QED BY <1>1, <1>4, <1>5, SharesClosed
<1>8. ASSUME NEW i \in Places
      PROVE  \E n : Num(enc, i, u, n) /\ Num(enc, i, v, n)
  <2>1. PICK a : Holds(enc, i, s, a)
    BY SharesHold
  <2> DEFINE b == [j \in 0 .. 1 |-> IF j = 0 THEN a[p] ELSE a[q]]
  <2>2. /\ Num(enc, i, s[p][0], a[p]) /\ Num(enc, i, s[p][1], a[q]) /\ Num(enc, i, s[q][1], a[o])
        /\ Num(enc, i, v, a[0] + a[1] + a[2])
    BY <1>2, <2>1 DEF Holds
  <2>3. b[0] = a[p] /\ b[1] = a[q] /\ 0 \in 0 .. 1 /\ 1 \in 0 .. 1 /\ \A j \in 0 .. 1 : j = 0 \/ j = 1
    OBVIOUS
  <2> HIDE DEF b, q, o, own, v, u
  <2>4. Nums(enc, i, 0 .. 1, s[p], b)
    BY <1>1, <1>3, <2>2, <2>3 DEF Nums
  <2>5. Num(enc, i, own, Total(0 .. 1, b))
    <3>1. 0 .. 1 \subseteq 0 .. 6
      OBVIOUS
    <3> QED BY <1>1, <2>4, <3>1, SumNumber DEF own
  <2>6. PICK k \in Int, l \in Int, m \in Int : k = a[p] /\ l = a[q] /\ m = a[o]
    BY <2>2 DEF Num
  <2>7. Total(0 .. 1, b) = k + l
    <3>1. \A j \in 0 .. 1 : b[j] \in Int
      BY <2>3, <2>6
    <3>2. Total(0 .. 1, b) = b[0] + b[1]
      BY <3>1, TotalOfFew
    <3> QED BY <2>3, <2>6, <3>2
  <2>8. Num(enc, i, u, (k + l) + m)
    <3>1. Num(enc, i, own, k + l) /\ Num(enc, i, s[q][1], m)
      BY <2>2, <2>5, <2>6, <2>7
    <3> QED BY <1>1, <1>4, <1>5, <3>1, NumbersCompute DEF u
  <2>9. PICK x \in Int, y \in Int, z \in Int : x = a[0] /\ y = a[1] /\ z = a[2]
    BY <2>1 DEF Holds
  <2>10. (k + l) + m = x + y + z
    <3>1. \/ k = x /\ l = y /\ m = z
          \/ k = y /\ l = z /\ m = x
          \/ k = z /\ l = x /\ m = y
      BY <1>1, <2>6, <2>9 DEF q, o
    <3> QED BY <3>1
  <2>11. Num(enc, i, v, x + y + z)
    BY <2>2, <2>9
  <2> QED BY <2>8, <2>10, <2>11
<1> HIDE DEF u, v
<1>9. u = v
  BY <1>1, <1>6, <1>7, <1>8, SameNumbers
<1> QED
  BY <1>9 DEF u, v

-----------------------------------------------------------------------------
(* Every primitive of the three-party protocol is one of the abstract      *)
(* machine.                                                                *)
LEMMA SharedFacts ==
    ASSUME Replicated3PCAssumption, Consistent, Typed
    PROVE  /\ DOMAIN view = Registers
           /\ \A r \in Registers : /\ view[r].sh \in Shares /\ Agrees(view[r].sh)
                                   /\ view[r].enc \in Encodings \cup {"none"}
BY ThreeFacts, TypedFacts DEF Consistent, Replicated, Typed, SharingTypeOK

(* Inputs, openings and resharings are the ideal ones.                     *)
LEMMA OnOneIsIdeal ==
    ASSUME Replicated3PCAssumption, WordsDrawn, Consistent, Typed, NEW x \in Registers, OnOne(x)
    PROVE  Ideal!Next
<1>0. /\ TwoToFour /\ SharingAssumption /\ FewParties /\ DOMAIN view = Registers
      /\ view[x].sh \in Shares /\ Agrees(view[x].sh) /\ view[x].enc \in Encodings \cup {"none"}
      /\ Inputs \subseteq Word /\ Replicated /\ GeneratorsInStep
  BY ThreeFacts, SharedFacts DEF SharingAssumption, Consistent
<1>1. ASSUME NEW enc \in Encodings, NEW w \in Inputs, Ideal!Share(x, enc, w) PROVE Ideal!Next
  <2>1. enc \in Ideal!Encodings /\ w \in Ideal!Word
    BY <1>0, IdealWords
  <2> QED BY <1>1, <2>1 DEF Ideal!Next
<1>2. ASSUME NEW enc \in Encodings, NEW w \in Inputs, NEW p \in Parties, SecretShare(x, enc, w, p, 0)
      PROVE  Ideal!Next
  BY <1>0, <1>1, <1>2, SecretShareIsIdeal
<1>3. ASSUME NEW enc \in Encodings, NEW w \in Inputs, NEW S \in Pairs \cup {{}}, PublicShare(x, enc, w, S)
      PROVE  Ideal!Next
  <2> DEFINE k == CommonShare(S)
             s == [p \in Parties |-> [i \in Index |-> IF Rank(p, i) = k THEN w ELSE 0]]
  <2>1. k \in Parties
    BY ThreeParties DEF CommonShare, Pairs
  <2>2. Call("share", <<x, enc, w>>) /\ Write(x, Vector(enc, s))
    BY <1>3 DEF PublicShare
  <2> HIDE DEF k
  <2>3. s = [p \in Parties |-> [i \in Index |-> IF Rank(p, i) = k THEN w ELSE 0]]
    OBVIOUS
  <2> HIDE DEF s
  <2>4. Reconstruct(enc, s) = w
    BY <1>0, <2>1, <2>3, PublicReconstructs
  <2>5. Ideal!Share(x, enc, w)
    BY <1>0, <2>2, <2>4, ShareIsIdeal
  <2> QED BY <1>1, <2>5
<1>4. CASE OpenShares(x)
  <2> DEFINE enc == view[x].enc
             s == view[x].sh
  <2>1. /\ enc # "none" /\ Call("open", <<x>>) /\ UNCHANGED view
        /\ opened' = [p \in Parties |-> Add(enc, SumOver(enc, Index, s[p]), s[Rank(p, 1)][1])]
    BY <1>4 DEF OpenShares, Open, sh
  <2> HIDE DEF enc, s
  <2>2. \A p \in Parties : opened'[p] = Reconstruct(enc, s)
    <3>1. s \in Shares /\ Agrees(s)
      BY <1>0 DEF s
    <3> QED BY <2>1, <3>1, OpenedIsWord
  <2>3. Ideal!Open(x)
    BY <2>1, <2>2, ThreeFacts, OpenIsIdeal DEF enc, s
  <2> QED BY <2>3 DEF Ideal!Next
<1>5. ASSUME NEW g \in Pairs, Reshare(x, g) PROVE Ideal!Next
  <2> DEFINE t == Reshared(Rerandomized(x, g), g)
  <2>1. g \in Groups /\ g \in SUBSET Parties /\ \A q \in Parties \ g : CanServe(g, q)
    BY ThreeParties, PairsServe DEF Pairs
  <2>2. Rerandomized(x, g) \in Shares
    BY <1>0, <2>1, RerandomizedTyped
  <2>3. t \in Shares
    BY <1>0, <2>1, <2>2, ResharedTyped
  <2>4. \A q \in Parties : \E p \in g, j \in Index :
            ShareOf(p, j) = ShareOf(q, 0) /\ t[q][0] = Rerandomized(x, g)[p][j]
    <3> DEFINE r == Rerandomized(x, g)
    <3> HIDE DEF r
    <3>0. SharingAssumption /\ g \in Groups
      BY <1>0, <2>1
    <3>2. \A q \in Parties \ g : CanServe(g, q)
      BY <2>1
    <3>1. \A q \in Parties, i \in Index : \E p \in g, j \in Index :
              ShareOf(p, j) = ShareOf(q, i) /\ Reshared(r, g)[q][i] = r[p][j]
      BY <3>0, <3>2, ResharedFrom
    <3> QED BY <3>1, ThreeFacts DEF r
  <2>5. Call("reshare", <<x>>) /\ Write(x, Vector(view[x].enc, t)) /\ view[x].enc # "none"
    BY <1>5 DEF Reshare
  <2> HIDE DEF t
  <2>6. Reconstruct(view[x].enc, t) = Reconstruct(view[x].enc, view[x].sh)
    BY <1>0, <2>1, <2>3, <2>4, RerandomizedReconstructs
  <2>7. Ideal!Reshare(x)
    BY <1>0, <2>5, <2>6, ReshareIsIdeal
  <2> QED BY <2>7 DEF Ideal!Next
<1> QED
  BY <1>2, <1>3, <1>4, <1>5 DEF OnOne

(* So are the primitives of one operand,                                   *)
LEMMA OnTwoIsIdeal ==
    ASSUME Replicated3PCAssumption, WordsDrawn, Consistent, Typed,
           NEW x \in Registers, NEW z \in Registers, OnTwo(x, z)
    PROVE  Ideal!Elementwise(x, x, z)
<1> DEFINE s == view[x].sh
<1>0. /\ FewParties /\ BitsAssumption /\ DOMAIN view = Registers /\ s \in Shares /\ Agrees(s)
      /\ GeneratorsInStep /\ "A" \in Encodings /\ "B" \in Encodings /\ 0 \in Index
      /\ \A p \in Parties, i \in Index : s[p][i] \in Word
  BY ThreeFacts, SharedFacts DEF Consistent, Shares
<1>1. CASE NotB(x, z)
  <2> DEFINE u == [p \in Parties |-> [i \in Index |-> Complement(s[p][i])]]
  <2>1. Is(x, "B") /\ Call("not", <<x, z>>) /\ Write(z, Vector("B", u))
    BY <1>1 DEF NotB, sh
  <2>2. u \in Shares
    BY <1>0, OnOneWord DEF Shares
  <2>3. \A p \in Parties : u[p][0] = Complement(s[p][0])
    BY <1>0
  <2> HIDE DEF u, s
  <2>4. Reconstruct("B", u) = Complement(Reconstruct("B", s))
    BY <1>0, <2>2, <2>3, NotReconstructs
  <2> QED BY <1>0, <2>1, <2>4, UnaryIsIdeal DEF s
<1>2. CASE NotB1(x, z)
  <2> DEFINE u == Not1Shares(x)
  <2>1. Is(x, "B") /\ Call("not_1", <<x, z>>) /\ Write(z, Vector("B", u))
    BY <1>2 DEF NotB1
  <2>2. u \in Shares
    BY <1>0, OnOneWord DEF Shares, Not1Shares, sh
  <2>3. \A p \in Parties : u[p][0] = LogicalNot(LSB(s[p][0]))
    BY <1>0 DEF Not1Shares, sh
  <2> HIDE DEF u, s
  <2>4. Reconstruct("B", u) = 1 - LSB(Reconstruct("B", s))
    BY <1>0, <2>2, <2>3, NotReconstructs
  <2> QED BY <1>0, <2>1, <2>4, UnaryIsIdeal DEF s
<1>3. CASE Mask(x, z) \/ LTZ(x, z)
  BY <1>0, <1>3, BitsAreIdeal
<1>4. CASE B2ABit(x, z)
  <2> DEFINE bit(p, i) == LSB(sh(x, p, i))
             w0 == [p \in Parties |->
                  Plus(ZeroShare("A", p, 0), IF p = 0 THEN Xor(bit(p, 0), bit(p, 1)) ELSE 0)]
             w1 == [p \in Parties |->
                  Plus(ZeroShare("A", p, 1), IF p = 1 THEN bit(p, 1) ELSE 0)]
             d == Local(Minus, WithSuccessor(w0), WithSuccessor(w1))
  <2>1. /\ Is(x, "B") /\ Call("b2a_bit", <<x, z>>)
        /\ Write(z, Vector("A", Product("A", d, d, 2)))
    BY <1>4, Zenon DEF B2ABit
  <2>2. \A p \in Parties : w0[p] = Plus(ZeroShare("A", p, 0),
               IF p = 0 THEN Xor(LSB(sh(x, 0, 0)), LSB(sh(x, 0, 1))) ELSE 0)
    OBVIOUS
  <2>3. \A p \in Parties : w1[p] = Plus(ZeroShare("A", p, 1), IF p = 1 THEN LSB(sh(x, 1, 1)) ELSE 0)
    OBVIOUS
  <2> HIDE DEF w0, w1
  <2>4. d = Local(Minus, WithSuccessor(w0), WithSuccessor(w1))
    OBVIOUS
  <2> HIDE DEF d
  <2>5. Reconstruct("A", Product("A", d, d, 2)) = LSB(Reconstruct("B", s))
    BY <1>0, <2>2, <2>3, <2>4, BitBecomesNumber
  <2> DEFINE u == Product("A", d, d, 2)
  <2>6. Write(z, Vector("A", u)) /\ Reconstruct("A", u) = LSB(Reconstruct("B", s))
    BY <2>1, <2>5
  <2> HIDE DEF u, s
  <2> QED BY <1>0, <2>1, <2>6, UnaryIsIdeal DEF s
<1> QED
  BY <1>1, <1>2, <1>3, <1>4 DEF OnTwo

(* those of two operands, divisions and redistributions.                   *)
LEMMA OnThreeIsIdeal ==
    ASSUME Replicated3PCAssumption, WordsDrawn, Consistent, Typed,
           NEW x \in Registers, NEW y \in Registers, NEW z \in Registers, OnThree(x, y, z)
    PROVE  Ideal!Elementwise(x, y, z) \/ Ideal!DivConst(x, y, z) \/ Ideal!Redistribute(x, y, z)
<1> DEFINE s == view[x].sh
<1>0. /\ TwoToFour /\ FewParties /\ BitsAssumption /\ DOMAIN view = Registers
      /\ s \in Shares /\ Agrees(s) /\ view[y].sh \in Shares /\ Agrees(view[y].sh)
      /\ GeneratorsInStep /\ 0 \in Index /\ 1 \in Index /\ 0 \in Parties /\ 2 \in Parties
      /\ \A p \in Parties, i \in Index : s[p][i] \in Word
  BY ThreeFacts, SharedFacts DEF Consistent, Shares
<1>1. ASSUME NEW enc \in Encodings, AddUp(x, y, z, enc) \/ Subtract(x, y, z, enc)
      PROVE  Ideal!Elementwise(x, y, z)
  BY <1>0, <1>1, LocalIsIdeal
<1>2. ASSUME NEW enc \in Encodings, Multiply(x, y, z, enc)
      PROVE  Ideal!Elementwise(x, y, z)
  <2> DEFINE u == Product(enc, view[x].sh, view[y].sh, 0)
             a == Reconstruct(enc, view[x].sh)
             b == Reconstruct(enc, view[y].sh)
  <2>1. /\ Is(x, enc) /\ Is(y, enc) /\ Call("multiply", <<x, y, z, enc>>) /\ Write(z, Vector(enc, u))
    BY <1>2 DEF Multiply
  <2>2. Reconstruct(enc, u) = Mul(enc, a, b)
    BY <1>0, ProductReconstructs
  <2>3. a = Reconstruct(enc, view[x].sh) /\ b = Reconstruct(enc, view[y].sh)
    OBVIOUS
  <2> HIDE DEF u, a, b
  <2> QED BY <1>0, <2>1, <2>2, <2>3, BinaryIsIdeal
<1>3. CASE DivConst(x, y, z)
  <2> DEFINE part == [p \in Parties |->
                    IF p = 0 THEN Plus(sh(x, 0, 0), sh(x, 0, 1)) ELSE sh(x, p, 0)]
             floor == [p \in Parties |-> Floor(part[p])]
             rest == [p \in Parties |-> Rest(part[p])]
             s1 == Handed(floor, 0, 0)
             s2 == Handed(rest, 1, Divisor)
             q == Reconstruct("A", s1)
             r == Reconstruct("A", s2)
  <2>1. /\ WriteBoth(y, Vector("A", s1), z, Vector("A", s2))
        /\ Is(x, "A") /\ Call("div", <<x, y, z>>)
    BY <1>3, Zenon DEF DivConst
  <2>2. \A p \in Parties :
            part[p] = IF p = 0 THEN Plus(sh(x, 0, 0), sh(x, 0, 1)) ELSE sh(x, p, 0)
    OBVIOUS
  <2> HIDE DEF part
  <2>3. (\A p \in Parties : floor[p] = Floor(part[p])) /\ (\A p \in Parties : rest[p] = Rest(part[p]))
    OBVIOUS
  <2> HIDE DEF floor, rest
  <2>4. q = Reconstruct("A", Handed(floor, 0, 0)) /\ r = Reconstruct("A", Handed(rest, 1, Divisor))
    OBVIOUS
  <2>5. q = Reconstruct("A", s1) /\ r = Reconstruct("A", s2)
    OBVIOUS
  <2> HIDE DEF q, r, s1, s2
  <2>6. /\ q \in Word /\ r \in Word
        /\ Signed(r) \in -Divisor .. Divisor
        /\ Plus(Times(Divisor, Plus(q, 1)), r) = Reconstruct("A", view[x].sh)
    BY <1>0, <2>2, <2>3, <2>4, DivConstReconstructs
  <2>7. Ideal!DivConst(x, y, z)
    BY <1>0, <2>1, <2>5, <2>6, DivConstIsIdeal
  <2> QED BY <2>7
<1>4. CASE Redistribute(x, y, z)
  <2> DEFINE v == Plus(sh(x, 0, 0), sh(x, 0, 1))
             w == sh(x, 2, 0)
             s1 == Dealt("B", v, 0, 0)
             s2 == Dealt("B", w, 2, 0)
  <2>1. v \in Word /\ w \in Word /\ v = Plus(s[0][0], s[0][1]) /\ w = s[2][0]
    BY <1>0, Closed DEF sh
  <2>2. /\ WriteBoth(y, Vector("B", s1), z, Vector("B", s2))
        /\ Is(x, "A") /\ Call("redistribute", <<x, y, z>>)
    BY <1>4 DEF Redistribute
  <2> HIDE DEF v, w
  <2>3. Reconstruct("B", s1) = v /\ Reconstruct("B", s2) = w
    BY <1>0, <2>1, DealtReconstructs
  <2>4. Reconstruct("A", s) = Plus(v, w)
    BY <1>0, <2>1, TwoParts
  <2>5. Minus(Plus(v, w), v) = w
    <3>1. WordOf(v, v) /\ WordOf(w, w) /\ v \in Int /\ w \in Int
      BY <1>0, <2>1, WordsOfWords, Reduces
    <3>2. WordOf(Plus(v, w), v + w)
      BY <1>0, <3>1, WordsOfResults
    <3>3. WordOf(Minus(Plus(v, w), v), (v + w) - v)
      BY <1>0, <3>1, <3>2, WordsOfResults
    <3>4. (v + w) - v = w
      BY <3>1
    <3> QED BY <3>1, <3>3, <3>4, OneWord
  <2> HIDE DEF s1, s2
  <2>6. /\ Reconstruct("B", s1) \in Word
        /\ Reconstruct("B", s2) = Minus(Reconstruct("A", view[x].sh), Reconstruct("B", s1))
    BY <2>1, <2>3, <2>4, <2>5
  <2>7. Ideal!Redistribute(x, y, z)
    BY <1>0, <2>2, <2>6, RedistributeIsIdeal
  <2> QED BY <2>7
<1> QED
  BY <1>1, <1>2, <1>3, <1>4 DEF OnThree

(* Between two primitives the copies of every share agree, the generators  *)
(* are in step, and all values are words.                                  *)
Honest == Consistent /\ Typed

(* That makes up the invariants.                                           *)
LEMMA ThreeHonest == Honest => SharingTypeOK /\ SharesAgree /\ GeneratorsInStep
BY ReplicatedIsSharesAgree DEF Honest, Consistent, Typed

(* So it is at the start, which is the start of the abstract machine.      *)
LEMMA ThreeStart ==
    ASSUME Replicated3PCAssumption, Init
    PROVE  Honest /\ Ideal!Init
BY ThreeFacts, StartAgrees, StartTyped, StartIsIdeal DEF Init, Honest, Consistent

(* A step keeps it, and is one of the abstract machine or none.            *)
LEMMA ThreeStep ==
    ASSUME Replicated3PCAssumption, WordsDrawn, Honest, [Next]_sharingVars
    PROVE  Honest' /\ [Ideal!Next]_(Ideal!vars)
<1>1. CASE Next
  <2>0. Consistent /\ Typed
    BY DEF Honest
  <2>1. ASSUME NEW x \in Registers, OnOne(x) PROVE Honest' /\ Ideal!Next
    BY <2>0, <2>1, OnOneKeeps, OnOneTyped, OnOneIsIdeal DEF Honest
  <2>2. ASSUME NEW x \in Registers, NEW z \in Registers, OnTwo(x, z) PROVE Honest' /\ Ideal!Next
    <3>1. Ideal!Elementwise(x, x, z)
      BY <2>0, <2>2, OnTwoIsIdeal
    <3>2. Ideal!Next
      BY <3>1 DEF Ideal!Next
    <3> QED BY <2>0, <2>2, <3>2, OnTwoKeeps, OnTwoTyped DEF Honest
  <2>3. ASSUME NEW x \in Registers, NEW y \in Registers, NEW z \in Registers, OnThree(x, y, z)
        PROVE  Honest' /\ Ideal!Next
    <3>1. Ideal!Elementwise(x, y, z) \/ Ideal!DivConst(x, y, z) \/ Ideal!Redistribute(x, y, z)
      BY <2>0, <2>3, OnThreeIsIdeal
    <3>2. Ideal!Next
      BY <3>1 DEF Ideal!Next
    <3> QED BY <2>0, <2>3, <3>2, OnThreeKeeps, OnThreeTyped DEF Honest
  <2> QED BY <1>1, <2>1, <2>2, <2>3 DEF Next
<1>2. CASE UNCHANGED sharingVars
  <2>1. Honest'
    BY <1>2 DEF Honest, Consistent, Replicated, Agrees, GeneratorsInStep, Typed, SharingTypeOK, sharingVars
  <2>2. UNCHANGED Ideal!vars
    BY <1>2 DEF sharingVars, Ideal!vars, Plaintexts, Plaintext, Agreed
  <2> QED BY <2>1, <2>2
<1> QED
  BY <1>1, <1>2

(* The three-party protocol computes what class Protocol promises: every   *)
(* primitive does on the plaintext words what its name says, whatever the  *)
(* word size, the generators, the divisor and the program.                 *)
THEOREM ThreePartiesImplementIdeal ==
    ASSUME Replicated3PCAssumption, WordsDrawn
    PROVE  Spec => ImplementsIdeal
<1>1. Init => Honest /\ Ideal!Init
  BY ThreeStart
<1>2. Honest /\ [Next]_sharingVars => Honest' /\ [Ideal!Next]_(Ideal!vars)
  BY ThreeStep
<1> QED
  BY <1>1, <1>2, PTL DEF Spec, ImplementsIdeal, Ideal!Spec
=============================================================================
