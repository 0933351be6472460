------------------------ MODULE Fantastic4PC_proofs ------------------------
(***************************************************************************)
(* Proofs about the four-party protocol of Dalskov et al., for words of    *)
(* any width, any generators and divisor, and programs of any length: the  *)
(* three copies of every share stay equal and the generators of every      *)
(* three parties in step, whatever joint messages the parties exchange,    *)
(* and the two digests of every joint message hold the same words; and     *)
(* every primitive computes on the plaintexts what class Protocol says.    *)
(***************************************************************************)
EXTENDS Fantastic4PC, Sharing_proofs, SequenceTheorems

(* Four parties, and the generators of three of them.                      *)
LEMMA Four ==
    ASSUME FourPartiesAssumption
    PROVE  /\ SharingAssumption
           /\ Parties = {0, 1, 2, 3} /\ Index = {0, 1, 2}
           /\ \A p \in Parties : Without(p) \in Groups
           /\ \A p, d : Rank(p, d) = (p + d) % 4
           /\ \A p, i : ShareOf(p, i) = (p + i) % 4
<1>1. NumParties = 4 /\ ReplicationNumber = 3 /\ SharingAssumption
  BY DEF FourPartiesAssumption
<1>2. \A p \in Parties : Without(p) \in Groups
  BY Zenon DEF FourPartiesAssumption
<1> QED
  BY <1>1, <1>2 DEF Parties, Index, Rank, ShareOf

(* Share n of the source is number n - 1 here, and every party but Pn      *)
(* finds it at abs2sh.                                                     *)
LEMMA Abs2sh ==
    ASSUME FourPartiesAssumption, NEW p \in Parties, NEW n \in Parties \ {p}
    PROVE  abs2sh(p, n) \in Index /\ ShareOf(p, abs2sh(p, n)) = (n + 3) % 4
<1>1. p \in 0 .. 3 /\ n \in 0 .. 3 /\ p # n
  BY Four
<1>2. abs2sh(p, n) = IF n > p THEN n - p - 1 ELSE n - p + 3
  BY <1>1, Mod4 DEF abs2sh
<1>3. ShareOf(p, abs2sh(p, n)) = IF n = 0 THEN 3 ELSE n - 1
  BY <1>1, <1>2, Four, Mod4
<1> QED
  BY <1>1, <1>2, <1>3, Four, Mod4

(* No other index of a party holds share n, and Pn does not hold it.       *)
LEMMA OnlyAbs2sh ==
    ASSUME FourPartiesAssumption, NEW p \in Parties, NEW i \in Index, NEW n \in Parties
    PROVE  (p # n /\ i = abs2sh(p, n)) <=> ShareOf(p, i) = (n + 3) % 4
<1>1. p \in 0 .. 3 /\ i \in 0 .. 2 /\ n \in 0 .. 3
  BY Four
<1>2. p # n => abs2sh(p, n) = IF n > p THEN n - p - 1 ELSE n - p + 3
  BY <1>1, Mod4 DEF abs2sh
<1>3. ShareOf(p, i) = IF p + i < 4 THEN p + i ELSE p + i - 4
  BY <1>1, Four, Mod4
<1>4. (n + 3) % 4 = IF n = 0 THEN 3 ELSE n - 1
  BY <1>1, Mod4
<1> QED
  BY <1>1, <1>2, <1>3, <1>4

(* What the source calls share n is the same word for all who hold it.     *)
LEMMA SameShare ==
    ASSUME FourPartiesAssumption, NEW r, Agrees(view[r].sh),
           NEW n \in Parties, NEW p \in Parties \ {n}, NEW q \in Parties \ {n}
    PROVE  sh(r, p, n) = sh(r, q, n)
BY Abs2sh DEF sh, Agrees

(* The share that the source calls n is the first of the party before Pn.  *)
LEMMA FirstOf ==
    ASSUME FourPartiesAssumption, NEW x, Agrees(x), NEW n \in Parties, NEW p \in Parties \ {n}
    PROVE  (n + 3) % 4 \in Parties /\ x[p][abs2sh(p, n)] = x[(n + 3) % 4][0]
<1>1. (n + 3) % 4 \in Parties /\ 0 \in Index /\ ShareOf((n + 3) % 4, 0) = (n + 3) % 4
  <2>1. \A o \in {0, 1, 2, 3} : (o + 3) % 4 \in {0, 1, 2, 3} /\ (((o + 3) % 4) + 0) % 4 = (o + 3) % 4
    OBVIOUS
  <2> QED BY <2>1, Four
<1> QED
  BY <1>1, Abs2sh DEF Agrees

(* An owner deals out one word per share.                                  *)
LEMMA DealtAgrees ==
    ASSUME FourPartiesAssumption, NEW enc, NEW w, NEW owner \in Parties, NEW first \in {0, 1}
    PROVE  Agrees(Dealt(enc, w, owner, first))
<1> DEFINE last == NumParties - 1
           drawn == [k \in 0 .. last - 1 |-> Draw(owner, {owner}, k)]
           share(k) == IF k < last THEN drawn[k]
                       ELSE Sub(enc, w, SumOver(enc, 0 .. last - 1, drawn))
           number(p, i) == (((p - owner) % NumParties) + i + first) % NumParties
<1>1. Dealt(enc, w, owner, first)
        = [p \in Parties |-> [i \in Index |-> share(number(p, i))]]
  BY DEF Dealt
<1>2. \A p, q \in Parties, i, j \in Index :
          ShareOf(p, i) = ShareOf(q, j) => number(p, i) = number(q, j)
  <2>1. \A p \in Parties, i \in Index : number(p, i) = (ShareOf(p, i) - owner + first + 4) % 4
    <3> SUFFICES ASSUME NEW p \in Parties, NEW i \in Index
                 PROVE  number(p, i) = (ShareOf(p, i) - owner + first + 4) % 4
      OBVIOUS
    <3>1. NumParties = 4 /\ p \in 0 .. 3 /\ i \in 0 .. 2 /\ owner \in 0 .. 3
      BY Four DEF FourPartiesAssumption
    <3>2. (p - owner) % 4 = IF p < owner THEN p - owner + 4 ELSE p - owner
      BY <3>1, Mod4
    <3>3. ShareOf(p, i) = IF p + i < 4 THEN p + i ELSE p + i - 4
      BY <3>1, Four, Mod4
    <3> QED
      BY <3>1, <3>2, <3>3
  <2> HIDE DEF number
  <2> QED
    BY <2>1
<1> HIDE DEF share, number
<1> QED
  BY <1>1, <1>2 DEF Agrees

(* Sharing a word that one party owns.                                     *)
LEMMA SecretShareKeeps ==
    ASSUME FourPartiesAssumption, Replicated, GeneratorsInStep,
           NEW x \in Registers, NEW enc, NEW w, NEW p \in Parties, NEW first \in {0, 1},
           SecretShare(x, enc, w, p, first)
    PROVE  Replicated' /\ GeneratorsInStep'
<1>1. Write(x, Vector(enc, Dealt(enc, w, p, first)))
  BY DEF SecretShare
<1>2. DrawnBy({p}, {p}, NumParties - 1)
  BY DEF SecretShare
<1> QED
  BY Four, <1>1, <1>2, DealtAgrees, WriteKeeps, DrawnByInStep

(* Sharing a word that all know.                                           *)
LEMMA PublicShareKeeps ==
    ASSUME FourPartiesAssumption, Replicated, GeneratorsInStep,
           NEW x \in Registers, NEW enc, NEW w, NEW k \in Parties, PublicShare(x, enc, w, k)
    PROVE  Replicated' /\ GeneratorsInStep'
<1> DEFINE s == [p \in Parties |-> [i \in Index |-> IF p # k /\ i = abs2sh(p, k) THEN w ELSE 0]]
<1>1. \A p \in Parties, i \in Index :
          (p # k /\ i = abs2sh(p, k)) <=> ShareOf(p, i) = (k + 3) % 4
  BY OnlyAbs2sh
<1>2. Agrees(s)
  BY <1>1 DEF Agrees
<1>3. Write(x, Vector(enc, s)) /\ NothingDrawn
  BY DEF PublicShare
<1> HIDE DEF s
<1> QED
  BY <1>2, <1>3, WriteKeeps, NothingDrawnInStep

(* The three holders of share 3 negate it, and nobody another one.         *)
LEMMA NotKeeps ==
    ASSUME FourPartiesAssumption, Replicated, GeneratorsInStep,
           NEW x \in Registers, NEW z \in Registers, NotB(x, z) \/ NotB1(x, z)
    PROVE  Replicated' /\ GeneratorsInStep'
<1> DEFINE third(p, i) == <<p, i>> \in {<<2, 0>>, <<1, 1>>, <<0, 2>>}
           s == view[x].sh
           t == Masked(s)
           notS == [p \in Parties |-> [i \in Index |->
                       IF third(p, i) THEN Complement(s[p][i]) ELSE s[p][i]]]
           notT == [p \in Parties |-> [i \in Index |->
                       IF third(p, i) THEN LogicalNot(t[p][i]) ELSE t[p][i]]]
<1>1. \A p \in Parties, i \in Index : third(p, i) <=> ShareOf(p, i) = 2
  BY Four
<1>2. Agrees(s)
  BY DEF Replicated
<1>3. Agrees(t)
  BY <1>2 DEF Agrees, Masked
<1>4. (NotB(x, z) => Write(z, Vector("B", notS))) /\ (NotB1(x, z) => Write(z, Vector("B", notT)))
  BY DEF NotB, NotB1, Not1Shares, Negating
<1>5. NothingDrawn
  BY DEF NotB, NotB1
<1> HIDE DEF third, s, t
<1>6. Agrees(notS) /\ Agrees(notT)
  BY <1>1, <1>2, <1>3 DEF Agrees
<1> HIDE DEF notS, notT
<1> QED
  BY <1>4, <1>5, <1>6, WriteKeeps, NothingDrawnInStep

(* P3 and P2 divide the same word, and so do P1 and P0.                    *)
LEMMA SameParts ==
    ASSUME FourPartiesAssumption, NEW x, Agrees(view[x].sh)
    PROVE  /\ Part(x, 3) = Part(x, 2) /\ Part(x, 1) = Part(x, 0)
           /\ RestOfPart(x, 3) = RestOfPart(x, 2) /\ RestOfPart(x, 1) = RestOfPart(x, 0)
           /\ HalfBit(x, 3) = HalfBit(x, 2) /\ HalfBit(x, 1) = HalfBit(x, 0)
<1>1. /\ sh(x, 3, 0) = sh(x, 2, 0) /\ sh(x, 3, 1) = sh(x, 2, 1)
      /\ sh(x, 1, 2) = sh(x, 0, 2) /\ sh(x, 1, 3) = sh(x, 0, 3)
  BY Four, SameShare
<1>2. Part(x, 3) = Part(x, 2) /\ Part(x, 1) = Part(x, 0)
  BY <1>1 DEF Part
<1> QED
  BY <1>1, <1>2 DEF RestOfPart, HalfBit

(* Three parties that draw the same word of their generator.               *)
LEMMA SameDraw ==
    ASSUME FourPartiesAssumption, GeneratorsInStep, NEW g \in Parties,
           NEW p \in Parties \ {g}, NEW q \in Parties \ {g}, NEW n
    PROVE  Draw(p, Without(g), n) = Draw(q, Without(g), n)
<1>1. nonce[p][Without(g)] = nonce[q][Without(g)]
  BY Four DEF GeneratorsInStep, Without
<1> QED
  BY <1>1 DEF Draw

(* Two parties, the one they send to and the one they leave out.           *)
LEMMA PartiesOfInput ==
    ASSUME FourPartiesAssumption, NEW i \in Parties, NEW j \in Parties \ {i}
    PROVE  LET g == next_party(i, j)
               h == excluded_party(i, j, g)
           IN  /\ g \in Parties /\ h \in Parties
               /\ i # g /\ j # g /\ i # h /\ j # h /\ g # h
               /\ Parties = {i, j, g, h}
<1> DEFINE g == next_party(i, j)
           h == excluded_party(i, j, g)
           a == IF i < j THEN i ELSE j
           b == IF i < j THEN j ELSE i
<1>1. i \in 0 .. 3 /\ j \in 0 .. 3 /\ i # j /\ Parties = 0 .. 3
  BY Four
<1>2. g = IF b = (a + 1) % 4 THEN (b + 1) % 4 ELSE (a + 1) % 4
  BY DEF next_party
<1>3. a \in 0 .. 3 /\ b \in 0 .. 3 /\ a < b /\ {i, j} = {a, b} /\ i + j = a + b
  BY <1>1
<1> HIDE DEF a, b
<1>4. g = IF b = a + 1 THEN (IF b = 3 THEN 0 ELSE b + 1) ELSE a + 1
  BY <1>2, <1>3, Mod4
<1> HIDE DEF g
<1>5. h = 6 - (a + b + g)
  BY <1>1, <1>3 DEF excluded_party
<1> HIDE DEF h
<1>6. g \in 0 .. 3 /\ h \in 0 .. 3 /\ g # a /\ g # b /\ h # a /\ h # b /\ g # h
  BY <1>3, <1>4, <1>5
<1>7. Parties = {a, b, g, h}
  BY <1>1, <1>3, <1>6
<1> QED
  BY <1>1, <1>3, <1>6, <1>7 DEF g, h

(* The sender of a joint message is one of the two.                        *)
LEMMA SenderIs ==
    ASSUME NEW i \in Int, NEW j \in Int, NEW r
    PROVE  Assignment(i, j, r).sender \in {i, j}
BY DEF Assignment, who_hashes

(* The shares of a word that both owners know: the one that three parties  *)
(* draw, and what is left for the next; whichever of the two sends it, the *)
(* receiver has the same. Two shares are zero.                             *)
LEMMA InputShareIs ==
    ASSUME FourPartiesAssumption, GeneratorsInStep,
           NEW i \in Parties, NEW j \in Parties \ {i}, NEW enc, NEW k, NEW w, w[i] = w[j],
           NEW p \in Parties, NEW n \in Index
    PROVE  LET in == Input(enc, i, j, k, w)
           IN  InputShare(in, p, n) = IF ShareOf(p, n) = (in.g + 3) % 4 THEN ShareG(in, i)
                                      ELSE IF ShareOf(p, n) = (in.h + 3) % 4 THEN ShareH(in, i) ELSE 0
<1> DEFINE in == Input(enc, i, j, k, w)
           g == next_party(i, j)
           h == excluded_party(i, j, g)
           drew == ShareG(in, i)
           left == ShareH(in, i)
<1>1. /\ in.enc = enc /\ in.i = i /\ in.j = j /\ in.g = g /\ in.h = h
      /\ in.k = k /\ in.w = w
  BY DEF Input
<1> HIDE DEF in
<1>2. /\ g \in Parties /\ h \in Parties
      /\ i # g /\ j # g /\ i # h /\ j # h /\ g # h
      /\ Parties = {i, j, g, h}
  BY PartiesOfInput
<1> HIDE DEF g, h
<1>3. \A o \in Parties \ {g} : ShareG(in, o) = drew
  BY <1>1, <1>2, SameDraw DEF ShareG
<1>4. ShareH(in, j) = left
  BY <1>1, <1>2, <1>3 DEF ShareH
<1>5. \A o : ShareH(in, Assignment(i, j, o).sender) = left
  <2>1. i \in Int /\ j \in Int
    BY Four
  <2> QED
    BY <1>4, <2>1, SenderIs
<1> HIDE DEF drew, left
<1>6. \A o \in Parties, l \in Index :
          InputShare(in, o, l) = IF ShareOf(o, l) = (g + 3) % 4 THEN drew
                                 ELSE IF ShareOf(o, l) = (h + 3) % 4 THEN left ELSE 0
  <2> SUFFICES ASSUME NEW o \in Parties, NEW l \in Index
               PROVE  InputShare(in, o, l) = IF ShareOf(o, l) = (g + 3) % 4 THEN drew
                                             ELSE IF ShareOf(o, l) = (h + 3) % 4 THEN left ELSE 0
    OBVIOUS
  <2> DEFINE shareG == o # g /\ l = abs2sh(o, g)
             ofOwner == o \in {i, j} /\ l = abs2sh(o, h)
             ofReceiver == o = g /\ l = abs2sh(o, h)
  <2>1. shareG <=> ShareOf(o, l) = (g + 3) % 4
    BY <1>2, OnlyAbs2sh
  <2>2. (ofOwner \/ ofReceiver) <=> ShareOf(o, l) = (h + 3) % 4
    BY <1>2, OnlyAbs2sh
  <2>3. InputShare(in, o, l) = CASE shareG -> ShareG(in, o)
                                 [] ofOwner -> ShareH(in, o)
                                 [] ofReceiver -> ShareH(in, Assignment(i, j, o).sender)
                                 [] OTHER -> 0
    BY <1>1 DEF InputShare
  <2>4. shareG => ~ofOwner /\ ~ofReceiver
    <3>1. (g + 3) % 4 # (h + 3) % 4
      <4>1. \A a \in 0 .. 3 : (a + 3) % 4 = IF a = 0 THEN 3 ELSE a - 1
        OBVIOUS
      <4>2. g \in 0 .. 3 /\ h \in 0 .. 3 /\ g # h
        BY <1>2, Four
      <4> QED BY <4>1, <4>2
    <3> QED
      BY <2>1, <2>2, <3>1
  <2>5. ofOwner => ~ofReceiver
    BY <1>2
  <2>6. shareG => ShareG(in, o) = drew
    BY <1>3
  <2>7. ofOwner => ShareH(in, o) = left
    BY <1>4 DEF left
  <2> HIDE DEF shareG, ofOwner, ofReceiver
  <2> QED
    BY <1>5, <2>1, <2>2, <2>3, <2>4, <2>5, <2>6, <2>7
<1> QED
  BY <1>1, <1>6 DEF in, drew, left

(* So a word arrives as one and the same sharing.                          *)
LEMMA InputAgrees ==
    ASSUME FourPartiesAssumption, GeneratorsInStep,
           NEW i \in Parties, NEW j \in Parties \ {i}, NEW enc, NEW k, NEW w, w[i] = w[j],
           NEW p \in Parties, NEW q \in Parties, NEW n \in Index, NEW m \in Index,
           ShareOf(p, n) = ShareOf(q, m)
    PROVE  InputShare(Input(enc, i, j, k, w), p, n) = InputShare(Input(enc, i, j, k, w), q, m)
<1> DEFINE in == Input(enc, i, j, k, w)
<1>1. \A o \in Parties, l \in Index :
          InputShare(in, o, l) = IF ShareOf(o, l) = (in.g + 3) % 4 THEN ShareG(in, i)
                                 ELSE IF ShareOf(o, l) = (in.h + 3) % 4 THEN ShareH(in, i) ELSE 0
  BY InputShareIs
<1> HIDE DEF in
<1>2. InputShare(in, p, n) = InputShare(in, q, m)
  BY <1>1
<1> QED
  BY <1>2 DEF in

(* The sharing as a vector.                                                *)
LEMMA InpAgrees ==
    ASSUME FourPartiesAssumption, GeneratorsInStep,
           NEW i \in Parties, NEW j \in Parties \ {i}, NEW enc, NEW k, NEW w, w[i] = w[j]
    PROVE  Agrees(inp(Input(enc, i, j, k, w)))
BY InputAgrees DEF Agrees, inp

(* The cross terms of a product are inputs of two different parties, who   *)
(* compute the same word from the two shares that both hold.               *)
LEMMA CrossTermAgrees ==
    ASSUME FourPartiesAssumption, GeneratorsInStep,
           NEW enc, NEW x, NEW y, Agrees(x), Agrees(y), NEW k, NEW n \in 1 .. 6,
           NEW p \in Parties, NEW q \in Parties, NEW a \in Index, NEW b \in Index,
           ShareOf(p, a) = ShareOf(q, b)
    PROVE  InputShare(CrossTerms(enc, x, y, k)[n], p, a)
             = InputShare(CrossTerms(enc, x, y, k)[n], q, b)
<1> DEFINE i == SenderPairs[n][1]
           j == SenderPairs[n][2]
           g == PairReceiver[n]
           h == excluded_party(i, j, g)
           w == Cross(enc, x, y, g, h)
<1>1. CrossTerms(enc, x, y, k)[n] = CrossTerm(enc, x, y, k, n)
  BY DEF CrossTerms
<1>2. CrossTerm(enc, x, y, k, n) = Input(enc, i, j, k[g] + Earlier(n), w)
  BY DEF CrossTerm
<1>3. i \in Parties /\ j \in Parties \ {i} /\ g = next_party(i, j)
  BY Four DEF SenderPairs, PairReceiver
<1> HIDE DEF i, j, g
<1>4. /\ g \in Parties /\ h \in Parties
      /\ i # g /\ j # g /\ i # h /\ j # h /\ g # h
  BY <1>3, PartiesOfInput
<1> HIDE DEF h
<1>5. \A s \in {x, y}, o \in {g, h} : s[i][abs2sh(i, o)] = s[j][abs2sh(j, o)]
  <2> SUFFICES ASSUME NEW s \in {x, y}, NEW o \in {g, h}
               PROVE  s[i][abs2sh(i, o)] = s[j][abs2sh(j, o)]
    OBVIOUS
  <2>1. /\ abs2sh(i, o) \in Index /\ abs2sh(j, o) \in Index
        /\ ShareOf(i, abs2sh(i, o)) = ShareOf(j, abs2sh(j, o))
    BY <1>3, <1>4, Abs2sh
  <2>2. Agrees(s)
    OBVIOUS
  <2> QED
    BY <1>3, <2>1, <2>2 DEF Agrees
<1>6. w[i] = w[j]
  <2>1. i \in Without(g) \ {h} /\ j \in Without(g) \ {h}
    BY <1>3, <1>4 DEF Without
  <2> QED
    BY <1>5, <2>1 DEF Cross
<1> HIDE DEF w
<1> QED
  BY <1>1, <1>2, <1>3, <1>6, InputAgrees

(* So all holders of a share add up the same words.                        *)
LEMMA ProductAgrees ==
    ASSUME FourPartiesAssumption, GeneratorsInStep,
           NEW enc, NEW x, NEW y, Agrees(x), Agrees(y), NEW k
    PROVE  Agrees(Product(enc, x, y, CrossTerms(enc, x, y, k)))
<1> DEFINE terms == CrossTerms(enc, x, y, k)
           added(p, i) == [n \in 1 .. 6 |-> InputShare(terms[n], p, i)]
<1>1. \A p, q \in Parties, i, j \in Index :
          ShareOf(p, i) = ShareOf(q, j) => added(p, i) = added(q, j)
  <2> SUFFICES ASSUME NEW p \in Parties, NEW q \in Parties, NEW i \in Index, NEW j \in Index,
                      ShareOf(p, i) = ShareOf(q, j)
               PROVE  added(p, i) = added(q, j)
    OBVIOUS
  <2>1. \A n \in 1 .. 6 : InputShare(terms[n], p, i) = InputShare(terms[n], q, j)
    BY CrossTermAgrees
  <2> QED
    BY <2>1
<1>2. \A p \in Parties, i \in Index :
          Product(enc, x, y, terms)[p][i]
            = Add(enc, Mul(enc, x[p][i], y[p][i]), SumOver(enc, 1 .. 6, added(p, i)))
  BY DEF Product
<1> HIDE DEF terms, added
<1>3. Agrees(Product(enc, x, y, terms))
  BY <1>1, <1>2 DEF Agrees
<1> QED
  BY <1>3 DEF terms

(* The inputs of a primitive draw from their generators for all three.     *)
LEMMA InputsInStep ==
    ASSUME FourPartiesAssumption, GeneratorsInStep, NEW ins, InputsDone(ins)
    PROVE  GeneratorsInStep'
BY Four DEF InputsDone, InputsDraw, Drawn, GeneratorsInStep, SharingAssumption

(* What holds between two primitives.                                      *)
Consistent == Replicated /\ GeneratorsInStep

(* A resharing: every share that the receiver gets comes from two members  *)
(* of the group, of whom one sends it.                                     *)
LEMMA ReshareKeeps ==
    ASSUME FourPartiesAssumption, Consistent,
           NEW x \in Registers, NEW receiver \in Parties, Reshare(x, receiver)
    PROVE  Consistent'
<1> DEFINE g == Without(receiver)
           mine == Rerandomized(x, g)
           two(s) == g \ {s}
           word(s) == [p \in two(s) |-> mine[p][abs2sh(p, s)]]
           msg(s) == Message(Min(two(s)), Max(two(s)), receiver, word(s))
           received(i) == LET m == msg((receiver + 1 + i) % 4) IN m.word[m.pa.sender]
           t == [mine EXCEPT ![receiver] = [i \in Index |-> received(i)]]
<1>0. /\ SharingAssumption /\ g \in Groups /\ g \subseteq Parties /\ receiver \in 0 .. 3
      /\ Agrees(view[x].sh) /\ GeneratorsInStep
  BY Four DEF Consistent, Replicated, Without
<1>1. \A p, q \in g, i, j \in Index : ShareOf(p, i) = ShareOf(q, j) => mine[p][i] = mine[q][j]
  BY <1>0, RerandomizedAgrees
<1>2. DOMAIN mine = Parties /\ receiver \notin g
  BY DEF Rerandomized, Without
<1>3. Write(x, Vector(view[x].enc, t)) /\ DrawnBy(g, g, NumParties - 1)
  BY DEF Reshare
<1> HIDE DEF mine
<1>4. \A i \in Index : \E p \in g, j \in Index :
          ShareOf(p, j) = ShareOf(receiver, i) /\ received(i) = mine[p][j]
  <2> SUFFICES ASSUME NEW i \in Index
               PROVE  \E p \in g, j \in Index :
                          ShareOf(p, j) = ShareOf(receiver, i) /\ received(i) = mine[p][j]
    OBVIOUS
  <2> DEFINE s == (receiver + 1 + i) % 4
             p == msg(s).pa.sender
  <2>1. /\ s \in Parties \ {receiver}
        /\ (s + 3) % 4 = ShareOf(receiver, i)
    <3>1. i \in 0 .. 2
      BY Four
    <3>2. s = IF receiver + 1 + i < 4 THEN receiver + 1 + i ELSE receiver + i - 3
      BY <1>0, <3>1, Mod4
    <3>3. s \in 0 .. 3 /\ s # receiver
      BY <1>0, <3>1, <3>2
    <3> HIDE DEF s
    <3>4. (s + 3) % 4 = (receiver + i) % 4
      BY <1>0, <3>1, <3>2, Mod4
    <3> QED
      BY <3>3, <3>4, Four
  <2> HIDE DEF s
  <2>2. p \in two(s)
    <3>1. \E a, b \in 0 .. 3 : a < b /\ two(s) = {a, b}
      BY <1>0, <2>1, Four DEF Without
    <3>2. Min(two(s)) \in two(s) /\ Max(two(s)) \in two(s)
      BY <3>1 DEF Min, Max
    <3>3. two(s) \subseteq Int
      BY <3>1
    <3> HIDE DEF two
    <3> QED
      BY <3>2, <3>3, SenderIs DEF Message
  <2>3. received(i) = mine[p][abs2sh(p, s)]
    BY <2>2 DEF Message, s
  <2> HIDE DEF p
  <2>4. p \in g /\ p \in Parties /\ p # s
    BY <2>2, <1>0
  <2>5. abs2sh(p, s) \in Index /\ ShareOf(p, abs2sh(p, s)) = ShareOf(receiver, i)
    BY <2>1, <2>4, Abs2sh
  <2> QED
    BY <2>3, <2>4, <2>5
<1> HIDE DEF received
<1>5. \A q \in Parties, i \in Index : \E p \in g, j \in Index :
          ShareOf(p, j) = ShareOf(q, i) /\ t[q][i] = mine[p][j]
  BY <1>2, <1>4 DEF Without
<1> HIDE DEF t
<1>6. Agrees(t)
  <2> SUFFICES ASSUME NEW p \in Parties, NEW q \in Parties, NEW i \in Index, NEW j \in Index,
                      ShareOf(p, i) = ShareOf(q, j)
               PROVE  t[p][i] = t[q][j]
    BY DEF Agrees
  <2>1. PICK o \in g, k \in Index : ShareOf(o, k) = ShareOf(p, i) /\ t[p][i] = mine[o][k]
    BY <1>5
  <2>2. PICK u \in g, l \in Index : ShareOf(u, l) = ShareOf(q, j) /\ t[q][j] = mine[u][l]
    BY <1>5
  <2> QED
    BY <1>1, <2>1, <2>2
<1> QED
  BY <1>0, <1>3, <1>6, WriteKeeps, DrawnByInStep DEF Consistent

(* The primitives on one vector.                                           *)
LEMMA OnOneKeeps ==
    ASSUME FourPartiesAssumption, Consistent, NEW x \in Registers, OnOne(x)
    PROVE  Consistent'
<1>1. ASSUME NEW enc, NEW w, NEW p \in Parties, SecretShare(x, enc, w, p, 1)
      PROVE  Consistent'
  BY <1>1, SecretShareKeeps DEF Consistent
<1>2. ASSUME NEW enc, NEW w, NEW p \in Parties, PublicShare(x, enc, w, p)
      PROVE  Consistent'
  BY <1>2, PublicShareKeeps DEF Consistent
<1>3. CASE OpenShares(x)
  <2>1. UNCHANGED <<view, nonce>>
    BY <1>3 DEF OpenShares, Open, NothingDrawn
  <2> QED
    BY <2>1 DEF Consistent, Replicated, Agrees, GeneratorsInStep
<1>4. ASSUME NEW p \in Parties, Reshare(x, p) PROVE Consistent'
  BY <1>4, ReshareKeeps
<1> QED
  BY <1>1, <1>2, <1>3, <1>4 DEF OnOne

(* The primitives that compute a vector from another.                      *)
LEMMA OnTwoKeeps ==
    ASSUME FourPartiesAssumption, Consistent,
           NEW x \in Registers, NEW z \in Registers, OnTwo(x, z)
    PROVE  Consistent'
<1> USE DEF Consistent
<1>1. CASE NotB(x, z) \/ NotB1(x, z)
  BY <1>1, NotKeeps
<1>2. CASE Mask(x, z) \/ LTZ(x, z)
  BY <1>2, BitsKeep
<1>3. CASE B2ABit(x, z)
  <2> DEFINE half == [p \in Parties |-> HalfBit(x, p)]
             share0 == Input("A", 1, 0, 0, half)
             share1 == Input("A", 3, 2, 0, half)
             difference == Local(Minus, inp(share0), inp(share1))
             k == [g \in Parties |-> IF g \in {share0.g, share1.g} THEN 1 ELSE 0]
             terms == CrossTerms("A", difference, difference, k)
  <2>1. half[3] = half[2] /\ half[1] = half[0]
    BY Four, SameParts DEF Replicated
  <2>2. Agrees(inp(share0)) /\ Agrees(inp(share1))
    <3>1. 1 \in Parties /\ 0 \in Parties \ {1} /\ 3 \in Parties /\ 2 \in Parties \ {3}
      BY Four
    <3> HIDE DEF half
    <3>2. Agrees(inp(share0))
      BY <2>1, <3>1, InpAgrees
    <3>3. Agrees(inp(share1))
      BY <2>1, <3>1, InpAgrees
    <3> QED
      BY <3>2, <3>3
  <2>3. Agrees(difference)
    <3> HIDE DEF share0, share1
    <3> QED
      BY <2>2 DEF Local, Agrees
  <2>4. /\ Write(z, Vector("A", Product("A", difference, difference, terms)))
        /\ InputsDone(<<share0, share1>> \o terms)
    BY <1>3, Zenon DEF B2ABit
  <2> HIDE DEF share0, share1, difference, k
  <2>5. Agrees(Product("A", difference, difference, terms))
    BY <2>3, ProductAgrees
  <2> HIDE DEF terms
  <2> QED
    BY <2>4, <2>5, WriteKeeps, InputsInStep
<1> QED
  BY <1>1, <1>2, <1>3 DEF OnTwo

(* The primitives on two vectors, or with two results.                     *)
LEMMA OnThreeKeeps ==
    ASSUME FourPartiesAssumption, Consistent,
           NEW x \in Registers, NEW y \in Registers, NEW z \in Registers, OnThree(x, y, z)
    PROVE  Consistent'
<1> USE DEF Consistent
<1>1. ASSUME NEW enc, AddUp(x, y, z, enc) \/ Subtract(x, y, z, enc) PROVE Consistent'
  BY <1>1, AddUpKeeps, SubtractKeeps
<1>2. ASSUME NEW enc, Multiply(x, y, z, enc) PROVE Consistent'
  <2> DEFINE terms == CrossTerms(enc, view[x].sh, view[y].sh, NoWords)
  <2>1. /\ Write(z, Vector(enc, Product(enc, view[x].sh, view[y].sh, terms)))
        /\ InputsDone(terms)
    BY <1>2 DEF Multiply
  <2>2. Agrees(Product(enc, view[x].sh, view[y].sh, terms))
    BY ProductAgrees DEF Replicated
  <2> HIDE DEF terms
  <2> QED
    BY <2>1, <2>2, WriteKeeps, InputsInStep
<1>3. CASE DivConst(x, y, z)
  <2> DEFINE rest == [p \in Parties |-> RestOfPart(x, p)]
             floor == [p \in Parties |-> Floor(Part(x, p))]
             err1 == Input("A", 3, 2, 0, rest)
             err2 == Input("A", 1, 0, 0, rest)
             res1 == Input("A", 3, 2, 1, floor)
             res2 == Input("A", 1, 0, 1, floor)
             quotient == Local(Plus, inp(res1), inp(res2))
             error == Local(Plus, inp(err1), inp(err2))
  <2>1. /\ rest[3] = rest[2] /\ rest[1] = rest[0]
        /\ floor[3] = floor[2] /\ floor[1] = floor[0]
    BY Four, SameParts DEF Replicated
  <2>2. Agrees(inp(err1)) /\ Agrees(inp(err2)) /\ Agrees(inp(res1)) /\ Agrees(inp(res2))
    <3>1. 1 \in Parties /\ 0 \in Parties \ {1} /\ 3 \in Parties /\ 2 \in Parties \ {3}
      BY Four
    <3> HIDE DEF rest, floor
    <3>2. Agrees(inp(err1)) /\ Agrees(inp(res1))
      BY <2>1, <3>1, InpAgrees
    <3>3. Agrees(inp(err2)) /\ Agrees(inp(res2))
      BY <2>1, <3>1, InpAgrees
    <3> QED
      BY <3>2, <3>3
  <2>3. Agrees(quotient) /\ Agrees(error)
    <3> HIDE DEF err1, err2, res1, res2
    <3> QED
      BY <2>2 DEF Local, Agrees
  <2>4. /\ WriteBoth(y, Vector("A", quotient), z, Vector("A", error))
        /\ InputsDone(<<err1, err2, res1, res2>>)
    BY <1>3, Zenon DEF DivConst
  <2> HIDE DEF err1, err2, res1, res2, quotient, error
  <2> QED
    BY <2>3, <2>4, WriteBothKeeps, InputsInStep
<1>4. CASE Redistribute(x, y, z)
  <2> DEFINE low == [p \in {0, 3} |-> Plus(sh(x, p, 1), sh(x, p, 2))]
             high == [p \in {1, 2} |-> Plus(sh(x, p, 3), sh(x, p, 0))]
             first == Input("B", 0, 3, 0, low)
             second == Input("B", 2, 1, 0, high)
  <2>1. low[0] = low[3] /\ high[1] = high[2]
    <3>1. /\ sh(x, 0, 1) = sh(x, 3, 1) /\ sh(x, 0, 2) = sh(x, 3, 2)
          /\ sh(x, 1, 3) = sh(x, 2, 3) /\ sh(x, 1, 0) = sh(x, 2, 0)
      BY Four, SameShare DEF Replicated
    <3> QED
      BY <3>1
  <2>2. Agrees(inp(first)) /\ Agrees(inp(second))
    <3>1. 0 \in Parties /\ 3 \in Parties \ {0} /\ 2 \in Parties /\ 1 \in Parties \ {2}
      BY Four
    <3> HIDE DEF low, high
    <3>2. Agrees(inp(first))
      BY <2>1, <3>1, InpAgrees
    <3>3. Agrees(inp(second))
      BY <2>1, <3>1, InpAgrees
    <3> QED
      BY <3>2, <3>3
  <2>3. /\ WriteBoth(y, Vector("B", inp(first)), z, Vector("B", inp(second)))
        /\ InputsDone(<<first, second>>)
    BY <1>4, Zenon DEF Redistribute
  <2> HIDE DEF first, second
  <2> QED
    BY <2>2, <2>3, WriteBothKeeps, InputsInStep
<1> QED
  BY <1>1, <1>2, <1>3, <1>4 DEF OnThree

(* Every primitive of the four parties leaves the copies of every share    *)
(* equal and the common generators in step, for every word size.           *)
THEOREM FourPartiesConsistent ==
    ASSUME Fantastic4PCAssumption
    PROVE  Spec => []Consistent
<1>0. FourPartiesAssumption
  BY DEF Fantastic4PCAssumption
<1>1. Init => Consistent
  BY <1>0, Four, StartAgrees DEF Init, Consistent
<1>2. Consistent /\ [Next]_vars => Consistent'
  <2>1. ASSUME Consistent, MaliciousCheck PROVE Consistent'
    BY <2>1 DEF MaliciousCheck, Consistent, Replicated, Agrees, GeneratorsInStep
  <2>2. ASSUME Consistent, Next PROVE Consistent'
    BY <1>0, <2>1, <2>2, OnOneKeeps, OnTwoKeeps, OnThreeKeeps DEF Next
  <2>3. ASSUME Consistent, UNCHANGED vars PROVE Consistent'
    BY <2>3 DEF Consistent, Replicated, Agrees, GeneratorsInStep, vars, sharingVars
  <2> QED
    BY <2>2, <2>3
<1> QED
  BY <1>1, <1>2, PTL DEF Spec

(* The three copies of a share are equal in every state: joint messages    *)
(* carry what both of their owners computed, and every word that three     *)
(* parties draw is the same for the three.                                 *)
THEOREM FourPartiesSharesAgree ==
    ASSUME Fantastic4PCAssumption
    PROVE  Spec => []SharesAgree
<1>1. Consistent => SharesAgree
  BY ReplicatedIsSharesAgree DEF Consistent
<1> QED
  BY <1>1, FourPartiesConsistent, PTL

(* Three parties have drawn as many words from the generator they share,   *)
(* each also for the inputs that it takes no part in.                      *)
THEOREM FourPartiesGeneratorsInStep ==
    ASSUME Fantastic4PCAssumption
    PROVE  Spec => []GeneratorsInStep
<1>1. Consistent => GeneratorsInStep
  BY DEF Consistent
<1> QED
  BY <1>1, FourPartiesConsistent, PTL

-----------------------------------------------------------------------------
(* What the parties hold are words, and what three draw of their generator.*)
LEMMA FourTyped ==
    ASSUME FourPartiesAssumption, WordsDrawn, Typed
    PROVE  /\ SharingAssumption /\ BitsAssumption /\ MaxPrimitives \in Nat /\ 0 \in Word
           /\ "A" \in Encodings /\ "B" \in Encodings /\ Divisor \in Word /\ Divisor > 0
           /\ \A r \in Registers : view[r].sh \in Shares
           /\ \A g \in Parties : \A p \in Parties, n \in Nat : Draw(p, Without(g), n) \in Word
<1>1. SharingAssumption /\ BitsAssumption /\ MaxPrimitives \in Nat /\ 0 \in Word
  BY Four, TypedFacts DEF SharingAssumption
<1>2. Divisor \in Word /\ Divisor > 0
  BY <1>1, DivisorFacts
<1>3. \A g \in Parties : \A p \in Parties, n \in Nat : Draw(p, Without(g), n) \in Word
  BY Four, DrawIsWord
<1>4. \A r \in Registers : view[r].sh \in Shares
  BY <1>1, TypedFacts
<1> QED
  BY <1>1, <1>2, <1>3, <1>4 DEF Encodings

(* Sharing a word that all know keeps the types.                           *)
LEMMA PublicShareTyped ==
    ASSUME FourPartiesAssumption, WordsDrawn, Typed, NEW x \in Registers, NEW enc \in Encodings,
           NEW w \in Inputs, NEW k, PublicShare(x, enc, w, k)
    PROVE  Typed'
<1> DEFINE s == [p \in Parties |-> [i \in Index |-> IF p # k /\ i = abs2sh(p, k) THEN w ELSE 0]]
<1>1. w \in Word
  BY Four DEF SharingAssumption
<1>2. s \in Shares
  BY <1>1, FourTyped DEF Shares
<1>3. Write(x, Vector(enc, s)) /\ NothingDrawn /\ Call("share", <<x, enc, w>>)
  BY DEF PublicShare
<1> HIDE DEF s
<1> QED
  BY <1>2, <1>3, FourTyped, WriteTyped, NothingDrawnTyped

(* So does a negation.                                                     *)
LEMMA NotTyped ==
    ASSUME FourPartiesAssumption, WordsDrawn, Typed, NEW x \in Registers, NEW z \in Registers,
           NotB(x, z) \/ NotB1(x, z)
    PROVE  Typed'
<1> DEFINE s == view[x].sh
           t == Masked(s)
           third(p, i) == <<p, i>> \in {<<2, 0>>, <<1, 1>>, <<0, 2>>}
           notS == [p \in Parties |-> [i \in Index |->
                       IF third(p, i) THEN Complement(s[p][i]) ELSE s[p][i]]]
           notT == [p \in Parties |-> [i \in Index |->
                       IF third(p, i) THEN LogicalNot(t[p][i]) ELSE t[p][i]]]
<1>1. s \in Shares /\ t \in Shares
  BY FourTyped, MaskedTyped
<1>2. /\ \/ Write(z, Vector("B", notS)) /\ Call("not", <<x, z>>)
         \/ Write(z, Vector("B", notT)) /\ Call("not_1", <<x, z>>)
      /\ NothingDrawn
  BY DEF NotB, NotB1, Not1Shares, Negating
<1> HIDE DEF third, s, t
<1>3. notS \in Shares /\ notT \in Shares
  BY <1>1, FourTyped, OnOneWord DEF Shares
<1> HIDE DEF notS, notT
<1> QED
  BY <1>2, <1>3, FourTyped, WriteTyped, NothingDrawnTyped

(* The parts that a division and a conversion compute are words.           *)
LEMMA PartsTyped ==
    ASSUME FourPartiesAssumption, WordsDrawn, Typed, NEW x \in Registers, NEW p \in Parties
    PROVE  /\ \A n \in Parties : sh(x, p, n) \in Word
           /\ Floor(Part(x, p)) \in Word /\ RestOfPart(x, p) \in Word /\ HalfBit(x, p) \in Word
<1>1. \A n \in Parties : sh(x, p, n) \in Word
  <2> SUFFICES ASSUME NEW n \in Parties
               PROVE  sh(x, p, n) \in Word
    OBVIOUS
  <2>1. abs2sh(p, n) \in Index
    <3>1. CASE p = n
      BY <3>1, Four DEF abs2sh
    <3>2. CASE p # n
      BY <3>2, Abs2sh
    <3> QED BY <3>1, <3>2
  <2> QED BY <2>1, FourTyped, TypedFacts DEF sh
<1>2. \A n \in {0, 1, 2, 3} : sh(x, p, n) \in Word
  BY <1>1, Four
<1>3. BitsAssumption /\ Divisor \in Word /\ Divisor > 0
  BY FourTyped
<1>4. Part(x, p) \in Word
  BY <1>2, <1>3, Closed DEF Part
<1>5. \A w \in Word : Floor(w) \in Word /\ Rest(w) \in Word
  <2> SUFFICES ASSUME NEW w \in Word
               PROVE  Floor(w) \in Word /\ Rest(w) \in Word
    OBVIOUS
  <2>1. Sign(w) \in Word /\ Quotient(w, Divisor) \in Word /\ Remainder(w, Divisor) \in Word
    BY <1>3, OnOneWord, DivisionClosed
  <2> QED BY <1>3, <2>1, Closed DEF Floor, Rest
<1>6. RestOfPart(x, p) \in Word
  BY <1>3, <1>4, <1>5, Closed DEF RestOfPart
<1>7. \A n \in {0, 1, 2, 3} : LSB(sh(x, p, n)) \in Word
  BY <1>2, <1>3, OnOneWord
<1>8. HalfBit(x, p) \in Word
  BY <1>3, <1>7, Closed DEF HalfBit
<1> QED
  BY <1>1, <1>4, <1>5, <1>6, <1>8

-----------------------------------------------------------------------------
(* A vector of words of which every copy is the same.                      *)
Fine(s) == Agrees(s) /\ s \in Shares

(* Three different parties can be given the parts of a joint message.      *)
LEMMA AssignmentsAre ==
    ASSUME FourPartiesAssumption, NEW i \in Parties, NEW j \in Parties, NEW r \in Parties,
           i # j, i # r, j # r
    PROVE  /\ Assignment(i, j, r) \in Assignments
           /\ {Assignment(i, j, r).hasher, Assignment(i, j, r).sender} = {i, j}
           /\ Assignment(i, j, r).receiver = r
<1>1. Cardinality({i, j, r}) = 3
  <2>1. IsFiniteSet({}) /\ Cardinality({}) = 0
    BY FS_EmptySet
  <2>2. IsFiniteSet({i}) /\ Cardinality({i}) = 1
    BY FS_Singleton
  <2>3. {i} \cup {j} = {i, j} /\ {i, j} \cup {r} = {i, j, r}
    OBVIOUS
  <2>4. IsFiniteSet({i, j}) /\ Cardinality({i, j}) = 2
    BY <2>2, <2>3, FS_AddElement
  <2> DEFINE T == {i, j}
  <2>5. IsFiniteSet(T) /\ Cardinality(T) = 2 /\ r \notin T /\ {i, j, r} = T \cup {r}
    BY <2>3, <2>4
  <2> HIDE DEF T
  <2>6. Cardinality(T \cup {r}) = Cardinality(T) + 1
    BY <2>5, FS_AddElement
  <2> QED BY <2>5, <2>6
<1>2. <<i, j, r>> \in {u \in Parties \X Parties \X Parties : Cardinality({u[1], u[2], u[3]}) = 3}
  BY <1>1
<1>3. Assignment(i, j, r) \in Assignments
  BY <1>2 DEF Assignments
<1>4. i \in Int /\ j \in Int
  BY Four
<1> QED
  BY <1>3, <1>4 DEF Assignment, who_hashes

(* The hasher does not receive.                                            *)
LEMMA HasherReceiver ==
    ASSUME FourPartiesAssumption, NEW pa \in Assignments
    PROVE  pa.hasher # pa.receiver
<1>1. PICK u \in Parties \X Parties \X Parties :
          Cardinality({u[1], u[2], u[3]}) = 3 /\ pa = Assignment(u[1], u[2], u[3])
  BY DEF Assignments
<1> DEFINE a == u[1]
           b == u[2]
           c == u[3]
<1>2. \A v, w : IsFiniteSet({v, w}) /\ Cardinality({v, w}) <= 2
  <2> SUFFICES ASSUME NEW v, NEW w
               PROVE  IsFiniteSet({v, w}) /\ Cardinality({v, w}) <= 2
    OBVIOUS
  <2>1. IsFiniteSet({v}) /\ Cardinality({v}) = 1
    BY FS_Singleton
  <2>2. {v} \cup {w} = {v, w}
    OBVIOUS
  <2>3. CASE w \in {v}
    <3>1. {v, w} = {v}
      BY <2>3
    <3> QED BY <2>1, <3>1
  <2>4. CASE w \notin {v}
    <3>1. IsFiniteSet({v, w}) /\ Cardinality({v, w}) = 2
      BY <2>1, <2>2, <2>4, FS_AddElement
    <3> QED BY <3>1
  <2> QED BY <2>3, <2>4
<1>3. Cardinality({a, b, c}) = 3
  BY <1>1
<1> HIDE DEF a, b, c
<1>4. a # c /\ b # c
  <2>1. CASE a = c
    <3>1. {a, b, c} = {b, c}
      BY <2>1
    <3>2. Cardinality({b, c}) <= 2
      BY <1>2
    <3> DEFINE n == Cardinality({b, c})
    <3>3. n = 3 /\ n <= 2
      BY <1>3, <3>1, <3>2
    <3> HIDE DEF n
    <3> QED BY <3>3
  <2>2. CASE b = c
    <3>1. {a, b, c} = {a, c}
      BY <2>2
    <3>2. Cardinality({a, c}) <= 2
      BY <1>2
    <3> DEFINE n == Cardinality({a, c})
    <3>3. n = 3 /\ n <= 2
      BY <1>3, <3>1, <3>2
    <3> HIDE DEF n
    <3> QED BY <3>3
  <2> QED BY <2>1, <2>2
<1> QED
  BY <1>1, <1>4 DEF Assignment, who_hashes, a, b, c

(* Digests of words, of which those of an assignment are equal.            *)
Parts(pa) == {pa.hasher, pa.receiver}
Digests == {d \in [Assignments -> UNION {[Parts(pa) -> Seq(Word)] : pa \in Assignments}] :
               \A pa \in Assignments : d[pa] \in [Parts(pa) -> Seq(Word)]
                                       /\ d[pa][pa.hasher] = d[pa][pa.receiver]}

(* A joint message whose two owners have the same word.                    *)
Proper(msg) ==
    /\ msg.pa \in Assignments
    /\ msg.word[msg.pa.hasher] = msg.word[msg.pa.sender]
    /\ msg.word[msg.pa.hasher] \in Word

(* Such a message goes into both digests alike.                            *)
LEMMA DigestedAgrees ==
    ASSUME FourPartiesAssumption, NEW d \in Digests, NEW msg, Proper(msg)
    PROVE  Digested(d, msg) \in Digests
<1> DEFINE pa == msg.pa
           h == pa.hasher
           r == pa.receiver
           w == msg.word[h]
           f == d[pa]
           g == [f EXCEPT ![h] = Append(@, w), ![r] = Append(@, w)]
           e == Digested(d, msg)
<1>1. pa \in Assignments /\ w \in Word /\ msg.word[pa.sender] = w /\ h # r
  BY HasherReceiver DEF Proper
<1>2. f \in [{h, r} -> Seq(Word)] /\ f[h] = f[r] /\ DOMAIN d = Assignments
  BY <1>1 DEF Digests, Parts
<1>3. e = [d EXCEPT ![pa] = g]
  BY <1>1, Zenon DEF Digested
<1> HIDE DEF w, e, f, h, r
<1>4. g \in [{h, r} -> Seq(Word)] /\ g[h] = g[r]
  <2> DEFINE s == Append(f[h], w)
  <2>1. f[h] \in Seq(Word) /\ f[r] = f[h]
    BY <1>2
  <2>2. s \in Seq(Word)
    BY <1>1, <2>1
  <2>3. g = [f EXCEPT ![h] = s, ![r] = s]
    BY <1>1, <1>2, <2>1
  <2> HIDE DEF s, g
  <2> QED BY <1>1, <1>2, <2>2, <2>3
<1> HIDE DEF g
<1>5. DOMAIN e = Assignments /\ e[pa] = g /\ \A q \in Assignments \ {pa} : e[q] = d[q]
  BY <1>1, <1>2, <1>3
<1> HIDE DEF pa
<1>6. \A q \in Assignments : e[q] \in [Parts(q) -> Seq(Word)] /\ e[q][q.hasher] = e[q][q.receiver]
  <2> SUFFICES ASSUME NEW q \in Assignments
               PROVE  e[q] \in [Parts(q) -> Seq(Word)] /\ e[q][q.hasher] = e[q][q.receiver]
    OBVIOUS
  <2>1. CASE q = pa
    BY <1>4, <1>5, <2>1 DEF Parts, h, r
  <2>2. CASE q # pa
    BY <1>5, <2>2 DEF Digests
  <2> QED BY <2>1, <2>2
<1>7. e = [q \in Assignments |-> e[q]]
  BY <1>3, <1>5 DEF Digests
<1>8. e \in [Assignments -> UNION {[Parts(q) -> Seq(Word)] : q \in Assignments}]
  BY <1>6, <1>7
<1> QED
  BY <1>6, <1>8 DEF Digests, e

(* The greatest and the least of some numbers are among them.              *)
LEMMA MaxIn ==
    ASSUME NEW N \in Nat, NEW s \in SUBSET (0 .. N), s # {}
    PROVE  Max(s) \in s /\ Min(s) \in s
<1> DEFINE R == {xy \in Nat \X Nat : xy[1] < xy[2]}
           up == {N - x : x \in s}
<1>1. IsWellFoundedOn(R, Nat)
  BY NatLessThanWellFounded, Zenon DEF OpToRel
<1>2. ASSUME NEW T \in SUBSET Nat, T # {}
      PROVE  \E m \in T : \A y \in T : m <= y
  <2>1. PICK m \in T : \A y \in T : ~ (<<y, m>> \in R)
    <3> HIDE DEF R
    <3> QED BY <1>1, <1>2, WFMin
  <2>2. ASSUME NEW y \in T
        PROVE  m <= y
    <3>1. <<y, m>> \in Nat \X Nat /\ <<y, m>>[1] = y /\ <<y, m>>[2] = m
      OBVIOUS
    <3>2. ~ (y < m)
      BY <2>1, <3>1
    <3>3. y \in Nat /\ m \in Nat
      OBVIOUS
    <3> QED BY <3>2, <3>3
  <2> QED BY <2>2
<1>3. \E m \in s : \A y \in s : m <= y
  <2>1. s \in SUBSET Nat /\ s # {}
    OBVIOUS
  <2> QED BY <1>2, <2>1, Zenon
<1>4. \E l \in up : \A y \in up : l <= y
  <2>1. up \subseteq Nat /\ up # {}
    <3>1. \A x \in s : x \in 0 .. N /\ N - x \in Nat
      OBVIOUS
    <3>2. PICK x \in s : TRUE
      OBVIOUS
    <3>3. N - x \in up
      BY <3>2
    <3>4. \A l \in up : \E y \in s : l = N - y
      OBVIOUS
    <3> HIDE DEF up
    <3> QED BY <3>1, <3>3, <3>4
  <2> HIDE DEF up
  <2> QED BY <1>2, <2>1
<1>5. \E n \in s : \A y \in s : n >= y
  <2>1. PICK l \in up : \A y \in up : l <= y
    BY <1>4
  <2>2. PICK n \in s : l = N - n
    BY <2>1
  <2>3. \A y \in s : l <= N - y
    BY <2>1
  <2> QED BY <2>2, <2>3
<1> HIDE DEF up, R
<1>6. Min(s) \in s
  BY <1>3, Zenon DEF Min
<1>7. Max(s) \in s
  BY <1>5, Zenon DEF Max
<1> QED
  BY <1>6, <1>7

(* A fold along a sequence of which every element keeps the accumulated    *)
(* value in a set.                                                         *)
LEMMA DigestsStay ==
    ASSUME FourPartiesAssumption, NEW d \in Digests,
           NEW N \in Nat, NEW msgs, DOMAIN msgs = 1 .. N, \A n \in 1 .. N : Proper(msgs[n])
    PROVE  FoldLeft(Digested, d, msgs) \in Digests
<1> DEFINE S == 1 .. N
           pick == [s \in SUBSET S |-> Max(s)]
           next == [xv \in S \X Digests |-> Digested(xv[2], msgs[xv[1]])]
           Rec(g) == [s \in SUBSET S |-> IF s = {} THEN d
                         ELSE Digested(g[s \ {Max(s)}], msgs[Max(s)])]
           iter == CHOOSE g : g = Rec(g)
<1>0. IsFiniteSet(S)
  <2>1. 1 \in Int /\ N \in Int
    OBVIOUS
  <2> QED BY <2>1, FS_Interval, Zenon
<1>1. Picks(S, pick)
  <2> SUFFICES ASSUME NEW s \in SUBSET S, s # {}
               PROVE  Max(s) \in s
    BY DEF Picks
  <2>1. s \in SUBSET (0 .. N)
    OBVIOUS
  <2> QED BY <2>1, MaxIn
<1>2. next \in [S \X Digests -> Digests]
  <2> SUFFICES ASSUME NEW xv \in S \X Digests
               PROVE  Digested(xv[2], msgs[xv[1]]) \in Digests
    OBVIOUS
  <2>1. xv[2] \in Digests /\ Proper(msgs[xv[1]])
    OBVIOUS
  <2> QED BY <2>1, DigestedAgrees
<1>3. ASSUME NEW g \in [SUBSET S -> Digests], NEW s \in SUBSET S
      PROVE  Rec(g)[s] = IF s = {} THEN d ELSE next[<<pick[s], g[s \ {pick[s]}]>>]
  <2>1. s # {} => pick[s] \in S /\ s \ {pick[s]} \in SUBSET S
    BY <1>1 DEF Picks
  <2>2. s # {} => g[s \ {pick[s]}] \in Digests
    BY <2>1
  <2>3. pick[s] = Max(s)
    OBVIOUS
  <2> HIDE <1>1
  <2> HIDE DEF pick
  <2>4. CASE s = {}
    BY <2>4
  <2>5. CASE s # {}
    <3> DEFINE u == pick[s]
               v == g[s \ {pick[s]}]
    <3>1. next[<<u, v>>] = Digested(v, msgs[u])
      <4>1. <<u, v>> \in S \X Digests
        BY <2>1, <2>2, <2>5
      <4> HIDE DEF u, v
      <4> QED BY <4>1
    <3>2. Rec(g)[s] = Digested(v, msgs[u])
      BY <2>3, <2>5
    <3> QED BY <2>5, <3>1, <3>2
  <2> QED BY <2>4, <2>5
<1>4. PICK it \in [SUBSET S -> Digests] : FoldsTo(it, S, d, pick, next)
  <2> HIDE DEF pick, next, S
  <2> QED BY <1>0, <1>1, <1>2, FoldExists
<1>5. it = Rec(it)
  <2>1. \A s \in SUBSET S : it[s] = Rec(it)[s]
    <3> HIDE DEF pick, next, Rec
    <3> QED BY <1>3, <1>4 DEF FoldsTo
  <2>2. it = [s \in SUBSET S |-> it[s]] /\ Rec(it) = [s \in SUBSET S |-> Rec(it)[s]]
    OBVIOUS
  <2> HIDE DEF Rec
  <2> QED BY <2>1, <2>2
<1>6. iter = Rec(iter)
  <2> HIDE DEF Rec
  <2> QED BY <1>5, Zenon DEF iter
<1>7. FoldLeft(Digested, d, msgs) = iter[S]
  BY DEF FoldLeft, MapThenFoldSet
<1>8. SUBSET S \subseteq {s \in SUBSET S : iter[s] \in Digests}
  <2> DEFINE Good == {s \in SUBSET S : iter[s] \in Digests}
  <2>1. \A s \in SUBSET S : iter[s] = Rec(iter)[s]
    <3> HIDE DEF iter, Rec
    <3> QED BY <1>6
  <2> HIDE DEF iter
  <2>2. {} \in Good
    BY <2>1
  <2>3. ASSUME NEW s \in SUBSET S, s # {}, s \ {pick[s]} \in Good
        PROVE  s \in Good
    <3>1. pick[s] \in S /\ iter[s \ {pick[s]}] \in Digests
      BY <1>1, <2>3 DEF Picks
    <3>2. iter[s] = Digested(iter[s \ {pick[s]}], msgs[pick[s]])
      BY <2>1, <2>3
    <3> HIDE DEF pick
    <3>3. Proper(msgs[pick[s]])
      BY <3>1
    <3> QED BY <3>1, <3>2, <3>3, DigestedAgrees
  <2> HIDE DEF Good, pick, S
  <2> QED BY <1>0, <1>1, <2>2, <2>3, PickInduction DEF Good
<1>9. iter[S] \in Digests
  <2> HIDE DEF iter
  <2> QED BY <1>8
<1> QED
  BY <1>7, <1>9

-----------------------------------------------------------------------------
(* Two parties input a word that both know.                                *)
WellPut(in) ==
    /\ in.i \in Parties /\ in.j \in Parties \ {in.i} /\ in.k \in Nat
    /\ in.g = next_party(in.i, in.j) /\ in.h = excluded_party(in.i, in.j, in.g)
    /\ in.w[in.i] = in.w[in.j] /\ in.w[in.i] \in Word
(* The joint message of such an input.                                     *)
MessageOf(in) == Message(in.i, in.j, in.g, [p \in {in.i, in.j} |-> ShareH(in, p)])

(* The owners send the same word, and every party ends with words.         *)
LEMMA InputTyped ==
    ASSUME FourPartiesAssumption, WordsDrawn, GeneratorsInStep, Typed, NEW in, WellPut(in)
    PROVE  /\ \A p \in Parties, n \in Index : InputShare(in, p, n) \in Word
           /\ inp(in) \in Shares
           /\ Proper(MessageOf(in))
<1> DEFINE i == in.i
           j == in.j
           g == in.g
           h == in.h
           pa == Assignment(i, j, g)
<1>1. /\ g \in Parties /\ h \in Parties /\ i \in Parties /\ j \in Parties
      /\ i # j /\ i # g /\ j # g /\ i # h /\ j # h /\ g # h
  BY PartiesOfInput DEF WellPut
<1>2. \A p \in Parties : ShareG(in, p) \in Word
  BY <1>1, FourTyped DEF ShareG, WellPut
<1>3. ShareG(in, i) = ShareG(in, j)
  BY <1>1, SameDraw DEF ShareG
<1>4. ShareH(in, i) = ShareH(in, j) /\ ShareH(in, i) \in Word
  <2>1. ShareH(in, i) = ShareH(in, j)
    BY <1>3 DEF ShareH, WellPut
  <2>2. ShareG(in, i) \in Word /\ in.w[i] \in Word
    BY <1>1, <1>2 DEF WellPut
  <2>3. Sub(in.enc, in.w[i], ShareG(in, i)) \in Word
    BY <2>2, FourTyped, SharesClosed
  <2> QED BY <2>1, <2>3 DEF ShareH
<1>5. \A o : Assignment(i, j, o).sender \in {i, j}
  <2>1. i \in Int /\ j \in Int
    BY <1>1, Four
  <2> HIDE DEF i, j
  <2> QED BY <2>1, SenderIs
<1>6. \A o : ShareH(in, Assignment(i, j, o).sender) \in Word
  BY <1>4, <1>5
<1>7. \A p \in Parties, n \in Index : InputShare(in, p, n) \in Word
  BY <1>2, <1>4, <1>6, FourTyped DEF InputShare
<1>8. inp(in) \in Shares
  BY <1>7 DEF inp, Shares
<1>9. Proper(MessageOf(in))
  <2> DEFINE word == [p \in {i, j} |-> ShareH(in, p)]
  <2>1. pa \in Assignments /\ {pa.hasher, pa.sender} = {i, j}
    <3> HIDE DEF i, j, g
    <3> QED BY <1>1, AssignmentsAre
  <2>2. pa.hasher \in {i, j} /\ pa.sender \in {i, j}
    BY <2>1
  <2>3. \A p \in {i, j} : word[p] = ShareH(in, i)
    BY <1>4
  <2>4. MessageOf(in) = [pa |-> pa, word |-> word]
    BY DEF MessageOf, Message
  <2> HIDE DEF word, pa
  <2>5. MessageOf(in).pa = pa /\ MessageOf(in).word = word
    BY <2>4
  <2> QED BY <1>4, <2>1, <2>2, <2>3, <2>5 DEF Proper
<1> QED
  BY <1>7, <1>8, <1>9

(* The inputs of a primitive put the same words into both digests, and     *)
(* draw so many words as there are inputs.                                 *)
LEMMA InputsDoneTyped ==
    ASSUME FourPartiesAssumption, WordsDrawn, GeneratorsInStep, Typed, digest \in Digests,
           NEW ins, NEW N \in Nat, DOMAIN ins = 1 .. N, \A n \in 1 .. N : WellPut(ins[n]),
           InputsDone(ins)
    PROVE  digest' \in Digests /\ ok' = ok /\ nonce' \in Counts
<1> DEFINE msgs == [n \in DOMAIN ins |-> MessageOf(ins[n])]
           drawn == [g \in Parties |-> Cardinality({n \in DOMAIN ins : ins[n].g = g})]
           count(p, S) == IF p \in S /\ Cardinality(S) = 3
                          THEN drawn[CHOOSE g \in Parties : g \notin S] ELSE 0
<1>1. Jmp(msgs)
  BY DEF InputsDone, InputsSend, MessageOf
<1>2. DOMAIN msgs = 1 .. N /\ \A n \in 1 .. N : Proper(msgs[n])
  BY InputTyped
<1> HIDE DEF msgs
<1>3. digest' \in Digests /\ ok' = ok
  <2>1. FoldLeft(Digested, digest, msgs) \in Digests
    BY <1>2, DigestsStay
  <2> QED BY <1>1, <2>1 DEF Jmp
<1>4. nonce' = [p \in Parties |-> [S \in Groups |-> nonce[p][S] + count(p, S)]]
  BY DEF InputsDone, InputsDraw, Drawn
<1>5. IsFiniteSet(DOMAIN ins)
  <2>1. 1 \in Int /\ N \in Int
    OBVIOUS
  <2> QED BY <2>1, FS_Interval, Zenon
<1>6. \A g \in Parties : drawn[g] \in Nat
  <2> SUFFICES ASSUME NEW g \in Parties
               PROVE  Cardinality({n \in DOMAIN ins : ins[n].g = g}) \in Nat
    OBVIOUS
  <2> DEFINE of == {n \in DOMAIN ins : ins[n].g = g}
  <2>1. IsFiniteSet(of)
    BY <1>5, FS_Subset
  <2> QED BY <2>1, FS_CardinalityType
<1> HIDE DEF drawn
<1>7. \A p \in Parties, S \in Groups : count(p, S) \in Nat
  <2> SUFFICES ASSUME NEW S \in Groups, Cardinality(S) = 3
               PROVE  drawn[CHOOSE g \in Parties : g \notin S] \in Nat
    OBVIOUS
  <2>1. \E g \in Parties : g \notin S
    <3>1. CASE \E p \in Parties : S = {p}
      <4>1. PICK p \in Parties : S = {p}
        BY <3>1
      <4>2. Cardinality({p}) = 1
        BY FS_Singleton
      <4> DEFINE c == Cardinality(S)
      <4>3. c = 1 /\ c = 3
        BY <4>1, <4>2
      <4> HIDE DEF c
      <4> QED BY <4>3
    <3>2. CASE \E g \in Parties : S = Without(g)
      BY <3>2 DEF Without
    <3> QED BY <3>1, <3>2 DEF FourPartiesAssumption
  <2>2. (CHOOSE g \in Parties : g \notin S) \in Parties
    BY <2>1
  <2> QED BY <1>6, <2>2
<1> HIDE DEF count
<1>8. nonce' \in Counts
  BY <1>4, <1>7, FourTyped, TypedFacts DEF Counts
<1> QED
  BY <1>3, <1>8

(* The cross terms of a product are such inputs.                           *)
LEMMA CrossTermsPut ==
    ASSUME FourPartiesAssumption, WordsDrawn, Typed,
           NEW enc, NEW x, Fine(x), NEW y, Fine(y), NEW k, k \in [Parties -> Nat]
    PROVE  /\ DOMAIN CrossTerms(enc, x, y, k) = 1 .. 6
           /\ \A n \in 1 .. 6 : WellPut(CrossTerms(enc, x, y, k)[n])
<1>1. DOMAIN CrossTerms(enc, x, y, k) = 1 .. 6
  BY DEF CrossTerms
<1>2. ASSUME NEW n \in 1 .. 6 PROVE WellPut(CrossTerms(enc, x, y, k)[n])
  <2> DEFINE i == SenderPairs[n][1]
             j == SenderPairs[n][2]
             g == PairReceiver[n]
             h == excluded_party(i, j, g)
             w == Cross(enc, x, y, g, h)
             in == Input(enc, i, j, k[g] + Earlier(n), w)
  <2>1. CrossTerms(enc, x, y, k)[n] = in
    BY DEF CrossTerms, CrossTerm
  <2>2. i \in Parties /\ j \in Parties \ {i} /\ g = next_party(i, j)
    BY Four DEF SenderPairs, PairReceiver
  <2>3. in.i = i /\ in.j = j /\ in.g = next_party(i, j)
        /\ in.h = excluded_party(i, j, next_party(i, j)) /\ in.k = k[g] + Earlier(n) /\ in.w = w
    BY DEF Input
  <2> HIDE DEF in, i, j, g
  <2>4. /\ g \in Parties /\ h \in Parties
        /\ i # g /\ j # g /\ i # h /\ j # h /\ g # h
    BY <2>2, PartiesOfInput
  <2>5. in.k \in Nat
    <3> DEFINE before == {m \in 1 .. n - 1 : PairReceiver[m] = PairReceiver[n]}
    <3>1. IsFiniteSet(1 .. n - 1)
      <4>1. 1 \in Int /\ n - 1 \in Int
        OBVIOUS
      <4> QED BY <4>1, FS_Interval, Zenon
    <3>2. IsFiniteSet(before)
      BY <3>1, FS_Subset
    <3>3. Cardinality(before) \in Nat
      BY <3>2, FS_CardinalityType
    <3>4. Earlier(n) = Cardinality(before)
      BY DEF Earlier
    <3> HIDE DEF before
    <3>5. Earlier(n) \in Nat
      BY <3>3, <3>4
    <3> QED BY <2>3, <2>4, <3>5
  <2> HIDE DEF h
  <2>6. \A s \in {x, y}, o \in {g, h} :
            s[i][abs2sh(i, o)] = s[j][abs2sh(j, o)] /\ s[i][abs2sh(i, o)] \in Word
    <3> SUFFICES ASSUME NEW s \in {x, y}, NEW o \in {g, h}
                 PROVE  s[i][abs2sh(i, o)] = s[j][abs2sh(j, o)] /\ s[i][abs2sh(i, o)] \in Word
      OBVIOUS
    <3>1. /\ abs2sh(i, o) \in Index /\ abs2sh(j, o) \in Index
          /\ ShareOf(i, abs2sh(i, o)) = ShareOf(j, abs2sh(j, o))
      BY <2>2, <2>4, Abs2sh
    <3>2. Agrees(s) /\ s \in Shares
      BY DEF Fine
    <3>3. s[i][abs2sh(i, o)] \in Word
      BY <2>2, <3>1, <3>2 DEF Shares
    <3> QED
      BY <2>2, <3>1, <3>2, <3>3 DEF Agrees
  <2>7. w[i] = w[j] /\ w[i] \in Word
    <3> DEFINE v(p) == Add(enc, Mul(enc, x[p][abs2sh(p, h)], y[p][abs2sh(p, g)]),
                                Mul(enc, x[p][abs2sh(p, g)], y[p][abs2sh(p, h)]))
    <3>1. i \in Without(g) \ {h} /\ j \in Without(g) \ {h}
      BY <2>2, <2>4 DEF Without
    <3>2. w[i] = v(i) /\ w[j] = v(j)
      BY <3>1 DEF Cross
    <3>3. v(i) = v(j)
      BY <2>6
    <3>4. v(i) \in Word
      BY <2>6, FourTyped, SharesClosed
    <3> HIDE DEF v
    <3> QED BY <3>2, <3>3, <3>4
  <2> HIDE DEF w
  <2>8. WellPut(in)
    BY <2>2, <2>3, <2>5, <2>7 DEF WellPut, h
  <2> QED BY <2>1, <2>8
<1> QED
  BY <1>1, <1>2

(* A product of vectors of words is one.                                   *)
LEMMA ProductFine ==
    ASSUME FourPartiesAssumption, WordsDrawn, GeneratorsInStep, Typed,
           NEW enc, NEW x, Fine(x), NEW y, Fine(y), NEW k, k \in [Parties -> Nat]
    PROVE  Fine(Product(enc, x, y, CrossTerms(enc, x, y, k)))
<1> DEFINE terms == CrossTerms(enc, x, y, k)
           added(p, i) == [n \in 1 .. 6 |-> InputShare(terms[n], p, i)]
<1>1. Agrees(Product(enc, x, y, terms))
  BY ProductAgrees DEF Fine
<1>2. \A n \in 1 .. 6 : \A p \in Parties, i \in Index : InputShare(terms[n], p, i) \in Word
  BY CrossTermsPut, InputTyped
<1>3. IsFiniteSet(1 .. 6)
  <2>1. 1 \in Int /\ 6 \in Int
    OBVIOUS
  <2> QED BY <2>1, FS_Interval, Zenon
<1>4. ASSUME NEW p \in Parties, NEW i \in Index
      PROVE  Add(enc, Mul(enc, x[p][i], y[p][i]), SumOver(enc, 1 .. 6, added(p, i))) \in Word
  <2>1. \A n \in 1 .. 6 : added(p, i)[n] \in Word
    BY <1>2
  <2> HIDE DEF added
  <2>2. SumOver(enc, 1 .. 6, added(p, i)) \in Word
    BY <1>3, <2>1, FourTyped, SumIsWord
  <2>3. x[p][i] \in Word /\ y[p][i] \in Word
    BY DEF Fine, Shares
  <2>4. Mul(enc, x[p][i], y[p][i]) \in Word
    BY <2>3, FourTyped, SharesClosed
  <2> QED BY <2>2, <2>4, FourTyped, SharesClosed
<1>5. Product(enc, x, y, terms)
        = [p \in Parties |-> [i \in Index |->
              Add(enc, Mul(enc, x[p][i], y[p][i]), SumOver(enc, 1 .. 6, added(p, i)))]]
  BY DEF Product
<1> HIDE DEF terms, added
<1>6. Product(enc, x, y, terms) \in Shares
  BY <1>4, <1>5 DEF Shares
<1> QED
  BY <1>1, <1>6 DEF Fine, terms

-----------------------------------------------------------------------------
(* The state between two primitives: the copies agree, the generators are  *)
(* in step, and the digests of every assignment hold the same words.       *)
Honest == Consistent /\ Typed /\ ok = TRUE /\ digest \in Digests

(* Writing vectors of words.                                               *)
LEMMA WriteHonest ==
    ASSUME FourPartiesAssumption, WordsDrawn, Honest, NEW r \in Registers,
           NEW enc \in Encodings \cup {"none"}, NEW s, Fine(s), Write(r, Vector(enc, s)),
           NEW name, NEW args, Call(name, args), nonce' \in Counts, Consistent',
           ok' = ok, digest' \in Digests
    PROVE  Honest'
<1>1. Typed'
  BY FourTyped, WriteTyped DEF Honest, Fine
<1> QED
  BY <1>1 DEF Honest

(* The same of two at once.                                                *)
LEMMA WriteBothHonest ==
    ASSUME FourPartiesAssumption, WordsDrawn, Honest,
           NEW r1 \in Registers, NEW e1 \in Encodings, NEW s1, Fine(s1),
           NEW r2 \in Registers, NEW e2 \in Encodings, NEW s2, Fine(s2),
           WriteBoth(r1, Vector(e1, s1), r2, Vector(e2, s2)),
           NEW name, NEW args, Call(name, args), nonce' \in Counts, Consistent',
           ok' = ok, digest' \in Digests
    PROVE  Honest'
<1>1. Typed'
  BY FourTyped, WriteBothTyped DEF Honest, Fine
<1> QED
  BY <1>1 DEF Honest

(* Sum and difference of two vectors.                                      *)
LEMMA LocalFine ==
    ASSUME BitsAssumption, NEW s, Fine(s), NEW t, Fine(t)
    PROVE  Fine(Local(Plus, s, t)) /\ Fine(Local(Minus, s, t))
BY Closed DEF Fine, Agrees, Local, Shares

(* The sharing of an input.                                                *)
LEMMA InpFine ==
    ASSUME FourPartiesAssumption, WordsDrawn, GeneratorsInStep, Typed, NEW in, WellPut(in),
           in = Input(in.enc, in.i, in.j, in.k, in.w)
    PROVE  Fine(inp(in))
<1>1. Agrees(inp(Input(in.enc, in.i, in.j, in.k, in.w)))
  BY InpAgrees DEF WellPut
<1> QED
  BY <1>1, InputTyped DEF Fine

(* A resharing: two members of the group send every share, and they have   *)
(* the same word.                                                          *)
LEMMA ReshareHonest ==
    ASSUME FourPartiesAssumption, WordsDrawn, Honest,
           NEW x \in Registers, NEW receiver \in Parties, Reshare(x, receiver)
    PROVE  Honest' /\ Ideal!Reshare(x)
<1> DEFINE g == Without(receiver)
           mine == Rerandomized(x, g)
           two(s) == g \ {s}
           word(s) == [p \in two(s) |-> mine[p][abs2sh(p, s)]]
           msg(s) == Message(Min(two(s)), Max(two(s)), receiver, word(s))
           order == [n \in 1 .. NumParties - 1 |-> IF n <= receiver THEN n - 1 ELSE n]
           msgs == [n \in DOMAIN order |-> msg(order[n])]
           received(i) == LET m == msg((receiver + 1 + i) % 4) IN m.word[m.pa.sender]
           t == [mine EXCEPT ![receiver] = [i \in Index |-> received(i)]]
<1>0. /\ SharingAssumption /\ g \in Groups /\ g \subseteq Parties /\ receiver \in 0 .. 3
      /\ Parties = 0 .. 3 /\ Index = 0 .. 2 /\ NumParties = 4
      /\ Agrees(view[x].sh) /\ GeneratorsInStep /\ Typed
  BY Four DEF Honest, Consistent, Replicated, Without, FourPartiesAssumption
<1>1. \A p, q \in g, i, j \in Index : ShareOf(p, i) = ShareOf(q, j) => mine[p][i] = mine[q][j]
  BY <1>0, RerandomizedAgrees
<1>2. mine \in Shares
  BY <1>0, RerandomizedTyped
<1>3. /\ view[x].enc # "none" /\ Call("reshare", <<x>>)
      /\ Write(x, Vector(view[x].enc, t))
      /\ DrawnBy(g, g, NumParties - 1)
      /\ Jmp(msgs)
  BY DEF Reshare
<1> HIDE DEF mine
<1>4. ASSUME NEW s \in Parties \ {receiver}
      PROVE  /\ Proper(msg(s)) /\ msg(s).word[msg(s).pa.sender] \in Word
             /\ \E p \in g : p # s /\ msg(s).word[msg(s).pa.sender] = mine[p][abs2sh(p, s)]
  <2> DEFINE a == Min(two(s))
             b == Max(two(s))
             pa == Assignment(a, b, receiver)
  <2>1. \E c, d \in 0 .. 3 : c < d /\ two(s) = {c, d}
    BY <1>0 DEF Without
  <2>2. a \in two(s) /\ b \in two(s) /\ a # b
    BY <2>1 DEF Min, Max
  <2>3. /\ a \in Parties /\ b \in Parties /\ a # receiver /\ b # receiver /\ a # s /\ b # s
        /\ a \in g /\ b \in g
    BY <1>0, <2>2 DEF Without
  <2>4. msg(s) = [pa |-> pa, word |-> word(s)]
    BY DEF Message
  <2> HIDE DEF a, b
  <2>5. pa \in Assignments /\ {pa.hasher, pa.sender} = {a, b}
    BY <2>2, <2>3, AssignmentsAre
  <2>6. word(s)[a] = mine[a][abs2sh(a, s)] /\ word(s)[b] = mine[b][abs2sh(b, s)]
    BY <2>2
  <2> DEFINE v == word(s)
  <2> HIDE DEF g, two, word, msg, pa
  <2>7. abs2sh(a, s) \in Index /\ abs2sh(b, s) \in Index
        /\ ShareOf(a, abs2sh(a, s)) = ShareOf(b, abs2sh(b, s))
    BY <2>3, Abs2sh
  <2>8. v[a] = v[b] /\ v[a] \in Word
    BY <1>1, <1>2, <2>3, <2>6, <2>7 DEF Shares
  <2>9. pa.hasher \in {a, b} /\ pa.sender \in {a, b}
    BY <2>5
  <2>10. msg(s).pa = pa /\ msg(s).word = v
    BY <2>4
  <2> HIDE DEF v
  <2>11. \E p \in g : p # s /\ msg(s).word[msg(s).pa.sender] = mine[p][abs2sh(p, s)]
    BY <2>3, <2>6, <2>9, <2>10 DEF v
  <2> QED BY <2>5, <2>8, <2>9, <2>10, <2>11 DEF Proper
<1> HIDE DEF g, msg
<1>5. /\ DOMAIN order = 1 .. 3
      /\ \A n \in 1 .. 3 : order[n] \in Parties \ {receiver}
  BY <1>0
<1>6. DOMAIN msgs = 1 .. 3 /\ \A n \in 1 .. 3 : Proper(msgs[n])
  <2> HIDE DEF order
  <2> QED BY <1>4, <1>5
<1> HIDE DEF msgs, order
<1>7. digest' \in Digests /\ ok' = ok
  <2>1. FoldLeft(Digested, digest, msgs) \in Digests
    BY <1>6, DigestsStay DEF Honest
  <2> QED BY <1>3, <2>1 DEF Jmp
<1>8. \A i \in Index : received(i) \in Word
  <2> SUFFICES ASSUME NEW i \in Index
               PROVE  received(i) \in Word
    OBVIOUS
  <2> DEFINE s == (receiver + 1 + i) % 4
  <2>1. s \in Parties \ {receiver}
    BY <1>0
  <2>2. received(i) = msg(s).word[msg(s).pa.sender]
    OBVIOUS
  <2> HIDE DEF s, received
  <2> QED BY <1>4, <2>1, <2>2
<1>14. \E p \in g, j \in Index : ShareOf(p, j) = receiver /\ received(0) = mine[p][j]
  <2> DEFINE s == (receiver + 1 + 0) % 4
  <2>1. s \in Parties \ {receiver} /\ (s + 3) % 4 = receiver
    <3>1. \A o \in {0, 1, 2, 3} : /\ (o + 1 + 0) % 4 \in {0, 1, 2, 3} \ {o}
                                  /\ (((o + 1 + 0) % 4) + 3) % 4 = o
      OBVIOUS
    <3> QED BY <3>1, Four
  <2>2. received(0) = msg(s).word[msg(s).pa.sender]
    OBVIOUS
  <2> HIDE DEF s, received
  <2>3. PICK p \in g : p # s /\ received(0) = mine[p][abs2sh(p, s)]
    BY <1>4, <2>1, <2>2
  <2>4. abs2sh(p, s) \in Index /\ ShareOf(p, abs2sh(p, s)) = receiver
    BY <1>0, <2>1, <2>3, Abs2sh
  <2> QED BY <2>3, <2>4
<1> HIDE DEF received
<1>9. t \in Shares
  BY <1>2, <1>8 DEF Shares
<1>15. \A q \in Parties : \E p \in g, j \in Index :
           ShareOf(p, j) = ShareOf(q, 0) /\ t[q][0] = mine[p][j]
  <2>1. 0 \in Index /\ \A q \in Parties : ShareOf(q, 0) = q
    <3>1. \A o \in {0, 1, 2, 3} : (o + 0) % 4 = o
      OBVIOUS
    <3> QED BY <3>1, Four
  <2>2. DOMAIN mine = Parties /\ t[receiver][0] = received(0)
    BY <1>2, <2>1 DEF Shares
  <2>3. \A q \in Parties \ {receiver} : q \in g /\ t[q][0] = mine[q][0]
    BY <1>0, <2>2 DEF g, Without
  <2> HIDE DEF t
  <2> QED BY <1>14, <2>1, <2>2, <2>3
<1> HIDE DEF t
<1>10. Consistent'
  BY ReshareKeeps DEF Honest
<1>11. nonce' \in Counts
  <2>1. NumParties - 1 \in Nat
    BY <1>0
  <2> QED BY <1>0, <1>3, <2>1, DrawnByTyped
<1>12. MaxPrimitives \in Nat /\ view[x].enc \in Encodings \cup {"none"}
  BY <1>0 DEF Typed, SharingTypeOK, SharingAssumption
<1>13. Typed'
  BY <1>0, <1>3, <1>9, <1>11, <1>12, WriteTyped
<1>16. Ideal!Reshare(x)
  <2>1. TwoToFour /\ DOMAIN view = Registers /\ view[x].enc \in Encodings
    BY <1>0, <1>3, <1>12 DEF FourPartiesAssumption, TwoToFour, Typed
  <2>2. \A q \in Parties : \E p \in g, j \in Index :
            ShareOf(p, j) = ShareOf(q, 0) /\ t[q][0] = Rerandomized(x, g)[p][j]
    BY <1>15 DEF mine
  <2>3. Reconstruct(view[x].enc, t) = Reconstruct(view[x].enc, view[x].sh)
    BY <1>0, <1>9, <2>1, <2>2, RerandomizedReconstructs
  <2> QED BY <1>3, <2>1, <2>3, ReshareIsIdeal
<1> QED
  BY <1>7, <1>10, <1>13, <1>16 DEF Honest

(* What a party receives in an opening comes alike from two neighbours.    *)
LEMMA OpenedSame ==
    ASSUME FourPartiesAssumption, WordsDrawn, Typed, NEW x \in Registers, Agrees(view[x].sh),
           NEW r \in Parties
    PROVE  /\ OpenedTo(x, r).sent = OpenedTo(x, r).hashed /\ OpenedTo(x, r).sent \in Word
           /\ OpenedTo(x, r).sent = view[x].sh[Rank(r, 3)][0]
<1> DEFINE pair == CHOOSE pr \in Neighbours : next_party(pr[1], pr[2]) = r
           pa == Assignment(pair[1], pair[2], r)
<1>1. \E pr \in Neighbours : next_party(pr[1], pr[2]) = r
  <2>1. <<0, 1>> \in Neighbours /\ <<1, 2>> \in Neighbours /\ <<2, 3>> \in Neighbours /\ <<3, 0>> \in Neighbours
    <3>1. (0 + 1) % 4 = 1 /\ (1 + 1) % 4 = 2 /\ (2 + 1) % 4 = 3 /\ (3 + 1) % 4 = 0
      OBVIOUS
    <3>2. 0 \in Parties /\ 1 \in Parties /\ 2 \in Parties /\ 3 \in Parties
      BY Four
    <3>3. \A i \in Parties : <<i, (i + 1) % 4>> \in Neighbours
      BY DEF Neighbours
    <3> QED BY <3>1, <3>2, <3>3
  <2>2. /\ next_party(0, 1) = 2 /\ next_party(1, 2) = 3
        /\ next_party(2, 3) = 0 /\ next_party(3, 0) = 1
    BY DEF next_party
  <2>3. \A a, b : <<a, b>>[1] = a /\ <<a, b>>[2] = b
    OBVIOUS
  <2>4. r \in {0, 1, 2, 3}
    BY Four
  <2> QED BY <2>1, <2>2, <2>3, <2>4
<1>2. pair \in Neighbours /\ next_party(pair[1], pair[2]) = r
  BY <1>1
<1> HIDE DEF pair
<1>3. pair[1] \in Parties /\ pair[2] \in Parties \ {pair[1]}
  BY <1>2, Four DEF Neighbours
<1>4. r # pair[1] /\ r # pair[2]
  BY <1>2, <1>3, PartiesOfInput
<1> DEFINE a == pair[1]
           b == pair[2]
<1>5. {pa.hasher, pa.sender} = {a, b}
  <2>1. a \in Parties /\ b \in Parties /\ a # b /\ a # r /\ b # r
    BY <1>3, <1>4
  <2>2. pa = Assignment(a, b, r)
    OBVIOUS
  <2> HIDE DEF a, b, pa
  <2> QED BY <2>1, <2>2, AssignmentsAre
<1>6. /\ pa.hasher \in Parties \ {r} /\ pa.sender \in Parties \ {r}
  BY <1>3, <1>4, <1>5
<1>7. OpenedTo(x, r).sent = sh(x, pa.sender, r) /\ OpenedTo(x, r).hashed = sh(x, pa.hasher, r)
  BY DEF OpenedTo, pair
<1> HIDE DEF pa
<1>8. sh(x, pa.sender, r) = sh(x, pa.hasher, r)
  BY <1>6, SameShare
<1>9. sh(x, pa.sender, r) \in Word
  BY <1>6, PartsTyped
<1>10. sh(x, pa.sender, r) = view[x].sh[Rank(r, 3)][0]
  BY <1>6, FirstOf, Four DEF sh
<1> QED
  BY <1>7, <1>8, <1>9, <1>10

(* The primitives on one vector.                                           *)
LEMMA OnOneHonest ==
    ASSUME FourPartiesAssumption, WordsDrawn, Honest, NEW x \in Registers, OnOne(x)
    PROVE  Honest'
<1>0. SharingAssumption /\ Replicated /\ GeneratorsInStep /\ Typed /\ Consistent'
  BY Four, OnOneKeeps DEF Honest, Consistent
<1>1. ASSUME NEW enc \in Encodings, NEW w \in Inputs, NEW p \in Parties,
             SecretShare(x, enc, w, p, 1), NoJmp
      PROVE  Honest'
  <2>1. Typed'
    BY <1>0, <1>1, SecretShareTyped
  <2> QED BY <1>0, <1>1, <2>1 DEF Honest, NoJmp
<1>2. ASSUME NEW enc \in Encodings, NEW w \in Inputs, NEW p \in Parties,
             PublicShare(x, enc, w, p), NoJmp
      PROVE  Honest'
  <2>1. Typed'
    BY <1>0, <1>2, PublicShareTyped
  <2> QED BY <1>0, <1>2, <2>1 DEF Honest, NoJmp
<1>3. CASE OpenShares(x)
  <2> DEFINE received == [p \in Parties |-> OpenedTo(x, p).sent]
  <2>1. \A p \in Parties : OpenedTo(x, p).sent = OpenedTo(x, p).hashed /\ received[p] \in Word
    BY <1>0, OpenedSame DEF Replicated
  <2>2. /\ opened' = [p \in Parties |->
               Add(view[x].enc, SumOver(view[x].enc, Index, view[x].sh[p]), received[p])]
        /\ UNCHANGED view /\ Call("open", <<x>>) /\ NothingDrawn /\ UNCHANGED digest
        /\ ok' = (ok /\ \A p \in Parties : OpenedTo(x, p).sent = OpenedTo(x, p).hashed)
    BY <1>3 DEF OpenShares, Open
  <2> HIDE DEF received
  <2>3. Typed'
    BY <1>0, <2>1, <2>2, OpenTyped
  <2>4. ok' = TRUE
    BY <2>1, <2>2 DEF Honest
  <2> QED BY <1>0, <2>2, <2>3, <2>4 DEF Honest
<1>4. ASSUME NEW p \in Parties, Reshare(x, p) PROVE Honest'
  BY <1>4, ReshareHonest
<1> QED
  BY <1>1, <1>2, <1>3, <1>4 DEF OnOne

(* The primitives that compute a vector from another.                      *)
LEMMA OnTwoHonest ==
    ASSUME FourPartiesAssumption, WordsDrawn, Honest,
           NEW x \in Registers, NEW z \in Registers, OnTwo(x, z)
    PROVE  Honest'
<1>0. /\ SharingAssumption /\ Replicated /\ GeneratorsInStep /\ Typed /\ Consistent'
      /\ Agrees(view[x].sh) /\ "A" \in Encodings /\ BitsAssumption /\ digest \in Digests
  BY Four, FourTyped, OnTwoKeeps DEF Honest, Consistent, Replicated
<1>1. CASE (NotB(x, z) \/ NotB1(x, z)) /\ NoJmp
  <2>1. Typed'
    BY <1>0, <1>1, NotTyped
  <2> QED BY <1>0, <1>1, <2>1 DEF Honest, NoJmp
<1>2. CASE (Mask(x, z) \/ LTZ(x, z)) /\ NoJmp
  <2>1. Typed'
    BY <1>0, <1>2, BitsTyped
  <2> QED BY <1>0, <1>2, <2>1 DEF Honest, NoJmp
<1>3. CASE B2ABit(x, z)
  <2> DEFINE half == [p \in Parties |-> HalfBit(x, p)]
             share0 == Input("A", 1, 0, 0, half)
             share1 == Input("A", 3, 2, 0, half)
             difference == Local(Minus, inp(share0), inp(share1))
             k == [g \in Parties |-> IF g \in {share0.g, share1.g} THEN 1 ELSE 0]
             terms == CrossTerms("A", difference, difference, k)
             ins == <<share0, share1>> \o terms
  <2>1. /\ Write(z, Vector("A", Product("A", difference, difference, terms)))
        /\ InputsDone(ins) /\ Call("b2a_bit", <<x, z>>)
    BY <1>3, Zenon DEF B2ABit
  <2>2. half[1] = half[0] /\ half[3] = half[2] /\ \A p \in Parties : half[p] \in Word
    BY <1>0, Four, SameParts, PartsTyped
  <2> HIDE DEF half
  <2>3. /\ WellPut(share0) /\ share0 = Input(share0.enc, share0.i, share0.j, share0.k, share0.w)
        /\ WellPut(share1) /\ share1 = Input(share1.enc, share1.i, share1.j, share1.k, share1.w)
    BY <2>2, Four DEF WellPut, Input
  <2>4. k \in [Parties -> Nat]
    OBVIOUS
  <2> HIDE DEF share0, share1, k
  <2>5. Fine(inp(share0)) /\ Fine(inp(share1))
    BY <1>0, <2>3, InpFine
  <2>6. Fine(difference)
    BY <1>0, <2>5, LocalFine
  <2> HIDE DEF difference
  <2>7. Fine(Product("A", difference, difference, terms))
    BY <1>0, <2>4, <2>6, ProductFine
  <2>8. DOMAIN terms = 1 .. 6 /\ \A n \in 1 .. 6 : WellPut(terms[n])
    BY <1>0, <2>4, <2>6, CrossTermsPut
  <2>9. DOMAIN ins = 1 .. 8 /\ \A n \in 1 .. 8 : WellPut(ins[n])
    <3>1. Len(terms) = 6
      BY DEF CrossTerms
    <3>2. DOMAIN ins = 1 .. 8
          /\ \A n \in 1 .. 8 : ins[n] = IF n <= 2 THEN <<share0, share1>>[n] ELSE terms[n - 2]
      <4> DEFINE two == <<share0, share1>>
                 S == {two[n] : n \in 1 .. 2} \cup {terms[n] : n \in 1 .. 6}
      <4>1. Len(two) = 2 /\ two \in Seq(S)
        OBVIOUS
      <4>2. terms \in Seq(S)
        BY DEF CrossTerms
      <4>3. ins = two \o terms
        OBVIOUS
      <4> HIDE DEF terms, two, S, ins
      <4>4. /\ ins \in Seq(S) /\ Len(ins) = Len(two) + Len(terms)
            /\ \A n \in 1 .. Len(two) + Len(terms) :
                   ins[n] = IF n <= Len(two) THEN two[n] ELSE terms[n - Len(two)]
        BY <4>1, <4>2, <4>3, ConcatProperties
      <4>5. DOMAIN ins = 1 .. Len(ins)
        BY <4>4
      <4> QED BY <3>1, <4>1, <4>4, <4>5 DEF two
    <3> HIDE DEF ins, terms
    <3>3. \A n \in 1 .. 8 : n <= 2 \/ n - 2 \in 1 .. 6
      OBVIOUS
    <3>4. \A n \in 1 .. 2 : WellPut(<<share0, share1>>[n])
      BY <2>3
    <3> QED BY <2>8, <3>2, <3>3, <3>4
  <2> HIDE DEF ins, terms
  <2>10. digest' \in Digests /\ ok' = ok /\ nonce' \in Counts
    BY <1>0, <2>1, <2>9, InputsDoneTyped
  <2> QED BY <1>0, <2>1, <2>7, <2>10, WriteHonest
<1> QED
  BY <1>1, <1>2, <1>3 DEF OnTwo

(* The primitives on two vectors, or with two results.                     *)
LEMMA OnThreeHonest ==
    ASSUME FourPartiesAssumption, WordsDrawn, Honest,
           NEW x \in Registers, NEW y \in Registers, NEW z \in Registers, OnThree(x, y, z)
    PROVE  Honest'
<1>0. /\ SharingAssumption /\ Replicated /\ GeneratorsInStep /\ Typed /\ Consistent'
      /\ Agrees(view[x].sh) /\ "A" \in Encodings /\ "B" \in Encodings /\ BitsAssumption
      /\ digest \in Digests
  BY Four, FourTyped, OnThreeKeeps DEF Honest, Consistent, Replicated
<1>1. \A r \in Registers : Fine(view[r].sh)
  BY <1>0, FourTyped DEF Fine, Replicated
<1>2. ASSUME NEW enc \in Encodings, AddUp(x, y, z, enc) \/ Subtract(x, y, z, enc), NoJmp
      PROVE  Honest'
  <2>1. Typed'
    BY <1>0, <1>2, LocalTyped
  <2> QED BY <1>0, <1>2, <2>1 DEF Honest, NoJmp
<1>3. ASSUME NEW enc \in Encodings, Multiply(x, y, z, enc) PROVE Honest'
  <2> DEFINE s == view[x].sh
             t == view[y].sh
             terms == CrossTerms(enc, s, t, NoWords)
  <2>1. /\ Write(z, Vector(enc, Product(enc, s, t, terms)))
        /\ InputsDone(terms) /\ Call("multiply", <<x, y, z, enc>>)
    BY <1>3 DEF Multiply
  <2>2. Fine(s) /\ Fine(t) /\ NoWords \in [Parties -> Nat]
    BY <1>1 DEF NoWords
  <2> HIDE DEF s, t
  <2>3. Fine(Product(enc, s, t, terms))
    BY <1>0, <2>2, ProductFine
  <2>4. DOMAIN terms = 1 .. 6 /\ \A n \in 1 .. 6 : WellPut(terms[n])
    BY <1>0, <2>2, CrossTermsPut
  <2> HIDE DEF terms
  <2>5. digest' \in Digests /\ ok' = ok /\ nonce' \in Counts
    BY <1>0, <2>1, <2>4, InputsDoneTyped
  <2> QED BY <1>0, <2>1, <2>3, <2>5, WriteHonest
<1>4. CASE DivConst(x, y, z)
  <2> DEFINE rest == [p \in Parties |-> RestOfPart(x, p)]
             floor == [p \in Parties |-> Floor(Part(x, p))]
             err1 == Input("A", 3, 2, 0, rest)
             err2 == Input("A", 1, 0, 0, rest)
             res1 == Input("A", 3, 2, 1, floor)
             res2 == Input("A", 1, 0, 1, floor)
             ins == <<err1, err2, res1, res2>>
             quotient == Local(Plus, inp(res1), inp(res2))
             error == Local(Plus, inp(err1), inp(err2))
  <2>1. /\ WriteBoth(y, Vector("A", quotient), z, Vector("A", error))
        /\ InputsDone(ins) /\ Call("div", <<x, y, z>>)
    BY <1>4, Zenon DEF DivConst
  <2>2. /\ floor[1] = floor[0] /\ floor[3] = floor[2] /\ \A p \in Parties : floor[p] \in Word
        /\ rest[1] = rest[0] /\ rest[3] = rest[2] /\ \A p \in Parties : rest[p] \in Word
    BY <1>0, Four, SameParts, PartsTyped
  <2> HIDE DEF floor, rest
  <2>3. /\ WellPut(err1) /\ err1 = Input(err1.enc, err1.i, err1.j, err1.k, err1.w)
        /\ WellPut(err2) /\ err2 = Input(err2.enc, err2.i, err2.j, err2.k, err2.w)
        /\ WellPut(res1) /\ res1 = Input(res1.enc, res1.i, res1.j, res1.k, res1.w)
        /\ WellPut(res2) /\ res2 = Input(res2.enc, res2.i, res2.j, res2.k, res2.w)
    BY <2>2, Four DEF WellPut, Input
  <2> HIDE DEF err1, err2, res1, res2
  <2>4. DOMAIN ins = 1 .. 4 /\ \A n \in 1 .. 4 : WellPut(ins[n])
    BY <2>3
  <2>5. Fine(inp(err1)) /\ Fine(inp(err2)) /\ Fine(inp(res1)) /\ Fine(inp(res2))
    BY <1>0, <2>3, InpFine
  <2>6. Fine(quotient) /\ Fine(error)
    BY <1>0, <2>5, LocalFine
  <2> HIDE DEF ins, quotient, error
  <2>7. digest' \in Digests /\ ok' = ok /\ nonce' \in Counts
    BY <1>0, <2>1, <2>4, InputsDoneTyped
  <2> QED BY <1>0, <2>1, <2>6, <2>7, WriteBothHonest
<1>5. CASE Redistribute(x, y, z)
  <2> DEFINE low == [p \in {0, 3} |-> Plus(sh(x, p, 1), sh(x, p, 2))]
             high == [p \in {1, 2} |-> Plus(sh(x, p, 3), sh(x, p, 0))]
             first == Input("B", 0, 3, 0, low)
             second == Input("B", 2, 1, 0, high)
             ins == <<first, second>>
  <2>1. /\ WriteBoth(y, Vector("B", inp(first)), z, Vector("B", inp(second)))
        /\ InputsDone(ins) /\ Call("redistribute", <<x, y, z>>)
    BY <1>5, Zenon DEF Redistribute
  <2>2. low[0] = low[3] /\ high[1] = high[2] /\ low[0] \in Word /\ high[2] \in Word
    <3>1. /\ sh(x, 0, 1) = sh(x, 3, 1) /\ sh(x, 0, 2) = sh(x, 3, 2)
          /\ sh(x, 1, 3) = sh(x, 2, 3) /\ sh(x, 1, 0) = sh(x, 2, 0)
      BY <1>0, Four, SameShare
    <3>2. /\ sh(x, 0, 1) \in Word /\ sh(x, 0, 2) \in Word
          /\ sh(x, 2, 3) \in Word /\ sh(x, 2, 0) \in Word
      BY <1>0, Four, PartsTyped
    <3> QED BY <1>0, <3>1, <3>2, Closed
  <2> HIDE DEF low, high
  <2>3. /\ WellPut(first) /\ first = Input(first.enc, first.i, first.j, first.k, first.w)
        /\ WellPut(second) /\ second = Input(second.enc, second.i, second.j, second.k, second.w)
    BY <2>2, Four DEF WellPut, Input
  <2> HIDE DEF first, second
  <2>4. DOMAIN ins = 1 .. 2 /\ \A n \in 1 .. 2 : WellPut(ins[n])
    BY <2>3
  <2>5. Fine(inp(first)) /\ Fine(inp(second))
    BY <1>0, <2>3, InpFine
  <2> HIDE DEF ins
  <2>6. digest' \in Digests /\ ok' = ok /\ nonce' \in Counts
    BY <1>0, <2>1, <2>4, InputsDoneTyped
  <2> QED BY <1>0, <2>1, <2>5, <2>6, WriteBothHonest
<1> QED
  BY <1>2, <1>3, <1>4, <1>5 DEF OnThree

(* Empty digests are equal digests of words.                               *)
LEMMA EmptyAgrees ==
    Empty \in Digests
<1>1. \A pa \in Assignments : Empty[pa] \in [Parts(pa) -> Seq(Word)]
                              /\ Empty[pa][pa.hasher] = Empty[pa][pa.receiver]
  BY DEF Empty, Parts
<1>2. Empty = [pa \in Assignments |-> Empty[pa]]
  BY DEF Empty
<1>3. Empty \in [Assignments -> UNION {[Parts(pa) -> Seq(Word)] : pa \in Assignments}]
  BY <1>1, <1>2
<1> QED
  BY <1>1, <1>3 DEF Digests

(* A check compares digests that are equal, and starts them anew.          *)
LEMMA CheckHonest ==
    ASSUME FourPartiesAssumption, WordsDrawn, Honest, MaliciousCheck
    PROVE  Honest'
<1>1. /\ UNCHANGED <<view, nonce, opened>> /\ Call("check", <<>>)
      /\ ok' = (ok /\ DigestsAgree) /\ digest' = Empty
  BY DEF MaliciousCheck
<1>2. DigestsAgree
  BY DEF Honest, Digests, DigestsAgree
<1>3. Typed'
  <2>1. calls' \in 0 .. MaxPrimitives
    BY <1>1, FourTyped DEF Call, Honest, Typed, SharingTypeOK
  <2> QED BY <1>1, <2>1 DEF Honest, Typed, SharingTypeOK
<1>4. Consistent'
  BY <1>1 DEF Honest, Consistent, Replicated, Agrees, GeneratorsInStep
<1>5. ok' = TRUE
  BY <1>1, <1>2 DEF Honest
<1> QED
  BY <1>1, <1>3, <1>4, <1>5, EmptyAgrees DEF Honest

(* The inductive invariant: a joint message puts the same word into both   *)
(* digests because its owners have computed it from copies of shares that  *)
(* agree and from generators that are in step, and both digests take the   *)
(* messages in the same order.                                             *)
THEOREM FourPartiesHonest ==
    ASSUME Fantastic4PCAssumption, WordsDrawn
    PROVE  Spec => []Honest
<1>0. FourPartiesAssumption
  BY DEF Fantastic4PCAssumption
<1>1. Init => Honest
  BY <1>0, Four, StartAgrees, StartTyped, EmptyAgrees DEF Init, Consistent, Honest
<1>2. Honest /\ [Next]_vars => Honest'
  <2>1. ASSUME Honest, MaliciousCheck PROVE Honest'
    BY <1>0, <2>1, CheckHonest
  <2>2. ASSUME Honest, Next PROVE Honest'
    BY <1>0, <2>1, <2>2, OnOneHonest, OnTwoHonest, OnThreeHonest DEF Next
  <2>3. ASSUME Honest, UNCHANGED vars PROVE Honest'
    BY <2>3 DEF Honest, Consistent, Replicated, Agrees, GeneratorsInStep, Typed, SharingTypeOK,
                vars, sharingVars
  <2> QED
    BY <2>2, <2>3
<1> QED
  BY <1>1, <1>2, PTL DEF Spec

(* Whatever the parties compute, hold, open and hash are machine words.    *)
THEOREM FourPartiesTypeCorrect ==
    ASSUME Fantastic4PCAssumption, WordsDrawn
    PROVE  Spec => []TypeOK
<1>1. Honest => TypeOK
  BY DEF Honest, Typed, TypeOK, Digests, Parts
<1> QED
  BY <1>1, FourPartiesHonest, PTL

(* Between parties that follow the protocol the digests of the hasher and  *)
(* the receiver are equal at every time, so no check and no opening ever   *)
(* fails, whatever the program and whenever it checks.                     *)
THEOREM FourPartiesNoFalseAlarm ==
    ASSUME Fantastic4PCAssumption, WordsDrawn
    PROVE  Spec => []NoFalseAlarm
<1>1. Honest => NoFalseAlarm
  BY DEF Honest, NoFalseAlarm, Digests, DigestsAgree
<1> QED
  BY <1>1, FourPartiesHonest, PTL

-----------------------------------------------------------------------------
(* Four parties are those of the lemmas about sums of shares.              *)
LEMMA FourAreFour ==
    ASSUME FourPartiesAssumption
    PROVE  FourShares
BY DEF FourPartiesAssumption, FourShares

(* The first shares of an input, which add up to its word.                 *)
LEMMA InputFirsts ==
    ASSUME FourPartiesAssumption, WordsDrawn, GeneratorsInStep, Typed, NEW in, WellPut(in),
           in = Input(in.enc, in.i, in.j, in.k, in.w)
    PROVE  \E d \in Word, k, l \in Parties :
               /\ k # l /\ in.w[in.i] \in Word
               /\ \A p \in Parties : InputShare(in, p, 0) = IF p = k THEN d
                                         ELSE IF p = l THEN Sub(in.enc, in.w[in.i], d) ELSE 0
<1> DEFINE k == (in.g + 3) % 4
           l == (in.h + 3) % 4
           d == ShareG(in, in.i)
<1>1. /\ in.g \in Parties /\ in.h \in Parties /\ in.g # in.h
      /\ in.i \in Parties /\ in.j \in Parties \ {in.i} /\ in.w[in.i] = in.w[in.j]
      /\ in.i # in.g /\ in.k \in Nat /\ in.w[in.i] \in Word
  BY PartiesOfInput DEF WellPut
<1>2. k \in Parties /\ l \in Parties /\ k # l
  <2>1. \A o, p \in {0, 1, 2, 3} : (o + 3) % 4 \in {0, 1, 2, 3} /\ (o # p => (o + 3) % 4 # (p + 3) % 4)
    OBVIOUS
  <2> QED BY <1>1, <2>1, Four
<1>3. d \in Word
  BY <1>1, FourTyped DEF ShareG
<1>4. \A p \in Parties : InputShare(in, p, 0) = IF p = k THEN d
                             ELSE IF p = l THEN Sub(in.enc, in.w[in.i], d) ELSE 0
  <2>1. 0 \in Index /\ \A p \in Parties : ShareOf(p, 0) = p
    <3>1. \A o \in {0, 1, 2, 3} : (o + 0) % 4 = o
      OBVIOUS
    <3> QED BY <3>1, Four
  <2>2. \A p \in Parties : InputShare(in, p, 0) = IF ShareOf(p, 0) = k THEN d
                               ELSE IF ShareOf(p, 0) = l THEN ShareH(in, in.i) ELSE 0
    <3> SUFFICES ASSUME NEW p \in Parties
                 PROVE  InputShare(in, p, 0) = IF ShareOf(p, 0) = k THEN d
                               ELSE IF ShareOf(p, 0) = l THEN ShareH(in, in.i) ELSE 0
      OBVIOUS
    <3> DEFINE enc == in.enc
               i == in.i
               j == in.j
               n == in.k
               w == in.w
    <3>1. in = Input(enc, i, j, n, w) /\ i \in Parties /\ j \in Parties \ {i} /\ w[i] = w[j]
      BY <1>1
    <3> DEFINE it == Input(enc, i, j, n, w)
    <3> HIDE DEF enc, i, j, n, w
    <3>2. InputShare(it, p, 0) = IF ShareOf(p, 0) = (it.g + 3) % 4 THEN ShareG(it, i)
                                 ELSE IF ShareOf(p, 0) = (it.h + 3) % 4 THEN ShareH(it, i) ELSE 0
      BY <2>1, <3>1, InputShareIs
    <3>3. it = in
      BY <3>1
    <3> HIDE DEF it
    <3> QED BY <3>2, <3>3 DEF i
  <2>3. ShareH(in, in.i) = Sub(in.enc, in.w[in.i], d)
    BY DEF ShareH
  <2> HIDE DEF k, l, d
  <2> QED BY <2>1, <2>2, <2>3
<1> HIDE DEF k, l, d
<1> QED
  BY <1>1, <1>2, <1>3, <1>4

(* A joint input reconstructs to the word of its owners.                   *)
LEMMA InputReconstructs ==
    ASSUME FourPartiesAssumption, WordsDrawn, GeneratorsInStep, Typed, NEW in, WellPut(in),
           in = Input(in.enc, in.i, in.j, in.k, in.w)
    PROVE  Reconstruct(in.enc, inp(in)) = in.w[in.i]
<1> DEFINE enc == in.enc
           w == in.w[in.i]
           s == inp(in)
<1>1. PICK d \in Word, k \in Parties, l \in Parties :
          /\ k # l /\ w \in Word
          /\ \A p \in Parties : InputShare(in, p, 0) = IF p = k THEN d
                                    ELSE IF p = l THEN Sub(enc, w, d) ELSE 0
  BY InputFirsts
<1>2. FourShares /\ 0 \in Index
  BY FourAreFour, FourFacts
<1>3. s \in Shares /\ \A p \in Parties : s[p][0] = InputShare(in, p, 0)
  BY <1>2, InputTyped DEF inp
<1> HIDE DEF enc, w, s
<1>4. \A p \in Parties : s[p][0] = IF p = k THEN d ELSE IF p = l THEN Sub(enc, w, d) ELSE 0
  BY <1>1, <1>3
<1>5. Reconstruct(enc, s) = w
  BY <1>1, <1>2, <1>3, <1>4, FourInput
<1> QED
  BY <1>5 DEF enc, s, w

(* Numbers of those shares whose sum is a number of the word.              *)
LEMMA InputNumbers ==
    ASSUME FourPartiesAssumption, WordsDrawn, GeneratorsInStep, Typed, NEW in, WellPut(in),
           in = Input(in.enc, in.i, in.j, in.k, in.w),
           NEW i \in Places, NEW c, Num(in.enc, i, in.w[in.i], c)
    PROVE  \E t : /\ \A p \in Parties : Num(in.enc, i, InputShare(in, p, 0), t[p])
                  /\ FourInts(t) /\ t[0] + t[1] + t[2] + t[3] = c
<1> DEFINE enc == in.enc
           w == in.w[in.i]
<1>1. PICK d \in Word, k \in Parties, l \in Parties :
          /\ k # l /\ w \in Word
          /\ \A p \in Parties : InputShare(in, p, 0) = IF p = k THEN d
                                    ELSE IF p = l THEN Sub(enc, w, d) ELSE 0
  BY InputFirsts
<1>2. BitsAssumption /\ Num(enc, i, w, c) /\ Parties = {0, 1, 2, 3}
  BY Four, FourTyped
<1> HIDE DEF enc, w
<1>3. PICK b : Num(enc, i, d, b)
  BY <1>1, <1>2, HasNumber
<1>4. Num(enc, i, Sub(enc, w, d), c - b) /\ Num(enc, i, 0, 0) /\ b \in Int /\ c \in Int
  <2>1. Num(enc, i, Sub(enc, w, d), c - b)
    BY <1>1, <1>2, <1>3, NumbersCompute
  <2>2. Num(enc, i, 0, 0)
    BY <1>2, ZeroNumber
  <2>3. b \in Int /\ c \in Int
    BY <1>2, <1>3 DEF Num
  <2> QED BY <2>1, <2>2, <2>3
<1> DEFINE t == [p \in Parties |-> IF p = k THEN b ELSE IF p = l THEN c - b ELSE 0]
<1>5. \A p \in Parties : Num(enc, i, InputShare(in, p, 0), t[p])
  BY <1>1, <1>3, <1>4
<1>6. FourInts(t) /\ t[0] + t[1] + t[2] + t[3] = c
  <2> DEFINE o(p) == IF p = k THEN b ELSE IF p = l THEN c - b ELSE 0
  <2>1. t[0] = o(0) /\ t[1] = o(1) /\ t[2] = o(2) /\ t[3] = o(3)
    BY <1>2
  <2>2. o(0) \in Int /\ o(1) \in Int /\ o(2) \in Int /\ o(3) \in Int
    BY <1>4
  <2>3. o(0) + o(1) + o(2) + o(3) = c
    BY <1>1, <1>2, <1>4
  <2> HIDE DEF o, t
  <2> QED BY <2>1, <2>2, <2>3 DEF FourInts
<1> HIDE DEF t
<1> QED
  BY <1>5, <1>6 DEF enc

(* The shares that the parties of a cross term both hold, and that are     *)
(* multiplied with each other.                                             *)
Pairs == << <<1, 2>>, <<0, 2>>, <<0, 1>>, <<2, 3>>, <<1, 3>>, <<3, 0>> >>

(* Each is an input, by two parties, of the two products of one pair of    *)
(* shares.                                                                 *)
LEMMA CrossTermIs ==
    ASSUME FourPartiesAssumption, NEW enc, NEW x, Agrees(x), NEW y, Agrees(y), NEW k, NEW n \in 1 .. 6
    PROVE  LET in == CrossTerms(enc, x, y, k)[n]
               q == Pairs[n][1]
               r == Pairs[n][2]
           IN  /\ in = Input(in.enc, in.i, in.j, in.k, in.w) /\ in.enc = enc
               /\ q \in Parties /\ r \in Parties
               /\ in.w[in.i] = Add(enc, Mul(enc, x[r][0], y[q][0]), Mul(enc, x[q][0], y[r][0]))
<1> DEFINE i == SenderPairs[n][1]
           j == SenderPairs[n][2]
           g == PairReceiver[n]
           h == excluded_party(i, j, g)
           w == Cross(enc, x, y, g, h)
           m == k[g] + Earlier(n)
           in == CrossTerms(enc, x, y, k)[n]
           q == Pairs[n][1]
           r == Pairs[n][2]
<1>1. in = Input(enc, i, j, m, w)
  BY DEF CrossTerms, CrossTerm
<1>2. i \in Parties /\ j \in Parties \ {i} /\ g = next_party(i, j)
  BY Four DEF SenderPairs, PairReceiver
<1>3. q = (g + 3) % 4 /\ r = (h + 3) % 4
  <2>1. \A a, b, c : <<a, b>>[1] = a /\ <<a, b>>[2] = b
    OBVIOUS
  <2>2. /\ next_party(0, 1) = 2 /\ next_party(0, 2) = 1 /\ next_party(0, 3) = 1
        /\ next_party(1, 2) = 3 /\ next_party(1, 3) = 2 /\ next_party(2, 3) = 0
    BY DEF next_party
  <2>3. /\ excluded_party(0, 1, 2) = 3 /\ excluded_party(0, 2, 1) = 3 /\ excluded_party(0, 3, 1) = 2
        /\ excluded_party(1, 2, 3) = 0 /\ excluded_party(1, 3, 2) = 0 /\ excluded_party(2, 3, 0) = 1
    BY DEF excluded_party
  <2>4. (0 + 3) % 4 = 3 /\ (1 + 3) % 4 = 0 /\ (2 + 3) % 4 = 1 /\ (3 + 3) % 4 = 2
    OBVIOUS
  <2>5. n = 1 \/ n = 2 \/ n = 3 \/ n = 4 \/ n = 5 \/ n = 6
    OBVIOUS
  <2>6. g = next_party(i, j) /\ h = excluded_party(i, j, g)
    BY <1>2
  <2>7. \/ i = 0 /\ j = 1 /\ q = 1 /\ r = 2
        \/ i = 0 /\ j = 2 /\ q = 0 /\ r = 2
        \/ i = 0 /\ j = 3 /\ q = 0 /\ r = 1
        \/ i = 1 /\ j = 2 /\ q = 2 /\ r = 3
        \/ i = 1 /\ j = 3 /\ q = 1 /\ r = 3
        \/ i = 2 /\ j = 3 /\ q = 3 /\ r = 0
    BY <2>1, <2>5 DEF SenderPairs, Pairs
  <2> HIDE DEF i, j, g, h, q, r
  <2> QED BY <2>2, <2>3, <2>4, <2>6, <2>7
<1> HIDE DEF i, j, m, in, q, r
<1>4. /\ g \in Parties /\ h \in Parties /\ i # g /\ i # h /\ g # h
  BY <1>2, PartiesOfInput
<1>5. w[i] = Add(enc, Mul(enc, x[i][abs2sh(i, h)], y[i][abs2sh(i, g)]),
                      Mul(enc, x[i][abs2sh(i, g)], y[i][abs2sh(i, h)]))
  BY <1>2, <1>4 DEF Cross, Without
<1> HIDE DEF g, h, w
<1>6. /\ q \in Parties /\ r \in Parties
      /\ x[i][abs2sh(i, g)] = x[q][0] /\ y[i][abs2sh(i, g)] = y[q][0]
      /\ x[i][abs2sh(i, h)] = x[r][0] /\ y[i][abs2sh(i, h)] = y[r][0]
  BY <1>2, <1>3, <1>4, FirstOf
<1>7. in.enc = enc /\ in.i = i /\ in.j = j /\ in.k = m /\ in.w = w
  BY <1>1 DEF Input
<1>8. in = Input(in.enc, in.i, in.j, in.k, in.w)
  BY <1>1, <1>7
<1>9. in.w[in.i] = Add(enc, Mul(enc, x[r][0], y[q][0]), Mul(enc, x[q][0], y[r][0]))
  BY <1>5, <1>6, <1>7
<1> QED
  BY <1>6, <1>7, <1>8, <1>9 DEF in, q, r

(* Sums of six.                                                            *)
LEMMA TotalOfSix ==
    ASSUME NEW a, \A n \in 1 .. 6 : a[n] \in Int
    PROVE  Total(1 .. 6, a) = a[1] + a[2] + a[3] + a[4] + a[5] + a[6]
<1>1. /\ Term(1 .. 6, a, 0) = 0
      /\ Term(1 .. 6, a, 1) = a[1] /\ Term(1 .. 6, a, 2) = a[2] /\ Term(1 .. 6, a, 3) = a[3]
      /\ Term(1 .. 6, a, 4) = a[4] /\ Term(1 .. 6, a, 5) = a[5] /\ Term(1 .. 6, a, 6) = a[6]
  BY DEF Term
<1>2. /\ a[1] \in Int /\ a[2] \in Int /\ a[3] \in Int
      /\ a[4] \in Int /\ a[5] \in Int /\ a[6] \in Int
  OBVIOUS
<1>3. PICK b1 \in Int, b2 \in Int, b3 \in Int : b1 = a[1] /\ b2 = a[2] /\ b3 = a[3]
  BY <1>2
<1>4. PICK b4 \in Int, b5 \in Int, b6 \in Int : b4 = a[4] /\ b5 = a[5] /\ b6 = a[6]
  BY <1>2
<1>5. Total(1 .. 6, a) = 0 + b1 + b2 + b3 + b4 + b5 + b6
  BY <1>1, <1>3, <1>4, Zenon DEF Total
<1>6. 0 + b1 + b2 + b3 + b4 + b5 + b6 = b1 + b2 + b3 + b4 + b5 + b6
  OBVIOUS
<1> QED
  BY <1>3, <1>4, <1>5, <1>6, Zenon

(* What the parties get of the six cross terms, summed by parties or by    *)
(* terms.                                                                  *)
SixOf(T, p) == T[1][p] + T[2][p] + T[3][p] + T[4][p] + T[5][p] + T[6][p]

(* Both ways give the same total.                                          *)
LEMMA SumByTerms ==
    ASSUME NEW T, \A n \in 1 .. 6 : FourInts(T[n]),
           NEW c, \A n \in 1 .. 6 : T[n][0] + T[n][1] + T[n][2] + T[n][3] = c[n]
    PROVE  /\ SixOf(T, 0) \in Int /\ SixOf(T, 1) \in Int /\ SixOf(T, 2) \in Int /\ SixOf(T, 3) \in Int
           /\ SixOf(T, 0) + SixOf(T, 1) + SixOf(T, 2) + SixOf(T, 3)
                  = c[1] + c[2] + c[3] + c[4] + c[5] + c[6]
<1>1. \A n \in 1 .. 6 : \E u0, u1, u2, u3 \in Int :
          /\ T[n][0] = u0 /\ T[n][1] = u1 /\ T[n][2] = u2 /\ T[n][3] = u3
          /\ c[n] = u0 + u1 + u2 + u3
  BY DEF FourInts
<1>n. 1 \in 1 .. 6 /\ 2 \in 1 .. 6 /\ 3 \in 1 .. 6 /\ 4 \in 1 .. 6 /\ 5 \in 1 .. 6 /\ 6 \in 1 .. 6
  OBVIOUS
<1>2. PICK a0 \in Int, a1 \in Int, a2 \in Int, a3 \in Int :
          /\ T[1][0] = a0 /\ T[1][1] = a1 /\ T[1][2] = a2 /\ T[1][3] = a3 /\ c[1] = a0 + a1 + a2 + a3
  BY <1>1, <1>n, Zenon
<1>3. PICK b0 \in Int, b1 \in Int, b2 \in Int, b3 \in Int :
          /\ T[2][0] = b0 /\ T[2][1] = b1 /\ T[2][2] = b2 /\ T[2][3] = b3 /\ c[2] = b0 + b1 + b2 + b3
  BY <1>1, <1>n, Zenon
<1>4. PICK d0 \in Int, d1 \in Int, d2 \in Int, d3 \in Int :
          /\ T[3][0] = d0 /\ T[3][1] = d1 /\ T[3][2] = d2 /\ T[3][3] = d3 /\ c[3] = d0 + d1 + d2 + d3
  BY <1>1, <1>n, Zenon
<1>5. PICK e0 \in Int, e1 \in Int, e2 \in Int, e3 \in Int :
          /\ T[4][0] = e0 /\ T[4][1] = e1 /\ T[4][2] = e2 /\ T[4][3] = e3 /\ c[4] = e0 + e1 + e2 + e3
  BY <1>1, <1>n, Zenon
<1>6. PICK f0 \in Int, f1 \in Int, f2 \in Int, f3 \in Int :
          /\ T[5][0] = f0 /\ T[5][1] = f1 /\ T[5][2] = f2 /\ T[5][3] = f3 /\ c[5] = f0 + f1 + f2 + f3
  BY <1>1, <1>n, Zenon
<1>7. PICK g0 \in Int, g1 \in Int, g2 \in Int, g3 \in Int :
          /\ T[6][0] = g0 /\ T[6][1] = g1 /\ T[6][2] = g2 /\ T[6][3] = g3 /\ c[6] = g0 + g1 + g2 + g3
  BY <1>1, <1>n, Zenon
<1>8. /\ SixOf(T, 0) = a0 + b0 + d0 + e0 + f0 + g0 /\ SixOf(T, 1) = a1 + b1 + d1 + e1 + f1 + g1
      /\ SixOf(T, 2) = a2 + b2 + d2 + e2 + f2 + g2 /\ SixOf(T, 3) = a3 + b3 + d3 + e3 + f3 + g3
  BY <1>2, <1>3, <1>4, <1>5, <1>6, <1>7, Zenon DEF SixOf
<1>9. c[1] + c[2] + c[3] + c[4] + c[5] + c[6]
          = (a0 + a1 + a2 + a3) + (b0 + b1 + b2 + b3) + (d0 + d1 + d2 + d3)
            + (e0 + e1 + e2 + e3) + (f0 + f1 + f2 + f3) + (g0 + g1 + g2 + g3)
  BY <1>2, <1>3, <1>4, <1>5, <1>6, <1>7, Zenon
<1> QED
  BY <1>8, <1>9

(* The shares of a product add up to the product: what the parties         *)
(* multiply for themselves are the squares, and every other product of two *)
(* shares is half of a cross term.                                         *)
LEMMA ProductReconstructs ==
    ASSUME FourPartiesAssumption, WordsDrawn, GeneratorsInStep, Typed,
           NEW enc, NEW x, Fine(x), NEW y, Fine(y), NEW k, k \in [Parties -> Nat]
    PROVE  Reconstruct(enc, Product(enc, x, y, CrossTerms(enc, x, y, k)))
               = Mul(enc, Reconstruct(enc, x), Reconstruct(enc, y))
<1> DEFINE terms == CrossTerms(enc, x, y, k)
           u == Product(enc, x, y, terms)
           rx == Reconstruct(enc, x)
           ry == Reconstruct(enc, y)
           parts(p) == [n \in 1 .. 6 |-> InputShare(terms[n], p, 0)]
           own(p) == Mul(enc, x[p][0], y[p][0])
<1>1. /\ FourShares /\ FewParties /\ BitsAssumption /\ x \in Shares /\ y \in Shares /\ u \in Shares
      /\ Agrees(x) /\ Agrees(y)
      /\ Parties = {0, 1, 2, 3} /\ 0 \in Index
      /\ 0 \in Parties /\ 1 \in Parties /\ 2 \in Parties /\ 3 \in Parties
      /\ \A p \in Parties, i \in Index : x[p][i] \in Word /\ y[p][i] \in Word
  BY Four, FourAreFour, FourFacts, ProductFine DEF Fine, Shares
<1>2. rx \in Word /\ ry \in Word /\ Reconstruct(enc, u) \in Word
  BY <1>1, ReconstructIsWord
<1>3. \A p \in Parties : u[p][0] = Add(enc, own(p), SumOver(enc, 1 .. 6, parts(p)))
  BY <1>1 DEF Product
<1>4. /\ \A n \in 1 .. 6 : WellPut(terms[n])
      /\ \A n \in 1 .. 6 : \A p \in Parties : InputShare(terms[n], p, 0) \in Word
  BY <1>1, CrossTermsPut, InputTyped
<1>5. \A n \in 1 .. 6 :
          /\ terms[n] = Input(terms[n].enc, terms[n].i, terms[n].j, terms[n].k, terms[n].w)
          /\ terms[n].enc = enc
          /\ Pairs[n][1] \in Parties /\ Pairs[n][2] \in Parties
          /\ terms[n].w[terms[n].i] = Add(enc, Mul(enc, x[Pairs[n][2]][0], y[Pairs[n][1]][0]),
                                               Mul(enc, x[Pairs[n][1]][0], y[Pairs[n][2]][0]))
  BY <1>1, CrossTermIs
<1> HIDE DEF u, terms
<1>6. ASSUME NEW i \in Places
      PROVE  \E n : Num(enc, i, Reconstruct(enc, u), n) /\ Num(enc, i, Mul(enc, rx, ry), n)
  <2>1. PICK a : Firsts(enc, i, x, a)
    BY <1>1, SharesHaveNumbers
  <2>2. PICK b : Firsts(enc, i, y, b)
    BY <1>1, SharesHaveNumbers
  <2>3. FourInts(a) /\ FourInts(b) /\ \A p \in Parties : a[p] \in Int /\ b[p] \in Int
    BY <1>1, <2>1, <2>2 DEF Firsts, Num, FourInts
  <2>4. \A p, q \in Parties : /\ Mul(enc, x[p][0], y[q][0]) \in Word
                              /\ Num(enc, i, Mul(enc, x[p][0], y[q][0]), a[p] * b[q])
    <3>1. \A p \in Parties : /\ x[p][0] \in Word /\ Num(enc, i, x[p][0], a[p])
                             /\ y[p][0] \in Word /\ Num(enc, i, y[p][0], b[p])
      BY <1>1, <2>1, <2>2 DEF Firsts
    <3> QED BY <1>1, <3>1, NumbersCompute, SharesClosed
  <2> DEFINE c == [n \in 1 .. 6 |-> a[Pairs[n][2]] * b[Pairs[n][1]] + a[Pairs[n][1]] * b[Pairs[n][2]]]
             Shown(n, t) == /\ \A p \in Parties : Num(enc, i, InputShare(terms[n], p, 0), t[p])
                            /\ FourInts(t) /\ t[0] + t[1] + t[2] + t[3] = c[n]
             T == [n \in 1 .. 6 |-> CHOOSE t : Shown(n, t)]
  <2>5. \A n \in 1 .. 6 : Shown(n, T[n])
    <3> SUFFICES ASSUME NEW n \in 1 .. 6
                 PROVE  \E t : Shown(n, t)
      OBVIOUS
    <3> DEFINE in == terms[n]
               q == Pairs[n][1]
               r == Pairs[n][2]
               d == a[r] * b[q] + a[q] * b[r]
    <3>1. c[n] = d
      OBVIOUS
    <3>2. /\ WellPut(in) /\ in = Input(in.enc, in.i, in.j, in.k, in.w) /\ in.enc = enc
          /\ q \in Parties /\ r \in Parties
          /\ in.w[in.i] = Add(enc, Mul(enc, x[r][0], y[q][0]), Mul(enc, x[q][0], y[r][0]))
      BY <1>4, <1>5
    <3> HIDE DEF in, q, r
    <3>3. Num(in.enc, i, in.w[in.i], d)
      <4> DEFINE v == Mul(enc, x[r][0], y[q][0])
                 w == Mul(enc, x[q][0], y[r][0])
      <4>1. /\ v \in Word /\ Num(enc, i, v, a[r] * b[q])
            /\ w \in Word /\ Num(enc, i, w, a[q] * b[r])
        BY <2>4, <3>2
      <4>2. in.w[in.i] = Add(enc, v, w)
        BY <3>2
      <4> HIDE DEF v, w
      <4>3. Num(enc, i, Add(enc, v, w), a[r] * b[q] + a[q] * b[r])
        BY <1>1, <4>1, NumbersCompute
      <4> QED BY <3>2, <4>2, <4>3
    <3> HIDE DEF d, c
    <3>4. \E t : /\ \A p \in Parties : Num(in.enc, i, InputShare(in, p, 0), t[p])
                 /\ FourInts(t) /\ t[0] + t[1] + t[2] + t[3] = d
      BY <3>2, <3>3, InputNumbers
    <3>5. \E t : /\ \A p \in Parties : Num(enc, i, InputShare(in, p, 0), t[p])
                 /\ FourInts(t) /\ t[0] + t[1] + t[2] + t[3] = c[n]
      BY <3>1, <3>2, <3>4
    <3> QED BY <3>5 DEF in
  <2>6. /\ c[1] = a[2] * b[1] + a[1] * b[2] /\ c[2] = a[2] * b[0] + a[0] * b[2]
        /\ c[3] = a[1] * b[0] + a[0] * b[1] /\ c[4] = a[3] * b[2] + a[2] * b[3]
        /\ c[5] = a[3] * b[1] + a[1] * b[3] /\ c[6] = a[0] * b[3] + a[3] * b[0]
    <3>1. \A n \in 1 .. 6 : c[n] = a[Pairs[n][2]] * b[Pairs[n][1]] + a[Pairs[n][1]] * b[Pairs[n][2]]
      OBVIOUS
    <3>2. /\ Pairs[1][1] = 1 /\ Pairs[1][2] = 2 /\ Pairs[2][1] = 0 /\ Pairs[2][2] = 2
          /\ Pairs[3][1] = 0 /\ Pairs[3][2] = 1 /\ Pairs[4][1] = 2 /\ Pairs[4][2] = 3
          /\ Pairs[5][1] = 1 /\ Pairs[5][2] = 3 /\ Pairs[6][1] = 3 /\ Pairs[6][2] = 0
      BY DEF Pairs
    <3>3. 1 \in 1 .. 6 /\ 2 \in 1 .. 6 /\ 3 \in 1 .. 6 /\ 4 \in 1 .. 6 /\ 5 \in 1 .. 6 /\ 6 \in 1 .. 6
      OBVIOUS
    <3> HIDE DEF c
    <3> QED BY <3>1, <3>2, <3>3
  <2>7. \A n \in 1 .. 6 : FourInts(T[n]) /\ T[n][0] + T[n][1] + T[n][2] + T[n][3] = c[n]
    BY <2>5
  <2>8. \A n \in 1 .. 6 : \A p \in Parties : Num(enc, i, InputShare(terms[n], p, 0), T[n][p]) /\ T[n][p] \in Int
    <3>1. \A n \in 1 .. 6 : \A p \in Parties : Num(enc, i, InputShare(terms[n], p, 0), T[n][p])
      BY <2>5
    <3> HIDE DEF T
    <3> QED BY <3>1 DEF Num
  <2> HIDE DEF c, T
  <2> DEFINE mine(p) == a[p] * b[p] + SixOf(T, p)
  <2>9. ASSUME NEW p \in Parties PROVE Num(enc, i, u[p][0], mine(p))
    <3> DEFINE f == parts(p)
               e == [n \in 1 .. 6 |-> T[n][p]]
               v == SumOver(enc, 1 .. 6, f)
               w == own(p)
    <3>1. 1 .. 6 \subseteq 0 .. 6 /\ IsFiniteSet(1 .. 6)
      <4>1. 1 \in Int /\ 6 \in Int /\ 1 .. 6 \subseteq 0 .. 6
        OBVIOUS
      <4> QED BY <4>1, FS_Interval, Zenon
    <3>2. Nums(enc, i, 1 .. 6, f, e) /\ \A n \in 1 .. 6 : f[n] \in Word
      BY <1>4, <2>8 DEF Nums
    <3>3. Total(1 .. 6, e) = SixOf(T, p)
      <4>1. \A n \in 1 .. 6 : e[n] \in Int /\ e[n] = T[n][p]
        BY <2>8
      <4>2. /\ e[1] = T[1][p] /\ e[2] = T[2][p] /\ e[3] = T[3][p]
            /\ e[4] = T[4][p] /\ e[5] = T[5][p] /\ e[6] = T[6][p]
        BY <4>1
      <4> HIDE DEF e
      <4>3. Total(1 .. 6, e) = e[1] + e[2] + e[3] + e[4] + e[5] + e[6]
        BY <4>1, TotalOfSix
      <4> QED BY <4>2, <4>3, Zenon DEF SixOf
    <3> HIDE DEF f, e
    <3>4. v \in Word /\ Num(enc, i, v, SixOf(T, p))
      <4>1. v \in Word
        BY <1>1, <3>1, <3>2, SumIsWord
      <4>2. Num(enc, i, v, Total(1 .. 6, e))
        BY <1>1, <3>1, <3>2, SumNumber
      <4> QED BY <3>3, <4>1, <4>2
    <3>5. w \in Word /\ Num(enc, i, w, a[p] * b[p])
      BY <2>4
    <3>6. u[p][0] = Add(enc, w, v)
      BY <1>3 DEF f
    <3> HIDE DEF v, w, own
    <3> QED BY <1>1, <3>4, <3>5, <3>6, NumbersCompute
  <2>10. Num(enc, i, Reconstruct(enc, u), mine(0) + mine(1) + mine(2) + mine(3))
    <3>1. /\ Num(enc, i, u[0][0], mine(0)) /\ Num(enc, i, u[1][0], mine(1))
          /\ Num(enc, i, u[2][0], mine(2)) /\ Num(enc, i, u[3][0], mine(3))
      BY <1>1, <2>9
    <3> HIDE DEF mine
    <3> QED BY <1>1, <3>1, FourAddUp
  <2>11. Num(enc, i, Mul(enc, rx, ry), (a[0] + a[1] + a[2] + a[3]) * (b[0] + b[1] + b[2] + b[3]))
    <3>1. Num(enc, i, rx, a[0] + a[1] + a[2] + a[3]) /\ Num(enc, i, ry, b[0] + b[1] + b[2] + b[3])
      <4>1. /\ Num(enc, i, x[0][0], a[0]) /\ Num(enc, i, x[1][0], a[1])
            /\ Num(enc, i, x[2][0], a[2]) /\ Num(enc, i, x[3][0], a[3])
            /\ Num(enc, i, y[0][0], b[0]) /\ Num(enc, i, y[1][0], b[1])
            /\ Num(enc, i, y[2][0], b[2]) /\ Num(enc, i, y[3][0], b[3])
        BY <1>1, <2>1, <2>2 DEF Firsts
      <4> QED BY <1>1, <4>1, FourAddUp
    <3> HIDE DEF rx, ry
    <3> QED BY <1>1, <1>2, <3>1, NumbersCompute
  <2>12. mine(0) + mine(1) + mine(2) + mine(3)
             = (a[0] + a[1] + a[2] + a[3]) * (b[0] + b[1] + b[2] + b[3])
    <3>1. /\ SixOf(T, 0) \in Int /\ SixOf(T, 1) \in Int /\ SixOf(T, 2) \in Int /\ SixOf(T, 3) \in Int
          /\ SixOf(T, 0) + SixOf(T, 1) + SixOf(T, 2) + SixOf(T, 3)
                 = c[1] + c[2] + c[3] + c[4] + c[5] + c[6]
      BY <2>7, SumByTerms
    <3>2. /\ a[0] \in Int /\ a[1] \in Int /\ a[2] \in Int /\ a[3] \in Int
          /\ b[0] \in Int /\ b[1] \in Int /\ b[2] \in Int /\ b[3] \in Int
      BY <2>3 DEF FourInts
    <3>a0. PICK m00 \in Int, m01 \in Int, m02 \in Int, m03 \in Int :
              m00 = a[0] * b[0] /\ m01 = a[0] * b[1] /\ m02 = a[0] * b[2] /\ m03 = a[0] * b[3]
      BY <3>2
    <3>a1. PICK m10 \in Int, m11 \in Int, m12 \in Int, m13 \in Int :
              m10 = a[1] * b[0] /\ m11 = a[1] * b[1] /\ m12 = a[1] * b[2] /\ m13 = a[1] * b[3]
      BY <3>2
    <3>a2. PICK m20 \in Int, m21 \in Int, m22 \in Int, m23 \in Int :
              m20 = a[2] * b[0] /\ m21 = a[2] * b[1] /\ m22 = a[2] * b[2] /\ m23 = a[2] * b[3]
      BY <3>2
    <3>a3. PICK m30 \in Int, m31 \in Int, m32 \in Int, m33 \in Int :
              m30 = a[3] * b[0] /\ m31 = a[3] * b[1] /\ m32 = a[3] * b[2] /\ m33 = a[3] * b[3]
      BY <3>2
    <3>3. PICK s0 \in Int, s1 \in Int, s2 \in Int, s3 \in Int :
              s0 = SixOf(T, 0) /\ s1 = SixOf(T, 1) /\ s2 = SixOf(T, 2) /\ s3 = SixOf(T, 3)
      BY <3>1
    <3>4. (a[0] + a[1] + a[2] + a[3]) * (b[0] + b[1] + b[2] + b[3])
              = (m00 + m11 + m22 + m33) + (m01 + m10) + (m02 + m20)
                + (m03 + m30) + (m12 + m21) + (m13 + m31) + (m23 + m32)
      BY <2>3, <3>a0, <3>a1, <3>a2, <3>a3, SixteenTerms, Zenon
    <3>5. s0 + s1 + s2 + s3 = (m21 + m12) + (m20 + m02) + (m10 + m01)
                              + (m32 + m23) + (m31 + m13) + (m03 + m30)
      BY <2>6, <3>1, <3>3, <3>a0, <3>a1, <3>a2, <3>a3, Zenon
    <3>6. (m00 + s0) + (m11 + s1) + (m22 + s2) + (m33 + s3)
              = (m00 + m11 + m22 + m33) + (m01 + m10) + (m02 + m20)
                + (m03 + m30) + (m12 + m21) + (m13 + m31) + (m23 + m32)
      BY <3>5
    <3> QED BY <3>a0, <3>a1, <3>a2, <3>a3, <3>3, <3>4, <3>6, Zenon
  <2> HIDE DEF mine, rx, ry
  <2> QED BY <2>10, <2>11, <2>12
<1>7. Mul(enc, rx, ry) \in Word
  <2> HIDE DEF rx, ry
  <2> QED BY <1>1, <1>2, SharesClosed
<1> HIDE DEF rx, ry
<1>8. Reconstruct(enc, u) = Mul(enc, rx, ry)
  BY <1>1, <1>2, <1>6, <1>7, SameNumbers
<1> QED
  BY <1>8 DEF u, terms, rx, ry

(* Share s of a vector: party s holds it first.                            *)
LEMMA ShareIs ==
    ASSUME FourPartiesAssumption, NEW x, Agrees(x)
    PROVE  \A p \in Parties, i \in Index : x[p][i] = x[(p + i) % 4][0]
<1> SUFFICES ASSUME NEW p \in Parties, NEW i \in Index
             PROVE  x[p][i] = x[(p + i) % 4][0]
  OBVIOUS
<1>1. (p + i) % 4 \in Parties /\ 0 \in Index
  BY Four, Mod4
<1>2. ShareOf(p, i) = ShareOf((p + i) % 4, 0)
  BY <1>1, Four, Mod4
<1> QED
  BY <1>1, <1>2 DEF Agrees

(* All shares of a vector, by name.                                        *)
LEMMA AllShares ==
    ASSUME FourPartiesAssumption, NEW x, Agrees(x)
    PROVE  /\ x[0][1] = x[1][0] /\ x[0][2] = x[2][0]
           /\ x[1][1] = x[2][0] /\ x[1][2] = x[3][0]
           /\ x[2][1] = x[3][0] /\ x[2][2] = x[0][0]
           /\ x[3][1] = x[0][0] /\ x[3][2] = x[1][0]
<1>1. \A p \in {0, 1, 2, 3}, i \in {0, 1, 2} : x[p][i] = x[(p + i) % 4][0]
  BY ShareIs, Four
<1>2. /\ (0 + 1) % 4 = 1 /\ (0 + 2) % 4 = 2 /\ (1 + 1) % 4 = 2 /\ (1 + 2) % 4 = 3
      /\ (2 + 1) % 4 = 3 /\ (2 + 2) % 4 = 0 /\ (3 + 1) % 4 = 0 /\ (3 + 2) % 4 = 1
  OBVIOUS
<1> QED
  BY <1>1, <1>2

-----------------------------------------------------------------------------
(* Sum and difference of two vectors of numbers.                           *)
LEMMA LocalSums ==
    ASSUME FourPartiesAssumption, NEW s, Fine(s), NEW t, Fine(t)
    PROVE  /\ Reconstruct("A", Local(Plus, s, t)) = Plus(Reconstruct("A", s), Reconstruct("A", t))
           /\ Reconstruct("A", Local(Minus, s, t)) = Minus(Reconstruct("A", s), Reconstruct("A", t))
<1> DEFINE u == Local(Plus, s, t)
           v == Local(Minus, s, t)
<1>1. FewParties /\ BitsAssumption /\ s \in Shares /\ t \in Shares /\ 0 \in Index
  BY FourAreFour, FourFacts DEF Fine
<1>2. u \in Shares /\ v \in Shares
  BY <1>1, LocalFine DEF Fine
<1>3. \A a, b : Add("A", a, b) = Plus(a, b) /\ Sub("A", a, b) = Minus(a, b)
  BY DEF Add, Sub
<1>4. \A p \in Parties : u[p][0] = Plus(s[p][0], t[p][0]) /\ v[p][0] = Minus(s[p][0], t[p][0])
  BY <1>1 DEF Local
<1> HIDE DEF u, v
<1>5. \A p \in Parties : u[p][0] = Add("A", s[p][0], t[p][0]) /\ v[p][0] = Sub("A", s[p][0], t[p][0])
  BY <1>3, <1>4
<1>6. /\ Reconstruct("A", u) = Add("A", Reconstruct("A", s), Reconstruct("A", t))
      /\ Reconstruct("A", v) = Sub("A", Reconstruct("A", s), Reconstruct("A", t))
  BY <1>1, <1>2, <1>5, LocalReconstructs
<1> QED
  BY <1>3, <1>6 DEF u, v

(* The halves of a vector, by its shares.                                  *)
LEMMA HalvesAre ==
    ASSUME FourPartiesAssumption, NEW x, NEW s, s = view[x].sh, Agrees(s)
    PROVE  /\ Part(x, 3) = Plus(s[3][0], s[0][0]) /\ Part(x, 1) = Plus(s[1][0], s[2][0])
           /\ HalfBit(x, 3) = Xor(LSB(s[3][0]), LSB(s[0][0]))
           /\ HalfBit(x, 1) = Xor(LSB(s[1][0]), LSB(s[2][0]))
<1>1. abs2sh(3, 0) = 0 /\ abs2sh(3, 1) = 1 /\ abs2sh(1, 2) = 0 /\ abs2sh(1, 3) = 1
  <2>1. \A p, n \in {0, 1, 2, 3} : p # n => abs2sh(p, n) = IF n > p THEN n - p - 1 ELSE n - p + 3
    BY Mod4 DEF abs2sh
  <2> QED BY <2>1
<1>2. /\ sh(x, 3, 0) = s[3][0] /\ sh(x, 3, 1) = s[0][0]
      /\ sh(x, 1, 2) = s[1][0] /\ sh(x, 1, 3) = s[2][0]
  BY <1>1, AllShares DEF sh
<1> QED
  BY <1>2 DEF Part, HalfBit

(* Every primitive of this protocol is one of the abstract machine.        *)
LEMMA HonestFacts ==
    ASSUME FourPartiesAssumption, WordsDrawn, Honest
    PROVE  /\ FourShares /\ TwoToFour /\ FewParties /\ SharingAssumption /\ BitsAssumption
           /\ Replicated /\ GeneratorsInStep /\ Typed /\ DOMAIN view = Registers /\ 0 \in Index
           /\ 0 \in Parties /\ 1 \in Parties /\ 2 \in Parties /\ 3 \in Parties
           /\ "A" \in Encodings /\ "B" \in Encodings /\ Inputs \subseteq Word
           /\ \A r \in Registers : /\ view[r].sh \in Shares /\ Agrees(view[r].sh) /\ Fine(view[r].sh)
                                   /\ view[r].enc \in Encodings \cup {"none"}
<1>1. /\ FourShares /\ TwoToFour /\ FewParties /\ SharingAssumption /\ BitsAssumption /\ 0 \in Index
      /\ 0 \in Parties /\ 1 \in Parties /\ 2 \in Parties /\ 3 \in Parties
  BY FourAreFour, FourFacts
<1>2. Replicated /\ GeneratorsInStep /\ Typed /\ DOMAIN view = Registers
  BY DEF Honest, Consistent, Typed
<1>3. "A" \in Encodings /\ "B" \in Encodings /\ \A r \in Registers : view[r].sh \in Shares
  BY <1>2, FourTyped
<1> QED
  BY <1>1, <1>2, <1>3 DEF Replicated, Typed, SharingTypeOK, Fine, SharingAssumption

(* Inputs, openings and resharings are the ideal ones.                     *)
LEMMA OnOneIsIdeal ==
    ASSUME FourPartiesAssumption, WordsDrawn, Honest, NEW x \in Registers, OnOne(x)
    PROVE  Ideal!Next
<1>0. /\ FourShares /\ TwoToFour /\ DOMAIN view = Registers /\ 0 \in Parties
      /\ view[x].sh \in Shares /\ Agrees(view[x].sh) /\ Typed /\ 0 \in Index
      /\ Inputs \subseteq Word
  BY HonestFacts
<1>1. ASSUME NEW enc \in Encodings, NEW w \in Inputs, Ideal!Share(x, enc, w) PROVE Ideal!Next
  <2>1. enc \in Ideal!Encodings /\ w \in Ideal!Word
    BY <1>0, IdealWords
  <2> QED BY <1>1, <2>1 DEF Ideal!Next
<1>2. ASSUME NEW enc \in Encodings, NEW w \in Inputs, NEW p \in Parties, SecretShare(x, enc, w, p, 1)
      PROVE  Ideal!Next
  BY <1>0, <1>1, <1>2, SecretShareIsIdeal
<1>3. ASSUME NEW enc \in Encodings, NEW w \in Inputs, NEW k \in Parties, PublicShare(x, enc, w, k)
      PROVE  Ideal!Next
  <2> DEFINE s == [p \in Parties |-> [i \in Index |-> IF p # k /\ i = abs2sh(p, k) THEN w ELSE 0]]
             l == (k + 3) % 4
  <2>1. Call("share", <<x, enc, w>>) /\ Write(x, Vector(enc, s))
    BY <1>3 DEF PublicShare
  <2>2. s \in Shares
    BY <1>0, FourFacts DEF Shares
  <2>3. l \in Parties /\ \A p \in Parties : ShareOf(p, 0) = p
    <3>1. \A o \in {0, 1, 2, 3} : (o + 0) % 4 = o /\ (o + 3) % 4 \in {0, 1, 2, 3}
      OBVIOUS
    <3> QED BY <3>1, Four
  <2>4. \A p \in Parties : s[p][0] = IF p = l THEN w ELSE 0
    BY <1>0, <2>3, OnlyAbs2sh
  <2> HIDE DEF s, l
  <2>5. Reconstruct(enc, s) = w
    BY <1>0, <2>2, <2>3, <2>4, FourPublic
  <2>6. Ideal!Share(x, enc, w)
    BY <1>0, <2>1, <2>5, ShareIsIdeal
  <2> QED BY <1>1, <2>6
<1>4. CASE OpenShares(x)
  <2> DEFINE enc == view[x].enc
             s == view[x].sh
  <2>1. \A p \in Parties : OpenedTo(x, p).sent = s[Rank(p, 3)][0]
    BY <1>0, OpenedSame
  <2>2. /\ enc # "none" /\ Call("open", <<x>>) /\ UNCHANGED view
        /\ opened' = [p \in Parties |-> Add(enc, SumOver(enc, Index, s[p]), OpenedTo(x, p).sent)]
    BY <1>4 DEF OpenShares, Open
  <2> HIDE DEF enc, s
  <2>3. \A p \in Parties : opened'[p] = Reconstruct(enc, s)
    <3>1. s \in Shares /\ Agrees(s)
      BY <1>0 DEF s
    <3>2. \A p \in Parties : opened'[p] = Add(enc, SumOver(enc, Index, s[p]), s[Rank(p, 3)][0])
      BY <2>1, <2>2
    <3> QED BY <1>0, <3>1, <3>2, FourOpened
  <2>4. Ideal!Open(x)
    BY <1>0, <2>2, <2>3, OpenIsIdeal DEF enc, s
  <2> QED BY <2>4 DEF Ideal!Next
<1>5. ASSUME NEW p \in Parties, Reshare(x, p) PROVE Ideal!Next
  BY <1>5, ReshareHonest DEF Ideal!Next
<1> QED
  BY <1>2, <1>3, <1>4, <1>5 DEF OnOne

(* So are the primitives of one operand,                                   *)
LEMMA OnTwoIsIdeal ==
    ASSUME FourPartiesAssumption, WordsDrawn, Honest,
           NEW x \in Registers, NEW z \in Registers, OnTwo(x, z)
    PROVE  Ideal!Elementwise(x, x, z)
<1> DEFINE s == view[x].sh
<1>0. /\ FourShares /\ FewParties /\ BitsAssumption /\ DOMAIN view = Registers /\ s \in Shares /\ Agrees(s)
      /\ GeneratorsInStep /\ Typed /\ "A" \in Encodings /\ "B" \in Encodings /\ 0 \in Index
      /\ 0 \in Parties /\ 1 \in Parties /\ 2 \in Parties /\ 3 \in Parties
      /\ \A p \in Parties, i \in Index : s[p][i] \in Word
  BY HonestFacts DEF Shares
<1>1. CASE NotB(x, z)
  <2> DEFINE third(p, i) == <<p, i>> \in {<<2, 0>>, <<1, 1>>, <<0, 2>>}
             u == [p \in Parties |-> [i \in Index |->
                     IF third(p, i) THEN Complement(s[p][i]) ELSE s[p][i]]]
  <2>1. Is(x, "B") /\ Call("not", <<x, z>>) /\ Write(z, Vector("B", u))
    BY <1>1 DEF NotB, Negating
  <2>2. u \in Shares
    BY <1>0, OnOneWord DEF Shares
  <2>3. \A p \in Parties : u[p][0] = IF p = 2 THEN Complement(s[p][0]) ELSE s[p][0]
    BY <1>0
  <2> HIDE DEF u, s
  <2>4. Reconstruct("B", u) = Complement(Reconstruct("B", s))
    BY <1>0, <2>2, <2>3, FourNot
  <2> QED BY <1>0, <2>1, <2>4, UnaryIsIdeal DEF s
<1>2. CASE NotB1(x, z)
  <2> DEFINE third(p, i) == <<p, i>> \in {<<2, 0>>, <<1, 1>>, <<0, 2>>}
             t == Masked(s)
             u == [p \in Parties |-> [i \in Index |->
                     IF third(p, i) THEN LogicalNot(t[p][i]) ELSE t[p][i]]]
  <2>1. Is(x, "B") /\ Call("not_1", <<x, z>>) /\ Write(z, Vector("B", u))
    BY <1>2 DEF NotB1, Not1Shares, Negating
  <2>2. \A p \in Parties, i \in Index : t[p][i] = LSB(s[p][i])
    BY DEF Masked
  <2>3. u \in Shares
    BY <1>0, <2>2, OnOneWord DEF Shares
  <2>4. \A p \in Parties : u[p][0] = IF p = 2 THEN LogicalNot(LSB(s[p][0])) ELSE LSB(s[p][0])
    BY <1>0, <2>2
  <2> HIDE DEF u, s
  <2>5. Reconstruct("B", u) = 1 - LSB(Reconstruct("B", s))
    BY <1>0, <2>3, <2>4, FourNot1
  <2> QED BY <1>0, <2>1, <2>5, UnaryIsIdeal DEF s
<1>3. CASE Mask(x, z) \/ LTZ(x, z)
  BY <1>0, <1>3, BitsAreIdeal
<1>4. CASE B2ABit(x, z)
  <2> DEFINE half == [p \in Parties |-> HalfBit(x, p)]
             share0 == Input("A", 1, 0, 0, half)
             share1 == Input("A", 3, 2, 0, half)
             difference == Local(Minus, inp(share0), inp(share1))
             k == [g \in Parties |-> IF g \in {share0.g, share1.g} THEN 1 ELSE 0]
             u == Product("A", difference, difference, CrossTerms("A", difference, difference, k))
             w == Reconstruct("B", s)
  <2>1. Is(x, "B") /\ Call("b2a_bit", <<x, z>>) /\ Write(z, Vector("A", u))
    BY <1>4, Zenon DEF B2ABit
  <2>2. half[1] = half[0] /\ half[3] = half[2] /\ \A p \in Parties : half[p] \in Word
    BY <1>0, Four, SameParts, PartsTyped
  <2>3. half[3] = Xor(LSB(s[3][0]), LSB(s[0][0])) /\ half[1] = Xor(LSB(s[1][0]), LSB(s[2][0]))
    BY <1>0, HalvesAre
  <2> HIDE DEF half
  <2>4. /\ WellPut(share0) /\ share0 = Input(share0.enc, share0.i, share0.j, share0.k, share0.w)
        /\ WellPut(share1) /\ share1 = Input(share1.enc, share1.i, share1.j, share1.k, share1.w)
    BY <2>2, Four DEF WellPut, Input
  <2>5. /\ share0.enc = "A" /\ share0.w[share0.i] = half[1]
        /\ share1.enc = "A" /\ share1.w[share1.i] = half[3]
    BY DEF Input
  <2>6. k \in [Parties -> Nat]
    OBVIOUS
  <2> HIDE DEF share0, share1, k, s, w
  <2>7. /\ Fine(inp(share0)) /\ Reconstruct("A", inp(share0)) = half[1]
        /\ Fine(inp(share1)) /\ Reconstruct("A", inp(share1)) = half[3]
    BY <1>0, <2>4, <2>5, InpFine, InputReconstructs
  <2>8. Fine(difference) /\ Reconstruct("A", difference) = Minus(half[1], half[3])
    BY <1>0, <2>7, LocalFine, LocalSums
  <2>9. PICK b \in {0, 1}, c \in {0, 1} : b = half[3] /\ c = half[1] /\ LSB(w) = (b + c) % 2
    BY <1>0, <2>3, FourHalfBits DEF w
  <2> HIDE DEF difference
  <2>10. Reconstruct("A", u) = Times(Minus(c, b), Minus(c, b))
    <3>1. \A a, d : Mul("A", a, d) = Times(a, d)
      BY DEF Mul
    <3>2. Reconstruct("A", u) = Mul("A", Reconstruct("A", difference), Reconstruct("A", difference))
      BY <1>0, <2>6, <2>8, ProductReconstructs
    <3> QED BY <2>8, <2>9, <3>1, <3>2
  <2>11. Times(Minus(c, b), Minus(c, b)) = (c + b) % 2 /\ c + b = b + c
    BY <1>0, BitSquare
  <2>12. Reconstruct("A", u) = LSB(w)
    BY <2>9, <2>10, <2>11
  <2> HIDE DEF u
  <2>13. w = Reconstruct("B", view[x].sh)
    BY DEF w, s
  <2> QED BY <1>0, <2>1, <2>12, <2>13, UnaryIsIdeal
<1> QED
  BY <1>1, <1>2, <1>3, <1>4 DEF OnTwo

(* those of two operands, divisions and redistributions.                   *)
LEMMA OnThreeIsIdeal ==
    ASSUME FourPartiesAssumption, WordsDrawn, Honest,
           NEW x \in Registers, NEW y \in Registers, NEW z \in Registers, OnThree(x, y, z)
    PROVE  Ideal!Elementwise(x, y, z) \/ Ideal!DivConst(x, y, z) \/ Ideal!Redistribute(x, y, z)
<1> DEFINE s == view[x].sh
<1>0. /\ FourShares /\ FewParties /\ SharingAssumption /\ BitsAssumption /\ DOMAIN view = Registers
      /\ s \in Shares /\ Agrees(s) /\ Fine(s) /\ Fine(view[y].sh)
      /\ GeneratorsInStep /\ Typed /\ "A" \in Encodings /\ "B" \in Encodings /\ 0 \in Index
      /\ 0 \in Parties /\ 1 \in Parties /\ 2 \in Parties /\ 3 \in Parties
      /\ \A p \in Parties, i \in Index : s[p][i] \in Word
  BY HonestFacts DEF Shares
<1>1. ASSUME NEW enc \in Encodings, AddUp(x, y, z, enc) \/ Subtract(x, y, z, enc)
      PROVE  Ideal!Elementwise(x, y, z)
  BY <1>0, <1>1, LocalIsIdeal
<1>2. ASSUME NEW enc \in Encodings, Multiply(x, y, z, enc)
      PROVE  Ideal!Elementwise(x, y, z)
  <2> DEFINE u == Product(enc, view[x].sh, view[y].sh, CrossTerms(enc, view[x].sh, view[y].sh, NoWords))
             a == Reconstruct(enc, view[x].sh)
             b == Reconstruct(enc, view[y].sh)
  <2>1. /\ Is(x, enc) /\ Is(y, enc) /\ Call("multiply", <<x, y, z, enc>>) /\ Write(z, Vector(enc, u))
    BY <1>2, Zenon DEF Multiply
  <2>2. NoWords \in [Parties -> Nat]
    BY DEF NoWords
  <2>3. Reconstruct(enc, u) = Mul(enc, a, b)
    BY <1>0, <2>2, ProductReconstructs
  <2>4. a = Reconstruct(enc, view[x].sh) /\ b = Reconstruct(enc, view[y].sh)
    OBVIOUS
  <2> HIDE DEF u, a, b
  <2> QED BY <1>0, <2>1, <2>3, <2>4, BinaryIsIdeal
<1>3. CASE DivConst(x, y, z)
  <2> DEFINE rest == [p \in Parties |-> RestOfPart(x, p)]
             floor == [p \in Parties |-> Floor(Part(x, p))]
             err1 == Input("A", 3, 2, 0, rest)
             err2 == Input("A", 1, 0, 0, rest)
             res1 == Input("A", 3, 2, 1, floor)
             res2 == Input("A", 1, 0, 1, floor)
             s1 == Local(Plus, inp(res1), inp(res2))
             s2 == Local(Plus, inp(err1), inp(err2))
             q == Reconstruct("A", s1)
             e == Reconstruct("A", s2)
             v == Plus(s[3][0], s[0][0])
             w == Plus(s[1][0], s[2][0])
  <2>1. /\ WriteBoth(y, Vector("A", s1), z, Vector("A", s2))
        /\ Is(x, "A") /\ Call("div", <<x, y, z>>)
    BY <1>3, Zenon DEF DivConst
  <2>2. /\ floor[1] = floor[0] /\ floor[3] = floor[2] /\ \A p \in Parties : floor[p] \in Word
        /\ rest[1] = rest[0] /\ rest[3] = rest[2] /\ \A p \in Parties : rest[p] \in Word
    BY <1>0, Four, SameParts, PartsTyped
  <2>3. v \in Word /\ w \in Word
    BY <1>0, Closed
  <2>4. /\ floor[3] = FloorOf(v) /\ floor[1] = FloorOf(w)
        /\ rest[3] = Minus(RestOf(v), Divisor) /\ rest[1] = RestOf(w)
    <3>1. Part(x, 3) = v /\ Part(x, 1) = w
      BY <1>0, HalvesAre
    <3>2. \A n : FloorOf(n) = Floor(n) /\ RestOf(n) = Rest(n)
      BY DEF FloorOf, Floor, RestOf, Rest
    <3> HIDE DEF v, w
    <3> QED BY <1>0, <3>1, <3>2 DEF RestOfPart
  <2> HIDE DEF floor, rest, v, w
  <2>5. /\ WellPut(res1) /\ res1 = Input(res1.enc, res1.i, res1.j, res1.k, res1.w)
        /\ WellPut(res2) /\ res2 = Input(res2.enc, res2.i, res2.j, res2.k, res2.w)
        /\ WellPut(err1) /\ err1 = Input(err1.enc, err1.i, err1.j, err1.k, err1.w)
        /\ WellPut(err2) /\ err2 = Input(err2.enc, err2.i, err2.j, err2.k, err2.w)
    BY <2>2, Four DEF WellPut, Input
  <2>6. /\ res1.enc = "A" /\ res1.w[res1.i] = floor[3] /\ res2.enc = "A" /\ res2.w[res2.i] = floor[1]
        /\ err1.enc = "A" /\ err1.w[err1.i] = rest[3] /\ err2.enc = "A" /\ err2.w[err2.i] = rest[1]
    BY DEF Input
  <2> HIDE DEF res1, res2, err1, err2
  <2>7. /\ Fine(inp(res1)) /\ Reconstruct("A", inp(res1)) = floor[3]
        /\ Fine(inp(res2)) /\ Reconstruct("A", inp(res2)) = floor[1]
        /\ Fine(inp(err1)) /\ Reconstruct("A", inp(err1)) = rest[3]
        /\ Fine(inp(err2)) /\ Reconstruct("A", inp(err2)) = rest[1]
    BY <1>0, <2>5, <2>6, InpFine, InputReconstructs
  <2>8. /\ Fine(s1) /\ q = Plus(floor[3], floor[1])
        /\ Fine(s2) /\ e = Plus(rest[3], rest[1])
    BY <1>0, <2>7, LocalFine, LocalSums
  <2> HIDE DEF s1, s2
  <2>9. q \in Word /\ e \in Word
    BY <1>0, <2>8, ReconstructIsWord DEF Fine
  <2>10. q = Reconstruct("A", s1) /\ e = Reconstruct("A", s2)
    OBVIOUS
  <2> HIDE DEF q, e
  <2>11. q = Plus(FloorOf(v), FloorOf(w)) /\ e = Plus(Minus(RestOf(v), Divisor), RestOf(w))
    BY <2>4, <2>8
  <2>12. Signed(e) \in -Divisor .. Divisor /\ Plus(Times(Divisor, Plus(q, 1)), e) = Plus(v, w)
    BY <1>0, <2>3, <2>11, HalvesCombine
  <2>13. Reconstruct("A", view[x].sh) = Plus(v, w)
    BY <1>0, FourHalves DEF v, w
  <2>14. Plus(Times(Divisor, Plus(q, 1)), e) = Reconstruct("A", view[x].sh)
    BY <2>12, <2>13
  <2>15. Ideal!DivConst(x, y, z)
    BY <1>0, <2>1, <2>9, <2>10, <2>12, <2>14, DivConstIsIdeal
  <2> QED BY <2>15
<1>4. CASE Redistribute(x, y, z)
  <2> DEFINE low == [p \in {0, 3} |-> Plus(sh(x, p, 1), sh(x, p, 2))]
             high == [p \in {1, 2} |-> Plus(sh(x, p, 3), sh(x, p, 0))]
             first == Input("B", 0, 3, 0, low)
             second == Input("B", 2, 1, 0, high)
             s1 == inp(first)
             s2 == inp(second)
             v == Plus(s[0][0], s[1][0])
             w == Plus(s[2][0], s[3][0])
  <2>1. /\ WriteBoth(y, Vector("B", s1), z, Vector("B", s2))
        /\ Is(x, "A") /\ Call("redistribute", <<x, y, z>>)
    BY <1>4, Zenon DEF Redistribute
  <2>2. v \in Word /\ w \in Word
    BY <1>0, Closed
  <2>3. low[0] = v /\ low[3] = v /\ high[2] = w /\ high[1] = w
    <3>1. /\ (1 + 3) % 4 = 0 /\ (2 + 3) % 4 = 1 /\ (3 + 3) % 4 = 2 /\ (0 + 3) % 4 = 3
      OBVIOUS
    <3>2. /\ sh(x, 0, 1) = s[0][0] /\ sh(x, 3, 1) = s[0][0] /\ sh(x, 0, 2) = s[1][0] /\ sh(x, 3, 2) = s[1][0]
          /\ sh(x, 1, 3) = s[2][0] /\ sh(x, 2, 3) = s[2][0] /\ sh(x, 1, 0) = s[3][0] /\ sh(x, 2, 0) = s[3][0]
      <4>1. \A p \in Parties, n \in Parties : p # n => sh(x, p, n) = s[(n + 3) % 4][0]
        BY <1>0, FirstOf DEF sh
      <4> HIDE DEF s
      <4> QED BY <1>0, <3>1, <4>1
    <3> HIDE DEF s
    <3> QED BY <3>2
  <2> HIDE DEF low, high, v, w
  <2>4. /\ WellPut(first) /\ first = Input(first.enc, first.i, first.j, first.k, first.w)
        /\ WellPut(second) /\ second = Input(second.enc, second.i, second.j, second.k, second.w)
    BY <2>2, <2>3, Four DEF WellPut, Input
  <2>5. /\ first.enc = "B" /\ first.w[first.i] = low[0]
        /\ second.enc = "B" /\ second.w[second.i] = high[2]
    BY DEF Input
  <2> HIDE DEF first, second
  <2>6. Reconstruct("B", s1) = v /\ Reconstruct("B", s2) = w
    BY <1>0, <2>3, <2>4, <2>5, InputReconstructs
  <2>7. Reconstruct("A", s) = Plus(v, w)
    BY <1>0, FourHalves DEF v, w
  <2>8. Minus(Plus(v, w), v) = w
    BY <1>0, <2>2, PlusMinus
  <2> HIDE DEF s1, s2
  <2>9. /\ Reconstruct("B", s1) \in Word
        /\ Reconstruct("B", s2) = Minus(Reconstruct("A", view[x].sh), Reconstruct("B", s1))
    BY <2>2, <2>6, <2>7, <2>8
  <2>10. Ideal!Redistribute(x, y, z)
    BY <1>0, <2>1, <2>9, RedistributeIsIdeal
  <2> QED BY <2>10
<1> QED
  BY <1>1, <1>2, <1>3, <1>4 DEF OnThree

(* What holds between two primitives makes up the invariants.              *)
LEMMA FantasticHonest ==
    Honest => TypeOK /\ SharesAgree /\ GeneratorsInStep /\ NoFalseAlarm
<1>1. Honest => TypeOK
  BY DEF Honest, Typed, TypeOK, Digests, Parts
<1>2. Honest => NoFalseAlarm
  BY DEF Honest, NoFalseAlarm, Digests, DigestsAgree
<1> QED
  BY <1>1, <1>2, ReplicatedIsSharesAgree DEF Honest, Consistent

(* It holds at the start, which is the start of the abstract machine.      *)
LEMMA FantasticStart ==
    ASSUME Fantastic4PCAssumption, Init
    PROVE  Honest /\ Ideal!Init
<1>1. FourPartiesAssumption
  BY DEF Fantastic4PCAssumption
<1> QED
  BY <1>1, Four, StartAgrees, StartTyped, EmptyAgrees, StartIsIdeal DEF Init, Consistent, Honest

(* A step keeps it, and is one of the abstract machine or none.            *)
LEMMA FantasticStep ==
    ASSUME Fantastic4PCAssumption, WordsDrawn, Honest, [Next]_vars
    PROVE  Honest' /\ [Ideal!Next]_(Ideal!vars)
<1>0. FourPartiesAssumption
  BY DEF Fantastic4PCAssumption
<1>1. CASE Next
  <2>1. ASSUME NEW x \in Registers, OnOne(x) PROVE Honest' /\ Ideal!Next
    BY <1>0, <2>1, OnOneHonest, OnOneIsIdeal
  <2>2. ASSUME NEW x \in Registers, NEW z \in Registers, OnTwo(x, z) PROVE Honest' /\ Ideal!Next
    <3>1. Ideal!Elementwise(x, x, z)
      BY <1>0, <2>2, OnTwoIsIdeal
    <3>2. Ideal!Next
      BY <3>1 DEF Ideal!Next
    <3> QED BY <1>0, <2>2, <3>2, OnTwoHonest
  <2>3. ASSUME NEW x \in Registers, NEW y \in Registers, NEW z \in Registers, OnThree(x, y, z)
        PROVE  Honest' /\ Ideal!Next
    <3>1. Ideal!Elementwise(x, y, z) \/ Ideal!DivConst(x, y, z) \/ Ideal!Redistribute(x, y, z)
      BY <1>0, <2>3, OnThreeIsIdeal
    <3>2. Ideal!Next
      BY <3>1 DEF Ideal!Next
    <3> QED BY <1>0, <2>3, <3>2, OnThreeHonest
  <2>4. ASSUME MaliciousCheck PROVE Honest' /\ Ideal!Next
    <3>1. UNCHANGED <<view, nonce, opened>> /\ Call("check", <<>>)
      BY <2>4 DEF MaliciousCheck
    <3>2. UNCHANGED <<Plaintexts, Agreed>>
      BY <3>1 DEF Plaintexts, Plaintext, Agreed
    <3>3. Ideal!Check
      BY <3>1, <3>2, CallIsIdeal DEF Ideal!Check
    <3> QED BY <1>0, <2>4, <3>3, CheckHonest DEF Ideal!Next
  <2> QED BY <1>1, <2>1, <2>2, <2>3, <2>4 DEF Next
<1>2. CASE UNCHANGED vars
  <2>1. Honest'
    BY <1>2 DEF Honest, Consistent, Replicated, Agrees, GeneratorsInStep, Typed, SharingTypeOK,
                vars, sharingVars
  <2>2. UNCHANGED Ideal!vars
    BY <1>2 DEF vars, sharingVars, Ideal!vars, Plaintexts, Plaintext, Agreed
  <2> QED BY <2>1, <2>2
<1> QED
  BY <1>1, <1>2

(* The four-party protocol of Dalskov et al. computes what class Protocol  *)
(* promises, whatever the word size, the generators, the divisor and the   *)
(* program; a check of the digests changes no plaintext.                   *)
THEOREM FantasticImplementsIdeal ==
    ASSUME Fantastic4PCAssumption, WordsDrawn
    PROVE  Spec => ImplementsIdeal
<1>1. Init => Honest /\ Ideal!Init
  BY FantasticStart
<1>2. Honest /\ [Next]_vars => Honest' /\ [Ideal!Next]_(Ideal!vars)
  BY FantasticStep
<1> QED
  BY <1>1, <1>2, PTL DEF Spec, ImplementsIdeal, Ideal!Spec
=============================================================================
