-------------------------- MODULE Custom4PC_proofs --------------------------
(***************************************************************************)
(* Proofs about the four-party protocol with fewer rounds, for words of    *)
(* any width, any generators and divisor, and programs of any length: the  *)
(* parties draw by their role, and still the three that have a generator   *)
(* in common draw the same words of it; so every word that is sent twice   *)
(* arrives twice the same, the copies of every share stay equal, and every *)
(* primitive computes on the plaintexts what class Protocol says.          *)
(***************************************************************************)
EXTENDS Custom4PC, Sharing_proofs

(* Four parties, and the generators of three of them.                      *)
LEMMA Four ==
    ASSUME FourPartiesAssumption
    PROVE  /\ SharingAssumption
           /\ Parties = {0, 1, 2, 3} /\ Index = {0, 1, 2}
           /\ \A p \in Parties : Without(p) \in Groups
           /\ \A p, d : Rank(p, d) = (p + d) % 4
           /\ \A p, i : ShareOf(p, i) = (p + i) % 4
<1>1. NumParties = 4 /\ ReplicationNumber = 3 /\ SharingAssumption
  BY DEF FourPartiesAssumption
<1>2. \A p \in Parties : Without(p) \in Groups
  BY Zenon DEF FourPartiesAssumption
<1> QED
  BY <1>1, <1>2 DEF Parties, Index, Rank, ShareOf

(* The group of a generator: one party, or all but one.                    *)
LEMMA GroupsAre ==
    ASSUME FourPartiesAssumption, NEW S \in Groups
    PROVE  (\E p \in Parties : S = {p}) \/ \E g \in Parties : S = Without(g)
BY DEF FourPartiesAssumption

(* Two owners and the third party draw for an input, each by its role.     *)
LEMMA InputsDrawnInStep ==
    ASSUME FourPartiesAssumption, NEW ins,
           \A n \in DOMAIN ins : {ins[n].i, ins[n].j, ins[n].h} = Without(ins[n].g),
           NEW S \in Groups, NEW p \in S, NEW q \in S
    PROVE  InputsDrawn(ins, p, S) = InputsDrawn(ins, q, S)
<1> DEFINE of(o) == {n \in DOMAIN ins :
               S = Without(ins[n].g) /\ o \in {ins[n].i, ins[n].j, ins[n].h}}
<1>1. of(p) = of(q)
  OBVIOUS
<1> QED
  BY <1>1 DEF InputsDrawn

(* A product draws a word from every generator a party has with two        *)
(* others, and a second one from two of the four, by a table per party.    *)
LEMMA ProductDrawnInStep ==
    ASSUME FourPartiesAssumption, NEW S \in Groups, NEW p \in S, NEW q \in S
    PROVE  ProductDrawn(p, S) = ProductDrawn(q, S)
<1> DEFINE once(o) == {g \in Parties \ {o} : S = Without(g)}
           twice(o) == {g \in SecondWord(o) : S = Without(g)}
<1>1. p \in Parties /\ q \in Parties
  BY GroupsAre DEF Without
<1>2. once(p) = once(q)
  BY DEF Without
<1>3. \A g \in Parties : \A o \in Without(g) : g \in SecondWord(o) <=> g \in {1, 2}
  BY Four DEF SecondWord, Without
<1>4. \A o \in Parties : SecondWord(o) \subseteq Parties
  BY Four DEF SecondWord
<1>5. twice(p) = twice(q)
  BY <1>1, <1>3, <1>4
<1> QED
  BY <1>2, <1>5 DEF ProductDrawn

(* The roles of an input are those of three parties and the receiver.      *)
LEMMA RolesOfInputs ==
    ASSUME FourPartiesAssumption
    PROVE  /\ {1, 0, 3} = Without(2) /\ {3, 2, 1} = Without(0)
           /\ {0, 3, 2} = Without(1) /\ {2, 1, 0} = Without(3)
BY Four DEF Without

(* The inputs of a division or of a redistribution.                        *)
LEMMA InputsInStep ==
    ASSUME FourPartiesAssumption, GeneratorsInStep, NEW ins, InputsDone(ins),
           \A n \in DOMAIN ins : {ins[n].i, ins[n].j, ins[n].h} = Without(ins[n].g)
    PROVE  GeneratorsInStep'
BY Four, InputsDrawnInStep DEF InputsDone, Drawn, GeneratorsInStep, SharingAssumption

(* The primitives on one vector.                                           *)
LEMMA OnOneInStep ==
    ASSUME FourPartiesAssumption, GeneratorsInStep, NEW x, OnOne(x)
    PROVE  GeneratorsInStep'
<1>1. ASSUME NEW enc, NEW w, SecretShare(x, enc, w, 0, 0) PROVE GeneratorsInStep'
  BY <1>1, Four, DrawnByInStep DEF SecretShare
<1>2. ASSUME NEW enc, NEW w, NEW p, PublicShare(x, enc, w, p) PROVE GeneratorsInStep'
  BY <1>2, NothingDrawnInStep DEF PublicShare
<1>3. CASE OpenShares(x)
  BY <1>3, NothingDrawnInStep DEF OpenShares
<1>4. ASSUME NEW p \in Parties, Reshare(x, p) PROVE GeneratorsInStep'
  <2>1. DrawnBy(Without(p), Without(p), NumParties - 1)
    BY <1>4 DEF Reshare
  <2> QED
    BY <2>1, Four, DrawnByInStep
<1> QED
  BY <1>1, <1>2, <1>3, <1>4 DEF OnOne

(* The primitives that compute a vector from another.                      *)
LEMMA OnTwoInStep ==
    ASSUME FourPartiesAssumption, GeneratorsInStep, NEW x, NEW z, OnTwo(x, z)
    PROVE  GeneratorsInStep'
<1>1. CASE NotB(x, z) \/ NotB1(x, z) \/ Mask(x, z) \/ LTZ(x, z)
  BY <1>1, NothingDrawnInStep DEF NotB, NotB1, Mask, LTZ
<1>2. CASE B2ABit(x, z)
  <2> DEFINE half == [p \in Parties |-> HalfBit(x, p)]
             ins == <<Input("A", 1, 0, 2, 3, 0, half), Input("A", 3, 2, 0, 1, 0, half)>>
  <2>1. Drawn(LAMBDA p, S : InputsDrawn(ins, p, S) + ProductDrawn(p, S))
    BY <1>2, Zenon DEF B2ABit
  <2>2. \A n \in DOMAIN ins : {ins[n].i, ins[n].j, ins[n].h} = Without(ins[n].g)
    BY RolesOfInputs DEF Input
  <2> HIDE DEF ins
  <2> QED
    BY <2>1, <2>2, Four, InputsDrawnInStep, ProductDrawnInStep
       DEF Drawn, GeneratorsInStep, SharingAssumption
<1> QED
  BY <1>1, <1>2 DEF OnTwo

(* The primitives on two vectors, or with two results.                     *)
LEMMA OnThreeInStep ==
    ASSUME FourPartiesAssumption, GeneratorsInStep, NEW x, NEW y, NEW z, OnThree(x, y, z)
    PROVE  GeneratorsInStep'
<1>1. ASSUME NEW enc, AddUp(x, y, z, enc) \/ Subtract(x, y, z, enc) PROVE GeneratorsInStep'
  BY <1>1, NothingDrawnInStep DEF AddUp, Subtract
<1>2. ASSUME NEW enc, Multiply(x, y, z, enc) PROVE GeneratorsInStep'
  <2>1. Drawn(ProductDrawn)
    BY <1>2, Zenon DEF Multiply
  <2> QED
    BY <2>1, Four, ProductDrawnInStep DEF Drawn, GeneratorsInStep, SharingAssumption
<1>3. CASE DivConst(x, y, z)
  <2> DEFINE rest == [p \in Parties |-> RestOfPart(x, p)]
             floor == [p \in Parties |-> Floor(Part(x, p))]
             ins == <<Input("A", 3, 2, 0, 1, 0, floor), Input("A", 1, 0, 2, 3, 0, floor),
                      Input("A", 3, 2, 0, 1, 1, rest), Input("A", 1, 0, 2, 3, 1, rest)>>
  <2>1. InputsDone(ins)
    BY <1>3, Zenon DEF DivConst
  <2> HIDE DEF rest, floor
  <2>2. \A n \in DOMAIN ins : {ins[n].i, ins[n].j, ins[n].h} = Without(ins[n].g)
    BY RolesOfInputs DEF Input
  <2> HIDE DEF ins
  <2> QED
    BY <2>1, <2>2, InputsInStep
<1>4. CASE Redistribute(x, y, z)
  <2>1. PICK sum : InputsDone(<<Input("B", 0, 3, 1, 2, 0, sum), Input("B", 2, 1, 3, 0, 0, sum)>>)
    BY <1>4, Zenon DEF Redistribute
  <2> DEFINE ins == <<Input("B", 0, 3, 1, 2, 0, sum), Input("B", 2, 1, 3, 0, 0, sum)>>
  <2>2. \A n \in DOMAIN ins : {ins[n].i, ins[n].j, ins[n].h} = Without(ins[n].g)
    BY RolesOfInputs DEF Input
  <2>3. InputsDone(ins)
    BY <2>1
  <2> HIDE DEF ins
  <2> QED
    BY <2>2, <2>3, InputsInStep
<1> QED
  BY <1>1, <1>2, <1>3, <1>4 DEF OnThree

(* Three parties have drawn as many words from the generator they share,   *)
(* although each counts by the part it has in a primitive.                 *)
THEOREM CustomGeneratorsInStep ==
    ASSUME Custom4PCAssumption
    PROVE  Spec => []GeneratorsInStep
<1>0. FourPartiesAssumption
  BY DEF Custom4PCAssumption
<1>1. Init => GeneratorsInStep
  BY <1>0, Four, StartAgrees DEF Init
<1>2. GeneratorsInStep /\ [Next]_vars => GeneratorsInStep'
  <2>1. ASSUME GeneratorsInStep, Next PROVE GeneratorsInStep'
    BY <1>0, <2>1, OnOneInStep, OnTwoInStep, OnThreeInStep DEF Next
  <2>2. ASSUME GeneratorsInStep, UNCHANGED vars PROVE GeneratorsInStep'
    BY <2>2 DEF GeneratorsInStep, vars, sharingVars
  <2> QED
    BY <2>1, <2>2
<1> QED
  BY <1>1, <1>2, PTL DEF Spec

(* Share n of the source is number n - 1 here, and every party but Pn      *)
(* finds it at abs2sh.                                                     *)
LEMMA Abs2sh ==
    ASSUME FourPartiesAssumption, NEW p \in Parties, NEW n \in Parties \ {p}
    PROVE  abs2sh(p, n) \in Index /\ ShareOf(p, abs2sh(p, n)) = (n + 3) % 4
<1>1. p \in 0 .. 3 /\ n \in 0 .. 3 /\ p # n
  BY Four
<1>2. abs2sh(p, n) = IF n > p THEN n - p - 1 ELSE n - p + 3
  BY <1>1, Mod4 DEF abs2sh
<1>3. ShareOf(p, abs2sh(p, n)) = IF n = 0 THEN 3 ELSE n - 1
  BY <1>1, <1>2, Four, Mod4
<1> QED
  BY <1>1, <1>2, <1>3, Four, Mod4

(* No other index of a party holds share n, and Pn does not hold it.       *)
LEMMA OnlyAbs2sh ==
    ASSUME FourPartiesAssumption, NEW p \in Parties, NEW i \in Index, NEW n \in Parties
    PROVE  (p # n /\ i = abs2sh(p, n)) <=> ShareOf(p, i) = (n + 3) % 4
<1>1. p \in 0 .. 3 /\ i \in 0 .. 2 /\ n \in 0 .. 3
  BY Four
<1>2. p # n => abs2sh(p, n) = IF n > p THEN n - p - 1 ELSE n - p + 3
  BY <1>1, Mod4 DEF abs2sh
<1>3. ShareOf(p, i) = IF p + i < 4 THEN p + i ELSE p + i - 4
  BY <1>1, Four, Mod4
<1>4. (n + 3) % 4 = IF n = 0 THEN 3 ELSE n - 1
  BY <1>1, Mod4
<1> QED
  BY <1>1, <1>2, <1>3, <1>4

(* What the source calls share n is the same word for all who hold it.     *)
LEMMA SameShare ==
    ASSUME FourPartiesAssumption, NEW r, Agrees(view[r].sh),
           NEW n \in Parties, NEW p \in Parties \ {n}, NEW q \in Parties \ {n}
    PROVE  sh(r, p, n) = sh(r, q, n)
BY Abs2sh DEF sh, Agrees

(* Sharing a word that all know.                                           *)
LEMMA PublicShareKeeps ==
    ASSUME FourPartiesAssumption, Replicated, GeneratorsInStep,
           NEW x \in Registers, NEW enc, NEW w, NEW k \in Parties, PublicShare(x, enc, w, k)
    PROVE  Replicated' /\ GeneratorsInStep'
<1> DEFINE s == [p \in Parties |-> [i \in Index |-> IF p # k /\ i = abs2sh(p, k) THEN w ELSE 0]]
<1>1. \A p \in Parties, i \in Index :
          (p # k /\ i = abs2sh(p, k)) <=> ShareOf(p, i) = (k + 3) % 4
  BY OnlyAbs2sh
<1>2. Agrees(s)
  BY <1>1 DEF Agrees
<1>3. Write(x, Vector(enc, s)) /\ NothingDrawn
  BY DEF PublicShare
<1> HIDE DEF s
<1> QED
  BY <1>2, <1>3, WriteKeeps, NothingDrawnInStep

(* The three holders of share 3 negate it, and nobody another one.         *)
LEMMA NotKeeps ==
    ASSUME FourPartiesAssumption, Replicated, GeneratorsInStep,
           NEW x \in Registers, NEW z \in Registers, NotB(x, z) \/ NotB1(x, z)
    PROVE  Replicated' /\ GeneratorsInStep'
<1> DEFINE third(p, i) == <<p, i>> \in {<<2, 0>>, <<1, 1>>, <<0, 2>>}
           s == view[x].sh
           t == Masked(s)
           notS == [p \in Parties |-> [i \in Index |->
                       IF third(p, i) THEN Complement(s[p][i]) ELSE s[p][i]]]
           notT == [p \in Parties |-> [i \in Index |->
                       IF third(p, i) THEN LogicalNot(t[p][i]) ELSE t[p][i]]]
<1>1. \A p \in Parties, i \in Index : third(p, i) <=> ShareOf(p, i) = 2
  BY Four
<1>2. Agrees(s)
  BY DEF Replicated
<1>3. Agrees(t)
  BY <1>2 DEF Agrees, Masked
<1>4. (NotB(x, z) => Write(z, Vector("B", notS))) /\ (NotB1(x, z) => Write(z, Vector("B", notT)))
  BY DEF NotB, NotB1, Not1Shares, Negating
<1>5. NothingDrawn
  BY DEF NotB, NotB1
<1> HIDE DEF third, s, t
<1>6. Agrees(notS) /\ Agrees(notT)
  BY <1>1, <1>2, <1>3 DEF Agrees
<1> HIDE DEF notS, notT
<1> QED
  BY <1>4, <1>5, <1>6, WriteKeeps, NothingDrawnInStep

(* P3 and P2 divide the same word, and so do P1 and P0.                    *)
LEMMA SameParts ==
    ASSUME FourPartiesAssumption, NEW x, Agrees(view[x].sh)
    PROVE  /\ Part(x, 3) = Part(x, 2) /\ Part(x, 1) = Part(x, 0)
           /\ RestOfPart(x, 3) = RestOfPart(x, 2) /\ RestOfPart(x, 1) = RestOfPart(x, 0)
           /\ HalfBit(x, 3) = HalfBit(x, 2) /\ HalfBit(x, 1) = HalfBit(x, 0)
<1>1. /\ sh(x, 3, 0) = sh(x, 2, 0) /\ sh(x, 3, 1) = sh(x, 2, 1)
      /\ sh(x, 1, 2) = sh(x, 0, 2) /\ sh(x, 1, 3) = sh(x, 0, 3)
  BY Four, SameShare
<1>2. Part(x, 3) = Part(x, 2) /\ Part(x, 1) = Part(x, 0)
  BY <1>1 DEF Part
<1> QED
  BY <1>1, <1>2 DEF RestOfPart, HalfBit

(* Three parties that draw the same word of their generator.               *)
LEMMA SameDraw ==
    ASSUME FourPartiesAssumption, GeneratorsInStep, NEW g \in Parties,
           NEW p \in Parties \ {g}, NEW q \in Parties \ {g}, NEW n
    PROVE  Draw(p, Without(g), n) = Draw(q, Without(g), n)
<1>1. nonce[p][Without(g)] = nonce[q][Without(g)]
  BY Four DEF GeneratorsInStep, Without
<1> QED
  BY <1>1 DEF Draw

(* What the parties hold are words, and what three draw of their generator.*)
LEMMA FourTyped ==
    ASSUME FourPartiesAssumption, WordsDrawn, Typed
    PROVE  /\ SharingAssumption /\ BitsAssumption /\ MaxPrimitives \in Nat /\ 0 \in Word
           /\ "A" \in Encodings /\ "B" \in Encodings /\ Divisor \in Word /\ Divisor > 0
           /\ \A r \in Registers : view[r].sh \in Shares
           /\ \A g \in Parties : \A p \in Parties, n \in Nat : Draw(p, Without(g), n) \in Word
<1>1. SharingAssumption /\ BitsAssumption /\ MaxPrimitives \in Nat /\ 0 \in Word
  BY Four, TypedFacts DEF SharingAssumption
<1>2. Divisor \in Word /\ Divisor > 0
  BY <1>1, DivisorFacts
<1>3. \A g \in Parties : \A p \in Parties, n \in Nat : Draw(p, Without(g), n) \in Word
  BY Four, DrawIsWord
<1>4. \A r \in Registers : view[r].sh \in Shares
  BY <1>1, TypedFacts
<1> QED
  BY <1>1, <1>2, <1>3, <1>4 DEF Encodings

(* Sharing a word that all know keeps the types.                           *)
LEMMA PublicShareTyped ==
    ASSUME FourPartiesAssumption, WordsDrawn, Typed, NEW x \in Registers, NEW enc \in Encodings,
           NEW w \in Inputs, NEW k, PublicShare(x, enc, w, k)
    PROVE  Typed'
<1> DEFINE s == [p \in Parties |-> [i \in Index |-> IF p # k /\ i = abs2sh(p, k) THEN w ELSE 0]]
<1>1. w \in Word
  BY Four DEF SharingAssumption
<1>2. s \in Shares
  BY <1>1, FourTyped DEF Shares
<1>3. Write(x, Vector(enc, s)) /\ NothingDrawn /\ Call("share", <<x, enc, w>>)
  BY DEF PublicShare
<1> HIDE DEF s
<1> QED
  BY <1>2, <1>3, FourTyped, WriteTyped, NothingDrawnTyped

(* So does a negation.                                                     *)
LEMMA NotTyped ==
    ASSUME FourPartiesAssumption, WordsDrawn, Typed, NEW x \in Registers, NEW z \in Registers,
           NotB(x, z) \/ NotB1(x, z)
    PROVE  Typed'
<1> DEFINE s == view[x].sh
           t == Masked(s)
           third(p, i) == <<p, i>> \in {<<2, 0>>, <<1, 1>>, <<0, 2>>}
           notS == [p \in Parties |-> [i \in Index |->
                       IF third(p, i) THEN Complement(s[p][i]) ELSE s[p][i]]]
           notT == [p \in Parties |-> [i \in Index |->
                       IF third(p, i) THEN LogicalNot(t[p][i]) ELSE t[p][i]]]
<1>1. s \in Shares /\ t \in Shares
  BY FourTyped, MaskedTyped
<1>2. /\ \/ Write(z, Vector("B", notS)) /\ Call("not", <<x, z>>)
         \/ Write(z, Vector("B", notT)) /\ Call("not_1", <<x, z>>)
      /\ NothingDrawn
  BY DEF NotB, NotB1, Not1Shares, Negating
<1> HIDE DEF third, s, t
<1>3. notS \in Shares /\ notT \in Shares
  BY <1>1, FourTyped, OnOneWord DEF Shares
<1> HIDE DEF notS, notT
<1> QED
  BY <1>2, <1>3, FourTyped, WriteTyped, NothingDrawnTyped

(* The parts that a division and a conversion compute are words.           *)
LEMMA PartsTyped ==
    ASSUME FourPartiesAssumption, WordsDrawn, Typed, NEW x \in Registers, NEW p \in Parties
    PROVE  /\ \A n \in Parties : sh(x, p, n) \in Word
           /\ Floor(Part(x, p)) \in Word /\ RestOfPart(x, p) \in Word /\ HalfBit(x, p) \in Word
<1>1. \A n \in Parties : sh(x, p, n) \in Word
  <2> SUFFICES ASSUME NEW n \in Parties
               PROVE  sh(x, p, n) \in Word
    OBVIOUS
  <2>1. abs2sh(p, n) \in Index
    <3>1. CASE p = n
      BY <3>1, Four DEF abs2sh
    <3>2. CASE p # n
      BY <3>2, Abs2sh
    <3> QED BY <3>1, <3>2
  <2> QED BY <2>1, FourTyped, TypedFacts DEF sh
<1>2. \A n \in {0, 1, 2, 3} : sh(x, p, n) \in Word
  BY <1>1, Four
<1>3. BitsAssumption /\ Divisor \in Word /\ Divisor > 0
  BY FourTyped
<1>4. Part(x, p) \in Word
  BY <1>2, <1>3, Closed DEF Part
<1>5. \A w \in Word : Floor(w) \in Word /\ Rest(w) \in Word
  <2> SUFFICES ASSUME NEW w \in Word
               PROVE  Floor(w) \in Word /\ Rest(w) \in Word
    OBVIOUS
  <2>1. Sign(w) \in Word /\ Quotient(w, Divisor) \in Word /\ Remainder(w, Divisor) \in Word
    BY <1>3, OnOneWord, DivisionClosed
  <2> QED BY <1>3, <2>1, Closed DEF Floor, Rest
<1>6. RestOfPart(x, p) \in Word
  BY <1>3, <1>4, <1>5, Closed DEF RestOfPart
<1>7. \A n \in {0, 1, 2, 3} : LSB(sh(x, p, n)) \in Word
  BY <1>2, <1>3, OnOneWord
<1>8. HalfBit(x, p) \in Word
  BY <1>3, <1>7, Closed DEF HalfBit
<1> QED
  BY <1>1, <1>4, <1>5, <1>6, <1>8

(* An owner deals out one word per share.                                  *)
LEMMA DealtAgrees ==
    ASSUME FourPartiesAssumption, NEW enc, NEW w
    PROVE  Agrees(Dealt(enc, w, 0, 0))
<1> DEFINE last == NumParties - 1
           drawn == [k \in 0 .. last - 1 |-> Draw(0, {0}, k)]
           share(k) == IF k < last THEN drawn[k]
                       ELSE Sub(enc, w, SumOver(enc, 0 .. last - 1, drawn))
           number(p, i) == (((p - 0) % NumParties) + i + 0) % NumParties
<1>1. Dealt(enc, w, 0, 0) = [p \in Parties |-> [i \in Index |-> share(number(p, i))]]
  BY DEF Dealt
<1>2. \A p \in Parties, i \in Index : number(p, i) = ShareOf(p, i)
  BY Four, Mod4 DEF FourPartiesAssumption
<1> HIDE DEF share, number
<1> QED
  BY <1>1, <1>2 DEF Agrees

-----------------------------------------------------------------------------
(* A vector whose shares are words, of which every copy is the same.       *)
Fine(s) == Agrees(s) /\ s \in Shares

(* The state between two primitives.                                       *)
Honest == Replicated /\ GeneratorsInStep /\ Typed /\ ok = TRUE

(* The word n that was drawn of the generator without Pg, after k of them. *)
MessageOf(g, k, n) == Draw((g + 1) % 4, Without(g), k[g] + n)

(* The three parties other than Pg draw that word.                         *)
LEMMA RandomIs ==
    ASSUME FourPartiesAssumption, GeneratorsInStep, NEW k, NEW n,
           NEW p \in Parties, NEW g \in Parties \ {p}
    PROVE  Random(p, g, k, n) = MessageOf(g, k, n)
<1>1. (g + 1) % 4 \in Parties \ {g}
  BY Four, Mod4
<1> QED
  BY <1>1, SameDraw DEF Random, MessageOf

(* Share s of a vector: party s holds it first.                            *)
LEMMA ShareIs ==
    ASSUME FourPartiesAssumption, NEW x, Agrees(x)
    PROVE  \A p \in Parties, i \in Index : x[p][i] = x[(p + i) % 4][0]
<1> SUFFICES ASSUME NEW p \in Parties, NEW i \in Index
             PROVE  x[p][i] = x[(p + i) % 4][0]
  OBVIOUS
<1>1. (p + i) % 4 \in Parties /\ 0 \in Index
  BY Four, Mod4
<1>2. ShareOf(p, i) = ShareOf((p + i) % 4, 0)
  BY <1>1, Four, Mod4
<1> QED
  BY <1>1, <1>2 DEF Agrees

(* All shares of a vector, by name.                                        *)
LEMMA AllShares ==
    ASSUME FourPartiesAssumption, NEW x, Agrees(x)
    PROVE  /\ x[0][1] = x[1][0] /\ x[0][2] = x[2][0]
           /\ x[1][1] = x[2][0] /\ x[1][2] = x[3][0]
           /\ x[2][1] = x[3][0] /\ x[2][2] = x[0][0]
           /\ x[3][1] = x[0][0] /\ x[3][2] = x[1][0]
<1>1. \A p \in {0, 1, 2, 3}, i \in {0, 1, 2} : x[p][i] = x[(p + i) % 4][0]
  BY ShareIs, Four
<1>2. /\ (0 + 1) % 4 = 1 /\ (0 + 2) % 4 = 2 /\ (1 + 1) % 4 = 2 /\ (1 + 2) % 4 = 3
      /\ (2 + 1) % 4 = 3 /\ (2 + 2) % 4 = 0 /\ (3 + 1) % 4 = 0 /\ (3 + 2) % 4 = 1
  OBVIOUS
<1> QED
  BY <1>1, <1>2

(* The first shares of a product: the terms of two neighbours masked by    *)
(* words that the next share has again, and two more masks that the terms  *)
(* of the parties opposite each other are without.                         *)
Neighbours(enc, x, y, a, b) ==
    Add(enc, Mul(enc, x[a][0], y[a][0]),
             Add(enc, Mul(enc, x[a][0], y[b][0]), Mul(enc, x[b][0], y[a][0])))
Opposites(enc, x, y, a, b) == Add(enc, Mul(enc, x[a][0], y[b][0]), Mul(enc, x[b][0], y[a][0]))
Remasked(enc, w, m, n) == Add(enc, Sub(enc, w, m), n)
ProductShares(enc, x, y, k, u) ==
    LET R(g, n) == MessageOf(g, k, n)
    IN  /\ u[0][0] = Add(enc, Remasked(enc, Neighbours(enc, x, y, 3, 0), R(0, 0), R(1, 0)), R(1, 1))
        /\ u[1][0] = Add(enc, Remasked(enc, Neighbours(enc, x, y, 0, 1), R(1, 0), R(2, 0)), R(2, 1))
        /\ u[2][0] = Add(enc, Remasked(enc, Neighbours(enc, x, y, 1, 2), R(2, 0), R(3, 0)),
                              Sub(enc, Opposites(enc, x, y, 0, 2), R(1, 1)))
        /\ u[3][0] = Add(enc, Remasked(enc, Neighbours(enc, x, y, 2, 3), R(3, 0), R(0, 0)),
                              Sub(enc, Opposites(enc, x, y, 1, 3), R(2, 1)))

(* The same words from both sides: what is compared in a product agrees,   *)
(* and so do the copies of its shares.                                     *)
LEMMA ProductFine ==
    ASSUME FourPartiesAssumption, WordsDrawn, GeneratorsInStep, Typed,
           NEW enc, NEW x, Fine(x), NEW y, Fine(y), NEW k, k \in [Parties -> Nat]
    PROVE  /\ ProductSame(enc, x, y, k) /\ Fine(Product(enc, x, y, k))
           /\ ProductShares(enc, x, y, k, Product(enc, x, y, k))
<1> DEFINE X(s) == x[s][0]
           Y(s) == y[s][0]
           R(g, n) == MessageOf(g, k, n)
           K(a, b) == Add(enc, Mul(enc, X(a), Y(a)), Add(enc, Mul(enc, X(a), Y(b)), Mul(enc, X(b), Y(a))))
           T(a, g) == Sub(enc, K(a, (a + 1) % 4), R(g, 0))
           A == Sub(enc, Add(enc, Mul(enc, X(0), Y(2)), Mul(enc, X(2), Y(0))), R(1, 1))
           B == Sub(enc, Add(enc, Mul(enc, X(1), Y(3)), Mul(enc, X(3), Y(1))), R(2, 1))
<1>0. Parties = {0, 1, 2, 3} /\ Index = {0, 1, 2} /\ BitsAssumption
  BY Four, FourTyped
<1>1. /\ x[0][1] = X(1) /\ x[0][2] = X(2) /\ x[1][1] = X(2) /\ x[1][2] = X(3)
      /\ x[2][1] = X(3) /\ x[2][2] = X(0) /\ x[3][1] = X(0) /\ x[3][2] = X(1)
  BY AllShares DEF Fine
<1>2. /\ y[0][1] = Y(1) /\ y[0][2] = Y(2) /\ y[1][1] = Y(2) /\ y[1][2] = Y(3)
      /\ y[2][1] = Y(3) /\ y[2][2] = Y(0) /\ y[3][1] = Y(0) /\ y[3][2] = Y(1)
  BY AllShares DEF Fine
<1>3. \A n : \A p, g \in Parties : p # g => Random(p, g, k, n) = R(g, n)
  BY RandomIs
<1>4. \A s \in Parties : X(s) \in Word /\ Y(s) \in Word
  BY <1>0 DEF Fine, Shares
<1>5. \A g \in Parties, n \in Nat : R(g, n) \in Word
  <2> SUFFICES ASSUME NEW g \in Parties, NEW n \in Nat
               PROVE  R(g, n) \in Word
    OBVIOUS
  <2>1. k[g] + n \in Nat /\ (g + 1) % 4 \in Parties
    BY <1>0
  <2> QED BY <2>1, FourTyped DEF MessageOf
<1>6. /\ \A p \in Parties : Rank(p, 1) = (p + 1) % 4 /\ Rank(p, 2) = (p + 2) % 4 /\ Rank(p, -1) = (p + 3) % 4
      /\ \A p \in Parties : (p + 1) % 4 \in Parties /\ (p + 2) % 4 \in Parties /\ (p + 3) % 4 \in Parties
      /\ \A p \in Parties : p # (p + 1) % 4 /\ p # (p + 2) % 4 /\ p # (p + 3) % 4
  BY <1>0, Four
<1> HIDE DEF X, Y, R
<1>7. \A p \in Parties : Cross10(enc, x, y, k, p) = T(p, (p + 1) % 4)
  <2>1. \A p \in {0, 1, 2, 3} : Known(enc, x[p], y[p], 0, 1) = K(p, (p + 1) % 4)
    BY <1>1, <1>2 DEF Known, X, Y
  <2> HIDE DEF K
  <2> QED BY <1>0, <1>3, <1>6, <2>1 DEF Cross10
<1>8. \A p \in Parties : Cross12(enc, x, y, k, p) = T((p + 1) % 4, (p + 2) % 4)
  <2>1. \A p \in {0, 1, 2, 3} : Known(enc, x[p], y[p], 1, 2) = K((p + 1) % 4, (p + 2) % 4)
    BY <1>1, <1>2 DEF Known, X, Y
  <2>2. \A p \in {0, 1, 2, 3} : (((p + 1) % 4) + 1) % 4 = (p + 2) % 4
    OBVIOUS
  <2> HIDE DEF K
  <2> QED BY <1>0, <1>3, <1>6, <2>1, <2>2 DEF Cross12
<1> HIDE DEF T
<1>9. \A p \in Parties : Cross10(enc, x, y, k, Rank(p, -1)) = T((p + 3) % 4, p)
                         /\ Cross12(enc, x, y, k, Rank(p, 2)) = T((p + 3) % 4, p)
  <2>1. \A p \in {0, 1, 2, 3} : /\ (((p + 3) % 4) + 1) % 4 = p
                                /\ (((p + 2) % 4) + 1) % 4 = (p + 3) % 4 /\ (((p + 2) % 4) + 2) % 4 = p
    OBVIOUS
  <2> QED BY <1>0, <1>6, <1>7, <1>8, <2>1
<1>10. \A a, b \in Parties : Mul(enc, X(a), Y(b)) \in Word
  BY <1>0, <1>4, SharesClosed
<1>11. \A a, b, c, d \in Parties :
           Add(enc, Mul(enc, X(a), Y(b)), Mul(enc, X(c), Y(d)))
             = Add(enc, Mul(enc, X(c), Y(d)), Mul(enc, X(a), Y(b)))
  BY <1>0, <1>10, SharesClosed
<1>12. /\ Cross02(enc, x, y, k, 0) = A /\ Cross02(enc, x, y, k, 2) = A
       /\ Cross02(enc, x, y, k, 1) = B /\ Cross02(enc, x, y, k, 3) = B
  <2>1. /\ Random(0, 1, k, 1) = R(1, 1) /\ Random(2, 1, k, 1) = R(1, 1)
        /\ Random(1, 2, k, 1) = R(2, 1) /\ Random(3, 2, k, 1) = R(2, 1)
    BY <1>0, <1>3
  <2>2. /\ x[0][0] = X(0) /\ x[1][0] = X(1) /\ x[2][0] = X(2) /\ x[3][0] = X(3)
        /\ y[0][0] = Y(0) /\ y[1][0] = Y(1) /\ y[2][0] = Y(2) /\ y[3][0] = Y(3)
    BY DEF X, Y
  <2> QED BY <1>0, <1>1, <1>2, <1>11, <2>1, <2>2 DEF Cross02
<1>13. ProductSame(enc, x, y, k)
  BY <1>9, <1>12 DEF ProductSame
<1>14. A \in Word /\ B \in Word
  BY <1>0, <1>5, <1>10, SharesClosed
<1>15. \A a \in Parties, g \in Parties : T(a, g) \in Word
  <2>1. \A a, b \in Parties : K(a, b) \in Word
    BY <1>0, <1>10, SharesClosed
  <2> HIDE DEF K
  <2> QED BY <1>0, <1>5, <1>6, <2>1, SharesClosed DEF T
<1> HIDE DEF A, B
<1> DEFINE common == [s \in Parties |-> Add(enc, T((s + 3) % 4, s), R((s + 1) % 4, 0))]
           adjust == [s \in Parties |-> CASE s = 0 -> R(1, 1) [] s = 1 -> R(2, 1) [] s = 2 -> A [] s = 3 -> B]
           v == [s \in Parties |-> Add(enc, common[s], adjust[s])]
<1>16. \A p \in Parties, i \in Index : Common(enc, x, y, k, p)[i + 1] = common[(p + i) % 4]
  <2> SUFFICES ASSUME NEW p \in Parties
               PROVE  /\ Common(enc, x, y, k, p)[1] = common[(p + 0) % 4]
                      /\ Common(enc, x, y, k, p)[2] = common[(p + 1) % 4]
                      /\ Common(enc, x, y, k, p)[3] = common[(p + 2) % 4]
    BY <1>0
  <2>1. /\ (p + 0) % 4 = p /\ (((p + 1) % 4) + 3) % 4 = p /\ (((p + 1) % 4) + 1) % 4 = (p + 2) % 4
        /\ (((p + 2) % 4) + 3) % 4 = (p + 1) % 4 /\ (((p + 2) % 4) + 1) % 4 = (p + 3) % 4
    BY <1>0
  <2>2. Common(enc, x, y, k, p)
          = <<Add(enc, T((p + 3) % 4, p), R((p + 1) % 4, 0)),
              Add(enc, T(p, (p + 1) % 4), R((p + 2) % 4, 0)),
              Add(enc, T((p + 1) % 4, (p + 2) % 4), R((p + 3) % 4, 0))>>
    <3>1. /\ Random(p, Rank(p, 1), k, 0) = R((p + 1) % 4, 0)
          /\ Random(p, Rank(p, 2), k, 0) = R((p + 2) % 4, 0)
          /\ Random(p, Rank(p, -1), k, 0) = R((p + 3) % 4, 0)
      BY <1>3, <1>6
    <3>2. /\ Cross10(enc, x, y, k, Rank(p, -1)) = T((p + 3) % 4, p)
          /\ Cross10(enc, x, y, k, p) = T(p, (p + 1) % 4)
          /\ Cross12(enc, x, y, k, p) = T((p + 1) % 4, (p + 2) % 4)
      BY <1>7, <1>8, <1>9
    <3> QED BY <3>1, <3>2, Zenon DEF Common
  <2> QED BY <1>6, <2>1, <2>2
<1>17. \A p \in Parties, i \in Index : Adjustment(enc, x, y, k, p)[i + 1] = adjust[(p + i) % 4]
  <2>1. /\ Random(0, 1, k, 1) = R(1, 1) /\ Random(2, 1, k, 1) = R(1, 1) /\ Random(3, 1, k, 1) = R(1, 1)
        /\ Random(0, 2, k, 1) = R(2, 1) /\ Random(1, 2, k, 1) = R(2, 1) /\ Random(3, 2, k, 1) = R(2, 1)
    BY <1>0, <1>3
  <2>2. /\ Adjustment(enc, x, y, k, 0) = <<R(1, 1), R(2, 1), A>>
        /\ Adjustment(enc, x, y, k, 1) = <<R(2, 1), A, B>>
        /\ Adjustment(enc, x, y, k, 2) = <<A, B, R(1, 1)>>
        /\ Adjustment(enc, x, y, k, 3) = <<B, R(1, 1), R(2, 1)>>
    BY <1>12, <2>1 DEF Adjustment
  <2>3. adjust[0] = R(1, 1) /\ adjust[1] = R(2, 1) /\ adjust[2] = A /\ adjust[3] = B
    BY <1>0
  <2> HIDE DEF adjust
  <2> QED BY <1>0, <2>2, <2>3
<1>18. \A s \in Parties : common[s] \in Word /\ adjust[s] \in Word
  <2>1. \A s \in Parties : common[s] \in Word
    BY <1>0, <1>5, <1>6, <1>15, SharesClosed
  <2>2. R(1, 1) \in Word /\ R(2, 1) \in Word
    BY <1>0, <1>5
  <2>3. adjust[0] = R(1, 1) /\ adjust[1] = R(2, 1) /\ adjust[2] = A /\ adjust[3] = B
    BY <1>0
  <2> HIDE DEF adjust, common
  <2> QED BY <1>0, <1>14, <2>1, <2>2, <2>3
<1> HIDE DEF common, adjust
<1>19. \A s \in Parties : v[s] \in Word
  BY <1>0, <1>18, SharesClosed
<1>20. \A p \in Parties, i \in Index : ShareOf(p, i) \in Parties /\ ShareOf(p, i) = (p + i) % 4
  BY <1>0, Four
<1>21. \A p \in Parties, i \in Index : Product(enc, x, y, k)[p][i] = v[ShareOf(p, i)]
  BY <1>16, <1>17, <1>20 DEF Product
<1>24. ProductShares(enc, x, y, k, Product(enc, x, y, k))
  <2>1. /\ 0 \in Parties /\ 1 \in Parties /\ 2 \in Parties /\ 3 \in Parties /\ 0 \in Index
        /\ ShareOf(0, 0) = 0 /\ ShareOf(1, 0) = 1 /\ ShareOf(2, 0) = 2 /\ ShareOf(3, 0) = 3
    BY <1>0, <1>20
  <2>2. /\ Product(enc, x, y, k)[0][0] = Add(enc, common[0], adjust[0])
        /\ Product(enc, x, y, k)[1][0] = Add(enc, common[1], adjust[1])
        /\ Product(enc, x, y, k)[2][0] = Add(enc, common[2], adjust[2])
        /\ Product(enc, x, y, k)[3][0] = Add(enc, common[3], adjust[3])
    BY <1>21, <2>1
  <2>3. adjust[0] = R(1, 1) /\ adjust[1] = R(2, 1) /\ adjust[2] = A /\ adjust[3] = B
    BY <2>1 DEF adjust
  <2>4. /\ common[0] = Add(enc, T(3, 0), R(1, 0)) /\ common[1] = Add(enc, T(0, 1), R(2, 0))
        /\ common[2] = Add(enc, T(1, 2), R(3, 0)) /\ common[3] = Add(enc, T(2, 3), R(0, 0))
    <3>1. /\ (0 + 3) % 4 = 3 /\ (1 + 3) % 4 = 0 /\ (2 + 3) % 4 = 1 /\ (3 + 3) % 4 = 2
          /\ (0 + 1) % 4 = 1 /\ (1 + 1) % 4 = 2 /\ (2 + 1) % 4 = 3 /\ (3 + 1) % 4 = 0
      OBVIOUS
    <3> QED BY <2>1, <3>1 DEF common
  <2>5. /\ T(3, 0) = Sub(enc, Neighbours(enc, x, y, 3, 0), R(0, 0))
        /\ T(0, 1) = Sub(enc, Neighbours(enc, x, y, 0, 1), R(1, 0))
        /\ T(1, 2) = Sub(enc, Neighbours(enc, x, y, 1, 2), R(2, 0))
        /\ T(2, 3) = Sub(enc, Neighbours(enc, x, y, 2, 3), R(3, 0))
    <3>1. /\ (0 + 1) % 4 = 1 /\ (1 + 1) % 4 = 2 /\ (2 + 1) % 4 = 3 /\ (3 + 1) % 4 = 0
      OBVIOUS
    <3>2. /\ K(3, 0) = Neighbours(enc, x, y, 3, 0) /\ K(0, 1) = Neighbours(enc, x, y, 0, 1)
          /\ K(1, 2) = Neighbours(enc, x, y, 1, 2) /\ K(2, 3) = Neighbours(enc, x, y, 2, 3)
      BY DEF K, Neighbours, X, Y
    <3> HIDE DEF K
    <3> QED BY <3>1, <3>2 DEF T
  <2>6. /\ A = Sub(enc, Opposites(enc, x, y, 0, 2), R(1, 1))
        /\ B = Sub(enc, Opposites(enc, x, y, 1, 3), R(2, 1))
    BY DEF A, B, Opposites, X, Y
  <2> QED BY <2>2, <2>3, <2>4, <2>5, <2>6 DEF ProductShares, Remasked, R
<1> HIDE DEF v
<1>22. Agrees(Product(enc, x, y, k))
  BY <1>21 DEF Agrees
<1>23. Product(enc, x, y, k) \in Shares
  BY <1>19, <1>20, <1>21 DEF Product, Shares
<1> QED
  BY <1>13, <1>22, <1>23, <1>24 DEF Fine

(* The inputs that the primitives make: P_j precedes P_i, who precedes P_g.*)
Roles(in) == <<in.i, in.j, in.g, in.h>> \in
                 {<<1, 0, 2, 3>>, <<3, 2, 0, 1>>, <<0, 3, 1, 2>>, <<2, 1, 3, 0>>}
(* They are put in by two parties that have the same word.                 *)
WellPut(in) ==
    /\ Roles(in) /\ in.k \in Nat
    /\ in.w[in.i] = in.w[in.j] /\ \A p \in Parties : in.w[p] \in Word

(* A word that both owners know arrives twice the same, and makes one      *)
(* sharing.                                                                *)
LEMMA InputFine ==
    ASSUME FourPartiesAssumption, WordsDrawn, GeneratorsInStep, Typed, NEW in, WellPut(in)
    PROVE  InputSame(in) /\ Fine(inp(in)) /\ Reconstruct(in.enc, inp(in)) = in.w[in.i]
<1> DEFINE drew == Drew(in, in.i)
           left == Left(in, in.i)
           v == [s \in Parties |-> IF s = in.i THEN drew ELSE IF s = in.g THEN left ELSE 0]
<1>0. Parties = {0, 1, 2, 3} /\ Index = {0, 1, 2} /\ BitsAssumption /\ 0 \in Word
  BY Four, FourTyped
<1>1. /\ in.i \in Parties \ {in.g} /\ in.j \in Parties \ {in.g} /\ in.h \in Parties \ {in.g}
      /\ in.g \in Parties
      /\ in.g = (in.i + 1) % 4 /\ in.i = (in.j + 1) % 4 /\ in.h = (in.i + 2) % 4
  <2>1. Roles(in)
    BY DEF WellPut
  <2>2. /\ (1 + 1) % 4 = 2 /\ (0 + 1) % 4 = 1 /\ (1 + 2) % 4 = 3 /\ (3 + 1) % 4 = 0
        /\ (2 + 1) % 4 = 3 /\ (3 + 2) % 4 = 1 /\ (0 + 2) % 4 = 2 /\ (2 + 2) % 4 = 0
    OBVIOUS
  <2> QED BY <1>0, <2>1, <2>2 DEF Roles
<1>2. Drew(in, in.j) = drew /\ Drew(in, in.h) = drew
  BY <1>1, SameDraw DEF Drew
<1>3. drew \in Word
  BY <1>0, <1>1, FourTyped DEF Drew, WellPut
<1>4. Left(in, in.j) = left
  BY <1>2 DEF Left, WellPut
<1>5. left \in Word
  BY <1>0, <1>1, <1>3, SharesClosed DEF Left, WellPut
<1> HIDE DEF drew, left
<1>6. Rank(in.g, 3) = in.i /\ Rank(in.g, 2) = in.j
  <2>1. \A a \in {0, 1, 2, 3} : (((a + 1) % 4) + 3) % 4 = a /\ (((((a + 1) % 4) + 1) % 4) + 2) % 4 = a
    OBVIOUS
  <2> QED BY <1>0, <1>1, <2>1, Four
<1>7. InputSame(in)
  BY <1>4, <1>6 DEF InputSame, left
<1>8. \A p \in Parties, n \in Index :
          inp(in)[p][n] = IF (p + n) % 4 = in.i THEN drew
                          ELSE IF (p + n) % 4 = in.g THEN left ELSE 0
  <2> SUFFICES ASSUME NEW p \in Parties, NEW n \in Index
               PROVE  inp(in)[p][n] = IF (p + n) % 4 = in.i THEN drew
                                      ELSE IF (p + n) % 4 = in.g THEN left ELSE 0
    OBVIOUS
  <2> DEFINE fromDraw == <<p, n>> \in {<<in.i, 0>>, <<in.j, 1>>, <<in.h, 2>>}
             fromWord == <<p, n>> \in {<<in.i, 1>>, <<in.j, 2>>}
             received == <<p, n>> = <<in.g, 0>>
  <2>1. inp(in)[p][n] = CASE fromDraw -> Drew(in, p) [] fromWord -> Left(in, p)
                          [] received -> Left(in, Rank(p, 3)) [] OTHER -> 0
    BY DEF inp
  <2>2. /\ fromDraw <=> (p + n) % 4 = in.i
        /\ (fromWord \/ received) <=> (p + n) % 4 = in.g
        /\ fromWord => ~received
        /\ fromDraw => ~fromWord /\ ~received
    <3>1. /\ p \in {0, 1, 2, 3} /\ n \in {0, 1, 2}
          /\ \/ in.i = 1 /\ in.j = 0 /\ in.g = 2 /\ in.h = 3
             \/ in.i = 3 /\ in.j = 2 /\ in.g = 0 /\ in.h = 1
             \/ in.i = 0 /\ in.j = 3 /\ in.g = 1 /\ in.h = 2
             \/ in.i = 2 /\ in.j = 1 /\ in.g = 3 /\ in.h = 0
      BY <1>0 DEF WellPut, Roles
    <3>2. (p + n) % 4 = IF p + n < 4 THEN p + n ELSE p + n - 4
      BY <3>1
    <3> QED BY <3>1, <3>2
  <2>3. fromDraw => Drew(in, p) = drew
    BY <1>2 DEF drew
  <2>4. fromWord => Left(in, p) = left
    BY <1>4 DEF left
  <2>5. received => Left(in, Rank(p, 3)) = left
    BY <1>6 DEF left
  <2>6. in.i # in.g
    BY <1>1
  <2> HIDE DEF fromDraw, fromWord, received
  <2> QED BY <2>1, <2>2, <2>3, <2>4, <2>5, <2>6
<1>9. \A p \in Parties, n \in Index : ShareOf(p, n) = (p + n) % 4
  BY Four
<1>10. Agrees(inp(in))
  BY <1>8, <1>9 DEF Agrees
<1>11. \A p \in Parties, n \in Index : inp(in)[p][n] \in Word
  BY <1>0, <1>3, <1>5, <1>8
<1>12. inp(in) \in Shares
  BY <1>11 DEF inp, Shares
<1>13. \A p \in Parties : inp(in)[p][0] = IF p = in.i THEN drew
                         ELSE IF p = in.g THEN Sub(in.enc, in.w[in.i], drew) ELSE 0
  <2>1. \A p \in {0, 1, 2, 3} : (p + 0) % 4 = p
    OBVIOUS
  <2>2. left = Sub(in.enc, in.w[in.i], drew)
    BY DEF left, drew, Left
  <2> QED BY <1>0, <1>8, <2>1, <2>2
<1>14. Reconstruct(in.enc, inp(in)) = in.w[in.i]
  <2>1. FourShares /\ in.w[in.i] \in Word /\ in.i # in.g
    BY <1>1 DEF WellPut, FourShares, FourPartiesAssumption
  <2> DEFINE enc == in.enc
             w == in.w[in.i]
             i == in.i
             g == in.g
             s == inp(in)
  <2>2. /\ FourShares /\ w \in Word /\ i \in Parties /\ g \in Parties /\ i # g
        /\ drew \in Word /\ s \in Shares
    BY <1>1, <1>3, <1>12, <2>1
  <2>3. \A p \in Parties : s[p][0] = IF p = i THEN drew ELSE IF p = g THEN Sub(enc, w, drew) ELSE 0
    BY <1>13
  <2> HIDE DEF enc, w, i, g, s
  <2>4. Reconstruct(enc, s) = w
    BY <2>2, <2>3, FourInput
  <2> QED BY <2>4 DEF enc, w, s
<1> QED
  BY <1>7, <1>10, <1>12, <1>14 DEF Fine

(* The words drawn are counted by numbers.                                 *)
LEMMA InputsDrawnTyped ==
    ASSUME NEW ins, IsFiniteSet(DOMAIN ins), NEW p, NEW S
    PROVE  InputsDrawn(ins, p, S) \in Nat
<1> DEFINE of == {n \in DOMAIN ins : S = Without(ins[n].g) /\ p \in {ins[n].i, ins[n].j, ins[n].h}}
<1>1. IsFiniteSet(of)
  BY FS_Subset
<1> QED
  BY <1>1, FS_CardinalityType DEF InputsDrawn

(* So are those drawn for a product.                                       *)
LEMMA ProductDrawnTyped ==
    ASSUME FourPartiesAssumption, NEW p \in Parties, NEW S
    PROVE  ProductDrawn(p, S) \in Nat
<1> DEFINE once == {g \in Parties \ {p} : S = Without(g)}
           twice == {g \in SecondWord(p) : S = Without(g)}
<1>1. IsFiniteSet(Parties) /\ SecondWord(p) \subseteq Parties
  <2>1. IsFiniteSet(0 .. 3)
    <3>1. 0 \in Int /\ 3 \in Int
      OBVIOUS
    <3> QED BY <3>1, FS_Interval, Zenon
  <2>2. Parties = 0 .. 3
    BY Four
  <2> QED BY <2>1, <2>2, Four DEF SecondWord
<1>2. once \subseteq Parties /\ twice \subseteq Parties
  BY <1>1
<1>3. IsFiniteSet(once) /\ IsFiniteSet(twice)
  BY <1>1, <1>2, FS_Subset
<1>4. Cardinality(once) \in Nat /\ Cardinality(twice) \in Nat
  BY <1>3, FS_CardinalityType
<1> QED
  BY <1>4 DEF ProductDrawn

(* Writing a vector of words whose copies agree.                           *)
LEMMA WriteFine ==
    ASSUME FourPartiesAssumption, WordsDrawn, Honest, NEW r \in Registers,
           NEW enc \in Encodings \cup {"none"}, NEW s, Fine(s), Write(r, Vector(enc, s)),
           NEW name, NEW args, Call(name, args), nonce' \in Counts, GeneratorsInStep', ok' = ok
    PROVE  Honest'
<1>1. Replicated'
  BY WriteKeeps DEF Honest, Fine
<1>2. Typed'
  BY FourTyped, WriteTyped DEF Honest, Fine
<1> QED
  BY <1>1, <1>2 DEF Honest

(* The same of two vectors at once.                                        *)
LEMMA WriteBothFine ==
    ASSUME FourPartiesAssumption, WordsDrawn, Honest,
           NEW r1 \in Registers, NEW e1 \in Encodings, NEW s1, Fine(s1),
           NEW r2 \in Registers, NEW e2 \in Encodings, NEW s2, Fine(s2),
           WriteBoth(r1, Vector(e1, s1), r2, Vector(e2, s2)),
           NEW name, NEW args, Call(name, args), nonce' \in Counts, GeneratorsInStep', ok' = ok
    PROVE  Honest'
<1>1. Replicated'
  BY WriteBothKeeps DEF Honest, Fine
<1>2. Typed'
  BY FourTyped, WriteBothTyped DEF Honest, Fine
<1> QED
  BY <1>1, <1>2 DEF Honest

(* Sum and difference of two vectors.                                      *)
LEMMA LocalFine ==
    ASSUME BitsAssumption, NEW s, Fine(s), NEW t, Fine(t)
    PROVE  Fine(Local(Plus, s, t)) /\ Fine(Local(Minus, s, t))
BY Closed DEF Fine, Agrees, Local, Shares

(* A resharing: what two members of the group send is the same share.      *)
LEMMA ReshareFine ==
    ASSUME FourPartiesAssumption, WordsDrawn, Honest,
           NEW x \in Registers, NEW receiver \in Parties, Reshare(x, receiver)
    PROVE  Honest' /\ Ideal!Reshare(x)
<1> DEFINE g == Without(receiver)
           mine == Rerandomized(x, g)
           from(distance, n) == mine[Rank(receiver, -distance)][n]
           received == <<from(1, 1), from(3, 0), from(2, 0)>>
           t == [mine EXCEPT ![receiver] = [i \in Index |-> received[i + 1]]]
<1>0. /\ SharingAssumption /\ g \in Groups /\ g \subseteq Parties
      /\ Parties = {0, 1, 2, 3} /\ Index = {0, 1, 2}
      /\ Agrees(view[x].sh) /\ GeneratorsInStep /\ Typed
  BY Four DEF Honest, Replicated, Without
<1>1. \A p, q \in g, i, j \in Index : ShareOf(p, i) = ShareOf(q, j) => mine[p][i] = mine[q][j]
  BY <1>0, RerandomizedAgrees
<1>2. DOMAIN mine = Parties /\ mine \in Shares
  BY <1>0, RerandomizedTyped DEF Rerandomized
<1>3. /\ Write(x, Vector(view[x].enc, t)) /\ DrawnBy(g, g, NumParties - 1)
      /\ Call("reshare", <<x>>)
      /\ Checked(/\ from(1, 1) = from(2, 2)
                 /\ from(3, 0) = from(1, 2)
                 /\ from(2, 0) = from(3, 1))
  BY Zenon DEF Reshare
<1> HIDE DEF mine
<1> DEFINE a == (receiver + 1) % 4
           b == (receiver + 2) % 4
           c == (receiver + 3) % 4
<1>4. Rank(receiver, -1) = c /\ Rank(receiver, -2) = b /\ Rank(receiver, -3) = a
  BY <1>0, Four
<1>5. a \in g /\ b \in g /\ c \in g
  BY <1>0 DEF Without
<1>6. \A p \in Parties, i \in Index : ShareOf(p, i) = (p + i) % 4
  BY Four
<1>7. /\ ShareOf(receiver, 0) = receiver /\ ShareOf(receiver, 1) = a /\ ShareOf(receiver, 2) = b
      /\ ShareOf(a, 0) = a /\ ShareOf(a, 1) = b
      /\ ShareOf(b, 0) = b /\ ShareOf(b, 2) = receiver
      /\ ShareOf(c, 1) = receiver /\ ShareOf(c, 2) = a
  <2>1. receiver \in 0 .. 3
    BY <1>0
  <2>2. /\ a = IF receiver = 3 THEN 0 ELSE receiver + 1
        /\ b = IF receiver >= 2 THEN receiver - 2 ELSE receiver + 2
        /\ c = IF receiver = 0 THEN 3 ELSE receiver - 1
    BY <2>1
  <2> HIDE DEF a, b, c
  <2>3. a \in Parties /\ b \in Parties /\ c \in Parties
    BY <1>0, <1>5
  <2> QED BY <1>0, <1>6, <2>1, <2>2, <2>3, Mod4
<1> HIDE DEF a, b, c
<1>8. /\ from(1, 1) = mine[c][1] /\ from(3, 0) = mine[a][0] /\ from(2, 0) = mine[b][0]
      /\ from(2, 2) = mine[b][2] /\ from(1, 2) = mine[c][2] /\ from(3, 1) = mine[a][1]
  BY <1>4
<1>9. from(1, 1) = from(2, 2) /\ from(3, 0) = from(1, 2) /\ from(2, 0) = from(3, 1)
  BY <1>0, <1>1, <1>5, <1>7, <1>8
<1>10. ok' = ok
  BY <1>3, <1>9 DEF Checked, Honest
<1>11. \A i \in Index : \E p \in g, j \in Index :
           ShareOf(p, j) = ShareOf(receiver, i) /\ received[i + 1] = mine[p][j]
  <2>1. received[1] = mine[c][1] /\ received[2] = mine[a][0] /\ received[3] = mine[b][0]
    BY <1>8
  <2> HIDE DEF received
  <2> QED BY <1>0, <1>5, <1>7, <2>1
<1>12. t = [mine EXCEPT ![receiver] = [i \in Index |-> received[i + 1]]]
  OBVIOUS
<1> HIDE DEF received
<1>13. \A q \in Parties, i \in Index : \E p \in g, j \in Index :
           ShareOf(p, j) = ShareOf(q, i) /\ t[q][i] = mine[p][j]
  BY <1>2, <1>11 DEF Without
<1>14. t \in [Parties -> [Index -> Word]]
  <2>1. \A i \in Index : received[i + 1] \in Word
    BY <1>0, <1>2, <1>11 DEF Shares
  <2> QED BY <1>2, <2>1 DEF Shares
<1> HIDE DEF t
<1>15. Agrees(t)
  <2> SUFFICES ASSUME NEW p \in Parties, NEW q \in Parties, NEW i \in Index, NEW j \in Index,
                      ShareOf(p, i) = ShareOf(q, j)
               PROVE  t[p][i] = t[q][j]
    BY DEF Agrees
  <2>1. PICK o \in g, k \in Index : ShareOf(o, k) = ShareOf(p, i) /\ t[p][i] = mine[o][k]
    BY <1>13
  <2>2. PICK u \in g, l \in Index : ShareOf(u, l) = ShareOf(q, j) /\ t[q][j] = mine[u][l]
    BY <1>13
  <2> QED
    BY <1>1, <2>1, <2>2
<1>16. Fine(t) /\ view[x].enc \in Encodings \cup {"none"} /\ NumParties - 1 \in Nat
  BY <1>0, <1>14, <1>15 DEF Fine, Shares, Typed, SharingTypeOK, FourPartiesAssumption
<1>17. GeneratorsInStep' /\ nonce' \in Counts
  BY <1>0, <1>3, <1>16, DrawnByInStep, DrawnByTyped
<1>18. Ideal!Reshare(x)
  <2>1. TwoToFour /\ DOMAIN view = Registers /\ view[x].enc \in Encodings
    <3>1. view[x].enc # "none"
      BY Zenon DEF Reshare
    <3> QED BY <1>16, <3>1 DEF FourPartiesAssumption, TwoToFour, Honest, Typed
  <2>2. \A q \in Parties : \E p \in g, j \in Index :
            ShareOf(p, j) = ShareOf(q, 0) /\ t[q][0] = Rerandomized(x, g)[p][j]
    BY <1>0, <1>13 DEF mine
  <2>3. t \in Shares /\ g \in Groups
    BY <1>0, <1>16 DEF Fine
  <2> HIDE DEF g
  <2>4. Reconstruct(view[x].enc, t) = Reconstruct(view[x].enc, view[x].sh)
    BY <1>0, <2>1, <2>2, <2>3, RerandomizedReconstructs
  <2> QED BY <1>3, <2>1, <2>4, ReshareIsIdeal
<1> QED
  BY <1>3, <1>10, <1>16, <1>17, <1>18, WriteFine

(* The primitives on one vector.                                           *)
LEMMA OnOneHonest ==
    ASSUME FourPartiesAssumption, WordsDrawn, Honest, NEW x \in Registers, OnOne(x)
    PROVE  Honest'
<1>0. SharingAssumption /\ Replicated /\ GeneratorsInStep /\ Typed /\ GeneratorsInStep'
  BY Four, OnOneInStep DEF Honest
<1>1. ASSUME NEW enc \in Encodings, NEW w \in Inputs, SecretShare(x, enc, w, 0, 0), UNCHANGED ok
      PROVE  Honest'
  <2>1. 0 \in Parties /\ Write(x, Vector(enc, Dealt(enc, w, 0, 0)))
    BY <1>1, Four DEF SecretShare
  <2>2. Agrees(Dealt(enc, w, 0, 0))
    BY <2>1, DealtAgrees
  <2>3. Replicated' /\ Typed'
    BY <1>0, <1>1, <2>1, <2>2, WriteKeeps, SecretShareTyped
  <2> QED BY <1>0, <1>1, <2>3 DEF Honest
<1>2. ASSUME NEW enc \in Encodings, NEW w \in Inputs, NEW p \in Parties,
             PublicShare(x, enc, w, p), UNCHANGED ok
      PROVE  Honest'
  <2>1. Replicated' /\ Typed'
    BY <1>0, <1>2, PublicShareKeeps, PublicShareTyped
  <2> QED BY <1>0, <1>2, <2>1 DEF Honest
<1>3. CASE OpenShares(x)
  <2> DEFINE received == [p \in Parties |-> view[x].sh[Rank(p, 3)][0]]
  <2>1. \A p \in Parties : received[p] \in Word
    <3>1. \A p \in Parties : Rank(p, 3) \in Parties /\ 0 \in Index
      BY Four
    <3> QED BY <1>0, <3>1, TypedFacts
  <2>2. /\ opened' = [p \in Parties |->
               Add(view[x].enc, SumOver(view[x].enc, Index, view[x].sh[p]), received[p])]
        /\ UNCHANGED view /\ Call("open", <<x>>) /\ NothingDrawn /\ UNCHANGED ok
    BY <1>3 DEF OpenShares, Open
  <2> HIDE DEF received
  <2>3. Typed'
    BY <1>0, <2>1, <2>2, OpenTyped
  <2>4. Replicated'
    BY <1>0, <2>2 DEF Replicated, Agrees
  <2> QED BY <1>0, <2>2, <2>3, <2>4 DEF Honest
<1>4. ASSUME NEW p \in Parties, Reshare(x, p) PROVE Honest'
  BY <1>4, ReshareFine
<1> QED
  BY <1>1, <1>2, <1>3, <1>4 DEF OnOne

(* The primitives that compute a vector from another.                      *)
LEMMA OnTwoHonest ==
    ASSUME FourPartiesAssumption, WordsDrawn, Honest,
           NEW x \in Registers, NEW z \in Registers, OnTwo(x, z)
    PROVE  Honest'
<1>0. /\ SharingAssumption /\ Replicated /\ GeneratorsInStep /\ Typed /\ GeneratorsInStep'
      /\ Agrees(view[x].sh) /\ "A" \in Encodings /\ BitsAssumption
  BY Four, FourTyped, OnTwoInStep DEF Honest, Replicated
<1>1. CASE (NotB(x, z) \/ NotB1(x, z)) /\ UNCHANGED ok
  <2>1. Replicated' /\ Typed'
    BY <1>0, <1>1, NotKeeps, NotTyped
  <2> QED BY <1>0, <1>1, <2>1 DEF Honest
<1>2. CASE (Mask(x, z) \/ LTZ(x, z)) /\ UNCHANGED ok
  <2>1. Replicated' /\ Typed'
    BY <1>0, <1>2, BitsKeep, BitsTyped
  <2> QED BY <1>0, <1>2, <2>1 DEF Honest
<1>3. CASE B2ABit(x, z)
  <2> DEFINE half == [p \in Parties |-> HalfBit(x, p)]
             share0 == Input("A", 1, 0, 2, 3, 0, half)
             share1 == Input("A", 3, 2, 0, 1, 0, half)
             difference == Local(Minus, inp(share0), inp(share1))
             k == [g \in Parties |-> IF g \in {share0.g, share1.g} THEN 1 ELSE 0]
  <2>1. /\ Write(z, Vector("A", Product("A", difference, difference, k)))
        /\ Checked(InputSame(share0) /\ InputSame(share1) /\ ProductSame("A", difference, difference, k))
        /\ Drawn(LAMBDA p, S : InputsDrawn(<<share0, share1>>, p, S) + ProductDrawn(p, S))
        /\ Call("b2a_bit", <<x, z>>)
    BY <1>3, Zenon DEF B2ABit
  <2>2. half[1] = half[0] /\ half[3] = half[2] /\ \A p \in Parties : half[p] \in Word
    BY <1>0, Four, SameParts, PartsTyped
  <2> HIDE DEF half
  <2>3. WellPut(share0) /\ WellPut(share1)
    BY <2>2 DEF WellPut, Roles, Input
  <2>4. k \in [Parties -> Nat]
    OBVIOUS
  <2>5. IsFiniteSet(DOMAIN <<share0, share1>>)
    <3>1. DOMAIN <<share0, share1>> = 1 .. 2 /\ 1 \in Int /\ 2 \in Int
      OBVIOUS
    <3> QED BY <3>1, FS_Interval, Zenon
  <2>6. nonce' \in Counts
    <3> DEFINE ins == <<share0, share1>>
    <3>1. \A p \in Parties, S \in Groups : InputsDrawn(ins, p, S) + ProductDrawn(p, S) \in Nat
      <4> HIDE DEF ins
      <4> QED BY <2>5, InputsDrawnTyped, ProductDrawnTyped DEF ins
    <3>2. nonce' = [p \in Parties |-> [S \in Groups |->
                      nonce[p][S] + (InputsDrawn(ins, p, S) + ProductDrawn(p, S))]]
      BY <2>1 DEF Drawn
    <3> HIDE DEF ins
    <3> QED BY <1>0, <3>1, <3>2, TypedFacts DEF Counts
  <2> HIDE DEF share0, share1
  <2>7. InputSame(share0) /\ InputSame(share1) /\ Fine(inp(share0)) /\ Fine(inp(share1))
    BY <1>0, <2>3, InputFine
  <2>8. Fine(difference)
    BY <1>0, <2>7, LocalFine
  <2> HIDE DEF difference, k
  <2>9. ProductSame("A", difference, difference, k) /\ Fine(Product("A", difference, difference, k))
    BY <1>0, <2>4, <2>8, ProductFine
  <2>10. ok' = ok
    BY <2>1, <2>7, <2>9 DEF Checked, Honest
  <2> QED
    BY <1>0, <2>1, <2>6, <2>9, <2>10, WriteFine
<1> QED
  BY <1>1, <1>2, <1>3 DEF OnTwo

(* Inputs that are compared and drawn.                                     *)
LEMMA InputsFine ==
    ASSUME FourPartiesAssumption, WordsDrawn, Honest, NEW ins, InputsDone(ins),
           IsFiniteSet(DOMAIN ins), \A n \in DOMAIN ins : WellPut(ins[n])
    PROVE  ok' = ok /\ nonce' \in Counts
<1>1. \A n \in DOMAIN ins : InputSame(ins[n])
  BY InputFine DEF Honest
<1>2. ok' = ok
  BY <1>1 DEF InputsDone, Checked, Honest
<1>3. \A p \in Parties, S \in Groups : InputsDrawn(ins, p, S) \in Nat
  BY InputsDrawnTyped
<1>4. nonce' = [p \in Parties |-> [S \in Groups |-> nonce[p][S] + InputsDrawn(ins, p, S)]]
  BY DEF InputsDone, Drawn
<1> QED
  BY <1>2, <1>3, <1>4, FourTyped, TypedFacts DEF Honest, Counts

(* The primitives on two vectors, or with two results.                     *)
LEMMA OnThreeHonest ==
    ASSUME FourPartiesAssumption, WordsDrawn, Honest,
           NEW x \in Registers, NEW y \in Registers, NEW z \in Registers, OnThree(x, y, z)
    PROVE  Honest'
<1>0. /\ SharingAssumption /\ Replicated /\ GeneratorsInStep /\ Typed /\ GeneratorsInStep'
      /\ "A" \in Encodings /\ "B" \in Encodings /\ BitsAssumption
  BY Four, FourTyped, OnThreeInStep DEF Honest
<1>1. \A r \in Registers : Fine(view[r].sh)
  BY <1>0, FourTyped DEF Fine, Replicated
<1>2. ASSUME NEW enc \in Encodings, AddUp(x, y, z, enc) \/ Subtract(x, y, z, enc), UNCHANGED ok
      PROVE  Honest'
  <2>1. Replicated' /\ Typed'
    BY <1>0, <1>2, AddUpKeeps, SubtractKeeps, LocalTyped
  <2> QED BY <1>0, <1>2, <2>1 DEF Honest
<1>3. ASSUME NEW enc \in Encodings, Multiply(x, y, z, enc) PROVE Honest'
  <2> DEFINE none == [g \in Parties |-> 0]
             s == view[x].sh
             t == view[y].sh
  <2>1. /\ Write(z, Vector(enc, Product(enc, s, t, none)))
        /\ Checked(ProductSame(enc, s, t, none))
        /\ Drawn(ProductDrawn) /\ Call("multiply", <<x, y, z, enc>>)
    BY <1>3, Zenon DEF Multiply
  <2>2. none \in [Parties -> Nat] /\ Fine(s) /\ Fine(t)
    BY <1>1
  <2> HIDE DEF none, s, t
  <2>3. ProductSame(enc, s, t, none) /\ Fine(Product(enc, s, t, none))
    BY <1>0, <2>2, ProductFine
  <2>4. ok' = ok
    BY <2>1, <2>3 DEF Checked, Honest
  <2>5. nonce' \in Counts
    <3>1. \A p \in Parties, S \in Groups : ProductDrawn(p, S) \in Nat
      BY ProductDrawnTyped
    <3>2. nonce' = [p \in Parties |-> [S \in Groups |-> nonce[p][S] + ProductDrawn(p, S)]]
      BY <2>1 DEF Drawn
    <3> QED BY <1>0, <3>1, <3>2, TypedFacts DEF Counts
  <2> QED
    BY <1>0, <2>1, <2>3, <2>4, <2>5, WriteFine
<1>4. CASE DivConst(x, y, z)
  <2> DEFINE rest == [p \in Parties |-> RestOfPart(x, p)]
             floor == [p \in Parties |-> Floor(Part(x, p))]
             res1 == Input("A", 3, 2, 0, 1, 0, floor)
             res2 == Input("A", 1, 0, 2, 3, 0, floor)
             err1 == Input("A", 3, 2, 0, 1, 1, rest)
             err2 == Input("A", 1, 0, 2, 3, 1, rest)
             ins == <<res1, res2, err1, err2>>
             quotient == Local(Plus, inp(res1), inp(res2))
             error == Local(Plus, inp(err1), inp(err2))
  <2>1. /\ WriteBoth(y, Vector("A", quotient), z, Vector("A", error))
        /\ InputsDone(ins) /\ Call("div", <<x, y, z>>)
    BY <1>4, Zenon DEF DivConst
  <2>2. /\ floor[1] = floor[0] /\ floor[3] = floor[2] /\ \A p \in Parties : floor[p] \in Word
        /\ rest[1] = rest[0] /\ rest[3] = rest[2] /\ \A p \in Parties : rest[p] \in Word
    BY <1>0, <1>1, Four, SameParts, PartsTyped DEF Fine
  <2> HIDE DEF floor, rest
  <2>3. WellPut(res1) /\ WellPut(res2) /\ WellPut(err1) /\ WellPut(err2)
    BY <2>2 DEF WellPut, Roles, Input
  <2> HIDE DEF res1, res2, err1, err2
  <2>4. IsFiniteSet(DOMAIN ins) /\ \A n \in DOMAIN ins : WellPut(ins[n])
    <3>1. DOMAIN ins = 1 .. 4 /\ 1 \in Int /\ 4 \in Int
      OBVIOUS
    <3>2. IsFiniteSet(1 .. 4)
      BY <3>1, FS_Interval, Zenon
    <3>3. \A n \in DOMAIN ins : WellPut(ins[n])
      BY <2>3
    <3> QED BY <3>1, <3>2, <3>3
  <2>5. Fine(inp(res1)) /\ Fine(inp(res2)) /\ Fine(inp(err1)) /\ Fine(inp(err2))
    BY <1>0, <2>3, InputFine
  <2>6. Fine(quotient) /\ Fine(error)
    BY <1>0, <2>5, LocalFine
  <2> HIDE DEF ins, quotient, error
  <2>7. ok' = ok /\ nonce' \in Counts
    BY <2>1, <2>4, InputsFine
  <2> QED
    BY <1>0, <2>1, <2>6, <2>7, WriteBothFine
<1>5. CASE Redistribute(x, y, z)
  <2> DEFINE sum == [p \in Parties |-> IF p \in {0, 2} THEN Plus(view[x].sh[p][0], view[x].sh[p][1])
                                       ELSE Plus(view[x].sh[p][1], view[x].sh[p][2])]
             first == Input("B", 0, 3, 1, 2, 0, sum)
             second == Input("B", 2, 1, 3, 0, 0, sum)
             ins == <<first, second>>
  <2>1. /\ WriteBoth(y, Vector("B", inp(first)), z, Vector("B", inp(second)))
        /\ InputsDone(ins) /\ Call("redistribute", <<x, y, z>>)
    BY <1>5, Zenon DEF Redistribute
  <2>2. sum[0] = sum[3] /\ sum[2] = sum[1] /\ \A p \in Parties : sum[p] \in Word
    <3> DEFINE s == view[x].sh
    <3>1. \A p \in Parties, i \in Index : s[p][i] \in Word
      BY <1>0, TypedFacts
    <3>2. s[0][1] = s[1][0] /\ s[2][1] = s[3][0] /\ s[3][1] = s[0][0] /\ s[3][2] = s[1][0]
          /\ s[1][1] = s[2][0] /\ s[1][2] = s[3][0]
      BY <1>1, AllShares DEF Fine
    <3> HIDE DEF s
    <3>3. \A p \in Parties : sum[p] = IF p \in {0, 2} THEN Plus(s[p][0], s[p][1]) ELSE Plus(s[p][1], s[p][2])
      BY DEF s
    <3> HIDE DEF sum
    <3> QED BY <1>0, <3>1, <3>2, <3>3, Four, Closed
  <2> HIDE DEF sum
  <2>3. WellPut(first) /\ WellPut(second)
    BY <2>2 DEF WellPut, Roles, Input
  <2> HIDE DEF first, second
  <2>4. IsFiniteSet(DOMAIN ins) /\ \A n \in DOMAIN ins : WellPut(ins[n])
    <3>1. DOMAIN ins = 1 .. 2 /\ 1 \in Int /\ 2 \in Int
      OBVIOUS
    <3>2. IsFiniteSet(1 .. 2)
      BY <3>1, FS_Interval, Zenon
    <3>3. \A n \in DOMAIN ins : WellPut(ins[n])
      BY <2>3
    <3> QED BY <3>1, <3>2, <3>3
  <2>5. Fine(inp(first)) /\ Fine(inp(second))
    BY <1>0, <2>3, InputFine
  <2> HIDE DEF ins
  <2>6. ok' = ok /\ nonce' \in Counts
    BY <2>1, <2>4, InputsFine
  <2> QED
    BY <1>0, <2>1, <2>5, <2>6, WriteBothFine
<1> QED
  BY <1>2, <1>3, <1>4, <1>5 DEF OnThree

(* The inductive invariant: the copies of every share agree, the generators*)
(* are in step, all values are words, and no comparison has failed.  One   *)
(* part needs the other: words that are compared agree because the shares  *)
(* and the generators they come from do, and a share that is sent twice    *)
(* is the same for all who receive it for that very reason.                *)
THEOREM CustomHonest ==
    ASSUME Custom4PCAssumption, WordsDrawn
    PROVE  Spec => []Honest
<1>0. FourPartiesAssumption
  BY DEF Custom4PCAssumption
<1>1. Init => Honest
  BY <1>0, Four, StartAgrees, StartTyped DEF Init, Honest
<1>2. Honest /\ [Next]_vars => Honest'
  <2>1. ASSUME Honest, Next PROVE Honest'
    BY <1>0, <2>1, OnOneHonest, OnTwoHonest, OnThreeHonest DEF Next
  <2>2. ASSUME Honest, UNCHANGED vars PROVE Honest'
    BY <2>2 DEF Honest, Replicated, Agrees, GeneratorsInStep, Typed, SharingTypeOK, vars, sharingVars
  <2> QED
    BY <2>1, <2>2
<1> QED
  BY <1>1, <1>2, PTL DEF Spec

(* Whatever the parties compute, hold and open are machine words.          *)
THEOREM CustomTypeCorrect ==
    ASSUME Custom4PCAssumption, WordsDrawn
    PROVE  Spec => []TypeOK
<1>1. Honest => TypeOK
  BY DEF Honest, Typed, TypeOK
<1> QED
  BY <1>1, CustomHonest, PTL

(* The three copies of every share are equal in every state, although a    *)
(* product is put together from five words and each party computes three   *)
(* of them by its role.                                                    *)
THEOREM CustomSharesAgree ==
    ASSUME Custom4PCAssumption, WordsDrawn
    PROVE  Spec => []SharesAgree
<1>1. Honest => SharesAgree
  BY ReplicatedIsSharesAgree DEF Honest
<1> QED
  BY <1>1, CustomHonest, PTL

(* No comparison fails between parties that follow the protocol: what      *)
(* arrives twice arrives twice the same.                                   *)
THEOREM CustomNoFalseAlarm ==
    ASSUME Custom4PCAssumption, WordsDrawn
    PROVE  Spec => []NoFalseAlarm
<1>1. Honest => NoFalseAlarm
  BY DEF Honest, NoFalseAlarm
<1> QED
  BY <1>1, CustomHonest, PTL

-----------------------------------------------------------------------------
(* Four parties are those of the lemmas about sums of shares.              *)
LEMMA FourAreFour ==
    ASSUME FourPartiesAssumption
    PROVE  FourShares
BY DEF FourPartiesAssumption, FourShares

(* The numbers of the terms of a product.                                  *)
LEMMA TermNumbers ==
    ASSUME FourPartiesAssumption, BitsAssumption, NEW enc, NEW i \in Places,
           NEW x \in Shares, NEW a, Firsts(enc, i, x, a), NEW y \in Shares, NEW b, Firsts(enc, i, y, b),
           NEW p \in Parties, NEW q \in Parties
    PROVE  /\ Neighbours(enc, x, y, p, q) \in Word /\ Opposites(enc, x, y, p, q) \in Word
           /\ Num(enc, i, Neighbours(enc, x, y, p, q), a[p] * b[p] + (a[p] * b[q] + a[q] * b[p]))
           /\ Num(enc, i, Opposites(enc, x, y, p, q), a[p] * b[q] + a[q] * b[p])
<1> DEFINE m(j, k) == Mul(enc, x[j][0], y[k][0])
<1>1. \A j \in Parties : x[j][0] \in Word /\ y[j][0] \in Word
  BY Four DEF Shares
<1>2. \A j \in Parties : Num(enc, i, x[j][0], a[j]) /\ Num(enc, i, y[j][0], b[j])
  BY DEF Firsts
<1>3. \A j, k \in Parties : m(j, k) \in Word /\ Num(enc, i, m(j, k), a[j] * b[k])
  BY <1>1, <1>2, NumbersCompute, SharesClosed
<1> DEFINE o == Add(enc, m(p, q), m(q, p))
<1>4. o = Opposites(enc, x, y, p, q) /\ Add(enc, m(p, p), o) = Neighbours(enc, x, y, p, q)
  BY DEF Opposites, Neighbours
<1> HIDE DEF m
<1>5. o \in Word /\ Num(enc, i, o, a[p] * b[q] + a[q] * b[p])
  <2>1. /\ m(p, q) \in Word /\ Num(enc, i, m(p, q), a[p] * b[q])
        /\ m(q, p) \in Word /\ Num(enc, i, m(q, p), a[q] * b[p])
    BY <1>3
  <2> QED BY <2>1, NumbersCompute, SharesClosed
<1> HIDE DEF o
<1>6. /\ Add(enc, m(p, p), o) \in Word
      /\ Num(enc, i, Add(enc, m(p, p), o), a[p] * b[p] + (a[p] * b[q] + a[q] * b[p]))
  <2>1. m(p, p) \in Word /\ Num(enc, i, m(p, p), a[p] * b[p])
    BY <1>3
  <2> QED BY <1>5, <2>1, NumbersCompute, SharesClosed
<1> QED
  BY <1>4, <1>5, <1>6

(* That of a word whose mask is changed.                                   *)
LEMMA RemaskedNumber ==
    ASSUME BitsAssumption, NEW enc, NEW i \in Places,
           NEW w \in Word, NEW a, Num(enc, i, w, a), NEW m \in Word, NEW b, Num(enc, i, m, b),
           NEW n \in Word, NEW c, Num(enc, i, n, c)
    PROVE  Remasked(enc, w, m, n) \in Word /\ Num(enc, i, Remasked(enc, w, m, n), (a - b) + c)
<1>1. Sub(enc, w, m) \in Word /\ Num(enc, i, Sub(enc, w, m), a - b)
  BY SharesClosed, NumbersCompute
<1> QED
  BY <1>1, SharesClosed, NumbersCompute DEF Remasked

(* The masks of a product cancel.                                          *)
LEMMA MasksCancel ==
    ASSUME NEW a, FourInts(a), NEW b, FourInts(b), NEW r, FourInts(r), NEW u \in Int, NEW v \in Int
    PROVE  ((((a[3] * b[3] + (a[3] * b[0] + a[0] * b[3])) - r[0]) + r[1]) + u)
               + ((((a[0] * b[0] + (a[0] * b[1] + a[1] * b[0])) - r[1]) + r[2]) + v)
               + ((((a[1] * b[1] + (a[1] * b[2] + a[2] * b[1])) - r[2]) + r[3])
                      + ((a[0] * b[2] + a[2] * b[0]) - u))
               + ((((a[2] * b[2] + (a[2] * b[3] + a[3] * b[2])) - r[3]) + r[0])
                      + ((a[1] * b[3] + a[3] * b[1]) - v))
               = (a[0] + a[1] + a[2] + a[3]) * (b[0] + b[1] + b[2] + b[3])
<1>0. /\ a[0] \in Int /\ a[1] \in Int /\ a[2] \in Int /\ a[3] \in Int
      /\ b[0] \in Int /\ b[1] \in Int /\ b[2] \in Int /\ b[3] \in Int
  BY DEF FourInts
<1>a0. PICK m00 \in Int, m01 \in Int, m02 \in Int, m03 \in Int :
          m00 = a[0] * b[0] /\ m01 = a[0] * b[1] /\ m02 = a[0] * b[2] /\ m03 = a[0] * b[3]
  BY <1>0
<1>a1. PICK m10 \in Int, m11 \in Int, m12 \in Int, m13 \in Int :
          m10 = a[1] * b[0] /\ m11 = a[1] * b[1] /\ m12 = a[1] * b[2] /\ m13 = a[1] * b[3]
  BY <1>0
<1>a2. PICK m20 \in Int, m21 \in Int, m22 \in Int, m23 \in Int :
          m20 = a[2] * b[0] /\ m21 = a[2] * b[1] /\ m22 = a[2] * b[2] /\ m23 = a[2] * b[3]
  BY <1>0
<1>a3. PICK m30 \in Int, m31 \in Int, m32 \in Int, m33 \in Int :
          m30 = a[3] * b[0] /\ m31 = a[3] * b[1] /\ m32 = a[3] * b[2] /\ m33 = a[3] * b[3]
  BY <1>0
<1>2. PICK r0 \in Int, r1 \in Int, r2 \in Int, r3 \in Int : r0 = r[0] /\ r1 = r[1] /\ r2 = r[2] /\ r3 = r[3]
  BY DEF FourInts
<1>3. (a[0] + a[1] + a[2] + a[3]) * (b[0] + b[1] + b[2] + b[3])
          = (m00 + m11 + m22 + m33) + (m01 + m10) + (m02 + m20)
            + (m03 + m30) + (m12 + m21) + (m13 + m31) + (m23 + m32)
  BY <1>a0, <1>a1, <1>a2, <1>a3, SixteenTerms, Zenon
<1>4. ((((m33 + (m30 + m03)) - r0) + r1) + u) + ((((m00 + (m01 + m10)) - r1) + r2) + v)
          + ((((m11 + (m12 + m21)) - r2) + r3) + ((m02 + m20) - u))
          + ((((m22 + (m23 + m32)) - r3) + r0) + ((m13 + m31) - v))
          = (m00 + m11 + m22 + m33) + (m01 + m10) + (m02 + m20)
            + (m03 + m30) + (m12 + m21) + (m13 + m31) + (m23 + m32)
  OBVIOUS
<1> QED
  BY <1>a0, <1>a1, <1>a2, <1>a3, <1>2, <1>3, <1>4, Zenon

(* The shares of a product add up to the product.                          *)
LEMMA ProductReconstructs ==
    ASSUME FourPartiesAssumption, WordsDrawn, GeneratorsInStep, Typed,
           NEW enc, NEW x, Fine(x), NEW y, Fine(y), NEW k, k \in [Parties -> Nat]
    PROVE  Reconstruct(enc, Product(enc, x, y, k)) = Mul(enc, Reconstruct(enc, x), Reconstruct(enc, y))
<1> DEFINE u == Product(enc, x, y, k)
           rx == Reconstruct(enc, x)
           ry == Reconstruct(enc, y)
           R(g, n) == MessageOf(g, k, n)
<1>1. /\ FourShares /\ FewParties /\ BitsAssumption /\ x \in Shares /\ y \in Shares /\ u \in Shares
      /\ 0 \in Parties /\ 1 \in Parties /\ 2 \in Parties /\ 3 \in Parties
      /\ ProductShares(enc, x, y, k, u)
  BY FourAreFour, FourFacts, ProductFine DEF Fine
<1>2. rx \in Word /\ ry \in Word /\ Reconstruct(enc, u) \in Word
  BY <1>1, ReconstructIsWord
<1>3. \A g \in Parties, n \in Nat : R(g, n) \in Word
  <2> SUFFICES ASSUME NEW g \in Parties, NEW n \in Nat
               PROVE  R(g, n) \in Word
    OBVIOUS
  <2>1. k[g] + n \in Nat /\ (g + 1) % 4 \in Parties
    BY Four
  <2> QED BY <2>1, FourTyped DEF MessageOf
<1>4. PICK r0 \in Word, r1 \in Word, r2 \in Word, r3 \in Word, m1 \in Word, m2 \in Word :
          /\ r0 = R(0, 0) /\ r1 = R(1, 0) /\ r2 = R(2, 0) /\ r3 = R(3, 0)
          /\ m1 = R(1, 1) /\ m2 = R(2, 1)
  BY <1>1, <1>3
<1> DEFINE n30 == Neighbours(enc, x, y, 3, 0)
           n01 == Neighbours(enc, x, y, 0, 1)
           n12 == Neighbours(enc, x, y, 1, 2)
           n23 == Neighbours(enc, x, y, 2, 3)
           o02 == Opposites(enc, x, y, 0, 2)
           o13 == Opposites(enc, x, y, 1, 3)
<1>5. /\ u[0][0] = Add(enc, Remasked(enc, n30, r0, r1), m1)
      /\ u[1][0] = Add(enc, Remasked(enc, n01, r1, r2), m2)
      /\ u[2][0] = Add(enc, Remasked(enc, n12, r2, r3), Sub(enc, o02, m1))
      /\ u[3][0] = Add(enc, Remasked(enc, n23, r3, r0), Sub(enc, o13, m2))
  BY <1>1, <1>4 DEF ProductShares
<1> HIDE DEF u, R
<1>6. ASSUME NEW i \in Places
      PROVE  \E n : Num(enc, i, Reconstruct(enc, u), n) /\ Num(enc, i, Mul(enc, rx, ry), n)
  <2>1. PICK a : Firsts(enc, i, x, a)
    BY <1>1, SharesHaveNumbers
  <2>2. PICK b : Firsts(enc, i, y, b)
    BY <1>1, SharesHaveNumbers
  <2>3. FourInts(a) /\ FourInts(b)
    BY <1>1, <2>1, <2>2 DEF Firsts, Num, FourInts
  <2>4. PICK c0, c1, c2, c3, v, w :
            /\ Num(enc, i, r0, c0) /\ Num(enc, i, r1, c1) /\ Num(enc, i, r2, c2) /\ Num(enc, i, r3, c3)
            /\ Num(enc, i, m1, v) /\ Num(enc, i, m2, w)
    BY <1>1, HasNumber
  <2> DEFINE d30 == a[3] * b[3] + (a[3] * b[0] + a[0] * b[3])
             d01 == a[0] * b[0] + (a[0] * b[1] + a[1] * b[0])
             d12 == a[1] * b[1] + (a[1] * b[2] + a[2] * b[1])
             d23 == a[2] * b[2] + (a[2] * b[3] + a[3] * b[2])
             e02 == a[0] * b[2] + a[2] * b[0]
             e13 == a[1] * b[3] + a[3] * b[1]
  <2>5. /\ n30 \in Word /\ Num(enc, i, n30, d30) /\ n01 \in Word /\ Num(enc, i, n01, d01)
        /\ n12 \in Word /\ Num(enc, i, n12, d12) /\ n23 \in Word /\ Num(enc, i, n23, d23)
        /\ o02 \in Word /\ Num(enc, i, o02, e02) /\ o13 \in Word /\ Num(enc, i, o13, e13)
    BY <1>1, <2>1, <2>2, TermNumbers
  <2> HIDE DEF n30, n01, n12, n23, o02, o13, d30, d01, d12, d23, e02, e13
  <2> DEFINE k0 == Remasked(enc, n30, r0, r1)
             k1 == Remasked(enc, n01, r1, r2)
             k2 == Remasked(enc, n12, r2, r3)
             k3 == Remasked(enc, n23, r3, r0)
             l2 == Sub(enc, o02, m1)
             l3 == Sub(enc, o13, m2)
  <2>6. /\ k0 \in Word /\ Num(enc, i, k0, (d30 - c0) + c1) /\ k1 \in Word /\ Num(enc, i, k1, (d01 - c1) + c2)
        /\ k2 \in Word /\ Num(enc, i, k2, (d12 - c2) + c3) /\ k3 \in Word /\ Num(enc, i, k3, (d23 - c3) + c0)
    BY <1>1, <2>4, <2>5, RemaskedNumber
  <2>7. l2 \in Word /\ Num(enc, i, l2, e02 - v) /\ l3 \in Word /\ Num(enc, i, l3, e13 - w)
    BY <1>1, <2>4, <2>5, SharesClosed, NumbersCompute
  <2>8. /\ u[0][0] = Add(enc, k0, m1) /\ u[1][0] = Add(enc, k1, m2)
        /\ u[2][0] = Add(enc, k2, l2) /\ u[3][0] = Add(enc, k3, l3)
    BY <1>5
  <2> HIDE DEF k0, k1, k2, k3, l2, l3
  <2> DEFINE t0 == ((d30 - c0) + c1) + v
             t1 == ((d01 - c1) + c2) + w
             t2 == ((d12 - c2) + c3) + (e02 - v)
             t3 == ((d23 - c3) + c0) + (e13 - w)
  <2>9. /\ Num(enc, i, u[0][0], t0) /\ Num(enc, i, u[1][0], t1)
        /\ Num(enc, i, u[2][0], t2) /\ Num(enc, i, u[3][0], t3)
    BY <1>1, <2>4, <2>6, <2>7, <2>8, NumbersCompute
  <2> HIDE DEF t0, t1, t2, t3
  <2>10. Num(enc, i, Reconstruct(enc, u), t0 + t1 + t2 + t3)
    BY <1>1, <2>9, FourAddUp
  <2>11. Num(enc, i, Mul(enc, rx, ry), (a[0] + a[1] + a[2] + a[3]) * (b[0] + b[1] + b[2] + b[3]))
    <3>1. Num(enc, i, rx, a[0] + a[1] + a[2] + a[3]) /\ Num(enc, i, ry, b[0] + b[1] + b[2] + b[3])
      <4>1. /\ Num(enc, i, x[0][0], a[0]) /\ Num(enc, i, x[1][0], a[1])
            /\ Num(enc, i, x[2][0], a[2]) /\ Num(enc, i, x[3][0], a[3])
            /\ Num(enc, i, y[0][0], b[0]) /\ Num(enc, i, y[1][0], b[1])
            /\ Num(enc, i, y[2][0], b[2]) /\ Num(enc, i, y[3][0], b[3])
        BY <1>1, <2>1, <2>2 DEF Firsts
      <4> QED BY <1>1, <4>1, FourAddUp
    <3> HIDE DEF rx, ry
    <3> QED BY <1>1, <1>2, <3>1, NumbersCompute
  <2>12. t0 + t1 + t2 + t3 = (a[0] + a[1] + a[2] + a[3]) * (b[0] + b[1] + b[2] + b[3])
    <3> DEFINE c == [j \in 0 .. 3 |-> IF j = 0 THEN c0 ELSE IF j = 1 THEN c1 ELSE IF j = 2 THEN c2 ELSE c3]
    <3>1. c[0] = c0 /\ c[1] = c1 /\ c[2] = c2 /\ c[3] = c3
      OBVIOUS
    <3> HIDE DEF c
    <3>2. FourInts(c) /\ v \in Int /\ w \in Int
      BY <2>4, <3>1 DEF Num, FourInts
    <3>3. ((((a[3] * b[3] + (a[3] * b[0] + a[0] * b[3])) - c[0]) + c[1]) + v)
               + ((((a[0] * b[0] + (a[0] * b[1] + a[1] * b[0])) - c[1]) + c[2]) + w)
               + ((((a[1] * b[1] + (a[1] * b[2] + a[2] * b[1])) - c[2]) + c[3])
                      + ((a[0] * b[2] + a[2] * b[0]) - v))
               + ((((a[2] * b[2] + (a[2] * b[3] + a[3] * b[2])) - c[3]) + c[0])
                      + ((a[1] * b[3] + a[3] * b[1]) - w))
               = (a[0] + a[1] + a[2] + a[3]) * (b[0] + b[1] + b[2] + b[3])
      BY <2>3, <3>2, MasksCancel
    <3> QED BY <3>1, <3>3, Zenon DEF t0, t1, t2, t3, d30, d01, d12, d23, e02, e13
  <2> QED BY <2>10, <2>11, <2>12
<1>7. Mul(enc, rx, ry) \in Word
  <2> HIDE DEF rx, ry
  <2> QED BY <1>1, <1>2, SharesClosed
<1> HIDE DEF rx, ry
<1>8. Reconstruct(enc, u) = Mul(enc, rx, ry)
  BY <1>1, <1>2, <1>6, <1>7, SameNumbers
<1> QED
  BY <1>8 DEF u, rx, ry

-----------------------------------------------------------------------------
(* Sum and difference of two vectors of numbers.                           *)
LEMMA LocalSums ==
    ASSUME FourPartiesAssumption, NEW s, Fine(s), NEW t, Fine(t)
    PROVE  /\ Reconstruct("A", Local(Plus, s, t)) = Plus(Reconstruct("A", s), Reconstruct("A", t))
           /\ Reconstruct("A", Local(Minus, s, t)) = Minus(Reconstruct("A", s), Reconstruct("A", t))
<1> DEFINE u == Local(Plus, s, t)
           v == Local(Minus, s, t)
<1>1. FewParties /\ BitsAssumption /\ s \in Shares /\ t \in Shares /\ 0 \in Index
  BY FourAreFour, FourFacts DEF Fine
<1>2. u \in Shares /\ v \in Shares
  BY <1>1, LocalFine DEF Fine
<1>3. \A a, b : Add("A", a, b) = Plus(a, b) /\ Sub("A", a, b) = Minus(a, b)
  BY DEF Add, Sub
<1>4. \A p \in Parties : u[p][0] = Plus(s[p][0], t[p][0]) /\ v[p][0] = Minus(s[p][0], t[p][0])
  BY <1>1 DEF Local
<1> HIDE DEF u, v
<1>5. \A p \in Parties : u[p][0] = Add("A", s[p][0], t[p][0]) /\ v[p][0] = Sub("A", s[p][0], t[p][0])
  BY <1>3, <1>4
<1>6. /\ Reconstruct("A", u) = Add("A", Reconstruct("A", s), Reconstruct("A", t))
      /\ Reconstruct("A", v) = Sub("A", Reconstruct("A", s), Reconstruct("A", t))
  BY <1>1, <1>2, <1>5, LocalReconstructs
<1> QED
  BY <1>3, <1>6 DEF u, v

(* The halves of a vector, by its shares.                                  *)
LEMMA HalvesAre ==
    ASSUME FourPartiesAssumption, NEW x, NEW s, s = view[x].sh, Agrees(s)
    PROVE  /\ Part(x, 3) = Plus(s[3][0], s[0][0]) /\ Part(x, 1) = Plus(s[1][0], s[2][0])
           /\ HalfBit(x, 3) = Xor(LSB(s[3][0]), LSB(s[0][0]))
           /\ HalfBit(x, 1) = Xor(LSB(s[1][0]), LSB(s[2][0]))
<1>1. abs2sh(3, 0) = 0 /\ abs2sh(3, 1) = 1 /\ abs2sh(1, 2) = 0 /\ abs2sh(1, 3) = 1
  <2>1. \A p, n \in {0, 1, 2, 3} : p # n => abs2sh(p, n) = IF n > p THEN n - p - 1 ELSE n - p + 3
    BY Mod4 DEF abs2sh
  <2> QED BY <2>1
<1>2. /\ sh(x, 3, 0) = s[3][0] /\ sh(x, 3, 1) = s[0][0]
      /\ sh(x, 1, 2) = s[1][0] /\ sh(x, 1, 3) = s[2][0]
  BY <1>1, AllShares DEF sh
<1> QED
  BY <1>2 DEF Part, HalfBit

(* Every primitive of this protocol is one of the abstract machine.        *)
LEMMA HonestFacts ==
    ASSUME FourPartiesAssumption, WordsDrawn, Honest
    PROVE  /\ FourShares /\ TwoToFour /\ FewParties /\ SharingAssumption /\ BitsAssumption
           /\ Replicated /\ GeneratorsInStep /\ Typed /\ DOMAIN view = Registers /\ 0 \in Index
           /\ 0 \in Parties /\ 1 \in Parties /\ 2 \in Parties /\ 3 \in Parties
           /\ "A" \in Encodings /\ "B" \in Encodings /\ Inputs \subseteq Word
           /\ \A r \in Registers : /\ view[r].sh \in Shares /\ Agrees(view[r].sh) /\ Fine(view[r].sh)
                                   /\ view[r].enc \in Encodings \cup {"none"}
<1>1. /\ FourShares /\ TwoToFour /\ FewParties /\ SharingAssumption /\ BitsAssumption /\ 0 \in Index
      /\ 0 \in Parties /\ 1 \in Parties /\ 2 \in Parties /\ 3 \in Parties
  BY FourAreFour, FourFacts
<1>2. Replicated /\ GeneratorsInStep /\ Typed /\ DOMAIN view = Registers
  BY DEF Honest, Typed
<1>3. "A" \in Encodings /\ "B" \in Encodings /\ \A r \in Registers : view[r].sh \in Shares
  BY <1>2, FourTyped
<1> QED
  BY <1>1, <1>2, <1>3 DEF Replicated, Typed, SharingTypeOK, Fine, SharingAssumption

(* Inputs, openings and resharings are the ideal ones.                     *)
LEMMA OnOneIsIdeal ==
    ASSUME FourPartiesAssumption, WordsDrawn, Honest, NEW x \in Registers, OnOne(x)
    PROVE  Ideal!Next
<1>0. /\ FourShares /\ TwoToFour /\ DOMAIN view = Registers /\ 0 \in Parties
      /\ view[x].sh \in Shares /\ Agrees(view[x].sh) /\ Typed /\ 0 \in Index
      /\ Inputs \subseteq Word
  BY HonestFacts
<1>1. ASSUME NEW enc \in Encodings, NEW w \in Inputs, Ideal!Share(x, enc, w) PROVE Ideal!Next
  <2>1. enc \in Ideal!Encodings /\ w \in Ideal!Word
    BY <1>0, IdealWords
  <2> QED BY <1>1, <2>1 DEF Ideal!Next
<1>2. ASSUME NEW enc \in Encodings, NEW w \in Inputs, SecretShare(x, enc, w, 0, 0)
      PROVE  Ideal!Next
  BY <1>0, <1>1, <1>2, SecretShareIsIdeal
<1>3. ASSUME NEW enc \in Encodings, NEW w \in Inputs, NEW k \in Parties, PublicShare(x, enc, w, k)
      PROVE  Ideal!Next
  <2> DEFINE s == [p \in Parties |-> [i \in Index |-> IF p # k /\ i = abs2sh(p, k) THEN w ELSE 0]]
             l == (k + 3) % 4
  <2>1. Call("share", <<x, enc, w>>) /\ Write(x, Vector(enc, s))
    BY <1>3 DEF PublicShare
  <2>2. s \in Shares
    BY <1>0, FourFacts DEF Shares
  <2>3. l \in Parties /\ \A p \in Parties : ShareOf(p, 0) = p
    BY Four
  <2>4. \A p \in Parties : s[p][0] = IF p = l THEN w ELSE 0
    BY <1>0, <2>3, OnlyAbs2sh
  <2> HIDE DEF s, l
  <2>5. Reconstruct(enc, s) = w
    BY <1>0, <2>2, <2>3, <2>4, FourPublic
  <2>6. Ideal!Share(x, enc, w)
    BY <1>0, <2>1, <2>5, ShareIsIdeal
  <2> QED BY <1>1, <2>6
<1>4. CASE OpenShares(x)
  <2> DEFINE enc == view[x].enc
             s == view[x].sh
  <2>1. /\ enc # "none" /\ Call("open", <<x>>) /\ UNCHANGED view
        /\ opened' = [p \in Parties |-> Add(enc, SumOver(enc, Index, s[p]), s[Rank(p, 3)][0])]
    BY <1>4 DEF OpenShares, Open
  <2> HIDE DEF enc, s
  <2>2. \A p \in Parties : opened'[p] = Reconstruct(enc, s)
    <3>1. s \in Shares /\ Agrees(s)
      BY <1>0 DEF s
    <3> QED BY <1>0, <2>1, <3>1, FourOpened
  <2>3. Ideal!Open(x)
    BY <1>0, <2>1, <2>2, OpenIsIdeal DEF enc, s
  <2> QED BY <2>3 DEF Ideal!Next
<1>5. ASSUME NEW p \in Parties, Reshare(x, p) PROVE Ideal!Next
  BY <1>5, ReshareFine DEF Ideal!Next
<1> QED
  BY <1>2, <1>3, <1>4, <1>5 DEF OnOne

(* So are the primitives of one operand,                                   *)
LEMMA OnTwoIsIdeal ==
    ASSUME FourPartiesAssumption, WordsDrawn, Honest,
           NEW x \in Registers, NEW z \in Registers, OnTwo(x, z)
    PROVE  Ideal!Elementwise(x, x, z)
<1> DEFINE s == view[x].sh
<1>0. /\ FourShares /\ FewParties /\ BitsAssumption /\ DOMAIN view = Registers /\ s \in Shares /\ Agrees(s)
      /\ GeneratorsInStep /\ Typed /\ "A" \in Encodings /\ "B" \in Encodings /\ 0 \in Index
      /\ 0 \in Parties /\ 1 \in Parties /\ 2 \in Parties /\ 3 \in Parties
      /\ \A p \in Parties, i \in Index : s[p][i] \in Word
  BY HonestFacts DEF Shares
<1>1. CASE NotB(x, z)
  <2> DEFINE third(p, i) == <<p, i>> \in {<<2, 0>>, <<1, 1>>, <<0, 2>>}
             u == [p \in Parties |-> [i \in Index |->
                     IF third(p, i) THEN Complement(s[p][i]) ELSE s[p][i]]]
  <2>1. Is(x, "B") /\ Call("not", <<x, z>>) /\ Write(z, Vector("B", u))
    BY <1>1 DEF NotB, Negating
  <2>2. u \in Shares
    BY <1>0, OnOneWord DEF Shares
  <2>3. \A p \in Parties : u[p][0] = IF p = 2 THEN Complement(s[p][0]) ELSE s[p][0]
    BY <1>0
  <2> HIDE DEF u, s
  <2>4. Reconstruct("B", u) = Complement(Reconstruct("B", s))
    BY <1>0, <2>2, <2>3, FourNot
  <2> QED BY <1>0, <2>1, <2>4, UnaryIsIdeal DEF s
<1>2. CASE NotB1(x, z)
  <2> DEFINE third(p, i) == <<p, i>> \in {<<2, 0>>, <<1, 1>>, <<0, 2>>}
             t == Masked(s)
             u == [p \in Parties |-> [i \in Index |->
                     IF third(p, i) THEN LogicalNot(t[p][i]) ELSE t[p][i]]]
  <2>1. Is(x, "B") /\ Call("not_1", <<x, z>>) /\ Write(z, Vector("B", u))
    BY <1>2 DEF NotB1, Not1Shares, Negating
  <2>2. \A p \in Parties, i \in Index : t[p][i] = LSB(s[p][i])
    BY DEF Masked
  <2>3. u \in Shares
    BY <1>0, <2>2, OnOneWord DEF Shares
  <2>4. \A p \in Parties : u[p][0] = IF p = 2 THEN LogicalNot(LSB(s[p][0])) ELSE LSB(s[p][0])
    BY <1>0, <2>2
  <2> HIDE DEF u, s
  <2>5. Reconstruct("B", u) = 1 - LSB(Reconstruct("B", s))
    BY <1>0, <2>3, <2>4, FourNot1
  <2> QED BY <1>0, <2>1, <2>5, UnaryIsIdeal DEF s
<1>3. CASE Mask(x, z) \/ LTZ(x, z)
  BY <1>0, <1>3, BitsAreIdeal
<1>4. CASE B2ABit(x, z)
  <2> DEFINE half == [p \in Parties |-> HalfBit(x, p)]
             share0 == Input("A", 1, 0, 2, 3, 0, half)
             share1 == Input("A", 3, 2, 0, 1, 0, half)
             difference == Local(Minus, inp(share0), inp(share1))
             k == [g \in Parties |-> IF g \in {share0.g, share1.g} THEN 1 ELSE 0]
             u == Product("A", difference, difference, k)
             w == Reconstruct("B", s)
  <2>1. Is(x, "B") /\ Call("b2a_bit", <<x, z>>) /\ Write(z, Vector("A", u))
    BY <1>4, Zenon DEF B2ABit
  <2>2. half[1] = half[0] /\ half[3] = half[2] /\ \A p \in Parties : half[p] \in Word
    BY <1>0, Four, SameParts, PartsTyped
  <2>3. half[3] = Xor(LSB(s[3][0]), LSB(s[0][0])) /\ half[1] = Xor(LSB(s[1][0]), LSB(s[2][0]))
    BY <1>0, HalvesAre
  <2> HIDE DEF half
  <2>4. WellPut(share0) /\ WellPut(share1)
    BY <2>2 DEF WellPut, Roles, Input
  <2>5. /\ share0.enc = "A" /\ share0.w[share0.i] = half[1]
        /\ share1.enc = "A" /\ share1.w[share1.i] = half[3]
    BY DEF Input
  <2>6. k \in [Parties -> Nat]
    OBVIOUS
  <2> HIDE DEF share0, share1, k, s, w
  <2>7. /\ Fine(inp(share0)) /\ Reconstruct("A", inp(share0)) = half[1]
        /\ Fine(inp(share1)) /\ Reconstruct("A", inp(share1)) = half[3]
    BY <1>0, <2>4, <2>5, InputFine
  <2>8. Fine(difference) /\ Reconstruct("A", difference) = Minus(half[1], half[3])
    BY <1>0, <2>7, LocalFine, LocalSums
  <2>9. PICK b \in {0, 1}, c \in {0, 1} : b = half[3] /\ c = half[1] /\ LSB(w) = (b + c) % 2
    BY <1>0, <2>3, FourHalfBits DEF w
  <2> HIDE DEF difference
  <2>10. Reconstruct("A", u) = Times(Minus(c, b), Minus(c, b))
    <3>1. \A a, d : Mul("A", a, d) = Times(a, d)
      BY DEF Mul
    <3>2. Reconstruct("A", u) = Mul("A", Reconstruct("A", difference), Reconstruct("A", difference))
      BY <1>0, <2>6, <2>8, ProductReconstructs
    <3> QED BY <2>8, <2>9, <3>1, <3>2
  <2>11. Times(Minus(c, b), Minus(c, b)) = (c + b) % 2 /\ c + b = b + c
    BY <1>0, BitSquare
  <2>12. Reconstruct("A", u) = LSB(w)
    BY <2>9, <2>10, <2>11
  <2> HIDE DEF u
  <2>13. w = Reconstruct("B", view[x].sh)
    BY DEF w, s
  <2> QED BY <1>0, <2>1, <2>12, <2>13, UnaryIsIdeal
<1> QED
  BY <1>1, <1>2, <1>3, <1>4 DEF OnTwo

(* those of two operands, divisions and redistributions.                   *)
LEMMA OnThreeIsIdeal ==
    ASSUME FourPartiesAssumption, WordsDrawn, Honest,
           NEW x \in Registers, NEW y \in Registers, NEW z \in Registers, OnThree(x, y, z)
    PROVE  Ideal!Elementwise(x, y, z) \/ Ideal!DivConst(x, y, z) \/ Ideal!Redistribute(x, y, z)
<1> DEFINE s == view[x].sh
<1>0. /\ FourShares /\ FewParties /\ SharingAssumption /\ BitsAssumption /\ DOMAIN view = Registers
      /\ s \in Shares /\ Agrees(s) /\ Fine(s) /\ Fine(view[y].sh)
      /\ GeneratorsInStep /\ Typed /\ "A" \in Encodings /\ "B" \in Encodings /\ 0 \in Index
      /\ 0 \in Parties /\ 1 \in Parties /\ 2 \in Parties /\ 3 \in Parties
      /\ \A p \in Parties, i \in Index : s[p][i] \in Word
  BY HonestFacts DEF Shares
<1>1. ASSUME NEW enc \in Encodings, AddUp(x, y, z, enc) \/ Subtract(x, y, z, enc)
      PROVE  Ideal!Elementwise(x, y, z)
  BY <1>0, <1>1, LocalIsIdeal
<1>2. ASSUME NEW enc \in Encodings, Multiply(x, y, z, enc)
      PROVE  Ideal!Elementwise(x, y, z)
  <2> DEFINE none == [g \in Parties |-> 0]
             u == Product(enc, view[x].sh, view[y].sh, none)
             a == Reconstruct(enc, view[x].sh)
             b == Reconstruct(enc, view[y].sh)
  <2>1. /\ Is(x, enc) /\ Is(y, enc) /\ Call("multiply", <<x, y, z, enc>>) /\ Write(z, Vector(enc, u))
    BY <1>2, Zenon DEF Multiply
  <2>2. none \in [Parties -> Nat]
    OBVIOUS
  <2> HIDE DEF none
  <2>3. Reconstruct(enc, u) = Mul(enc, a, b)
    BY <1>0, <2>2, ProductReconstructs
  <2>4. a = Reconstruct(enc, view[x].sh) /\ b = Reconstruct(enc, view[y].sh)
    OBVIOUS
  <2> HIDE DEF u, a, b
  <2> QED BY <1>0, <2>1, <2>3, <2>4, BinaryIsIdeal
<1>3. CASE DivConst(x, y, z)
  <2> DEFINE rest == [p \in Parties |-> RestOfPart(x, p)]
             floor == [p \in Parties |-> Floor(Part(x, p))]
             res1 == Input("A", 3, 2, 0, 1, 0, floor)
             res2 == Input("A", 1, 0, 2, 3, 0, floor)
             err1 == Input("A", 3, 2, 0, 1, 1, rest)
             err2 == Input("A", 1, 0, 2, 3, 1, rest)
             s1 == Local(Plus, inp(res1), inp(res2))
             s2 == Local(Plus, inp(err1), inp(err2))
             q == Reconstruct("A", s1)
             e == Reconstruct("A", s2)
             v == Plus(s[3][0], s[0][0])
             w == Plus(s[1][0], s[2][0])
  <2>1. /\ WriteBoth(y, Vector("A", s1), z, Vector("A", s2))
        /\ Is(x, "A") /\ Call("div", <<x, y, z>>)
    BY <1>3, Zenon DEF DivConst
  <2>2. /\ floor[1] = floor[0] /\ floor[3] = floor[2] /\ \A p \in Parties : floor[p] \in Word
        /\ rest[1] = rest[0] /\ rest[3] = rest[2] /\ \A p \in Parties : rest[p] \in Word
    BY <1>0, Four, SameParts, PartsTyped
  <2>3. v \in Word /\ w \in Word
    BY <1>0, Closed
  <2>4. /\ floor[3] = FloorOf(v) /\ floor[1] = FloorOf(w)
        /\ rest[3] = Minus(RestOf(v), Divisor) /\ rest[1] = RestOf(w)
    <3>1. Part(x, 3) = v /\ Part(x, 1) = w
      BY <1>0, HalvesAre
    <3>2. \A n : FloorOf(n) = Floor(n) /\ RestOf(n) = Rest(n)
      BY DEF FloorOf, Floor, RestOf, Rest
    <3> HIDE DEF v, w
    <3> QED BY <1>0, <3>1, <3>2 DEF RestOfPart
  <2> HIDE DEF floor, rest, v, w
  <2>5. WellPut(res1) /\ WellPut(res2) /\ WellPut(err1) /\ WellPut(err2)
    BY <2>2 DEF WellPut, Roles, Input
  <2>6. /\ res1.enc = "A" /\ res1.w[res1.i] = floor[3] /\ res2.enc = "A" /\ res2.w[res2.i] = floor[1]
        /\ err1.enc = "A" /\ err1.w[err1.i] = rest[3] /\ err2.enc = "A" /\ err2.w[err2.i] = rest[1]
    BY DEF Input
  <2> HIDE DEF res1, res2, err1, err2
  <2>7. /\ Fine(inp(res1)) /\ Reconstruct("A", inp(res1)) = floor[3]
        /\ Fine(inp(res2)) /\ Reconstruct("A", inp(res2)) = floor[1]
        /\ Fine(inp(err1)) /\ Reconstruct("A", inp(err1)) = rest[3]
        /\ Fine(inp(err2)) /\ Reconstruct("A", inp(err2)) = rest[1]
    BY <1>0, <2>5, <2>6, InputFine
  <2>8. /\ Fine(s1) /\ q = Plus(floor[3], floor[1])
        /\ Fine(s2) /\ e = Plus(rest[3], rest[1])
    BY <1>0, <2>7, LocalFine, LocalSums
  <2> HIDE DEF s1, s2
  <2>9. q \in Word /\ e \in Word
    BY <1>0, <2>8, ReconstructIsWord DEF Fine
  <2>10. q = Reconstruct("A", s1) /\ e = Reconstruct("A", s2)
    OBVIOUS
  <2> HIDE DEF q, e
  <2>11. q = Plus(FloorOf(v), FloorOf(w)) /\ e = Plus(Minus(RestOf(v), Divisor), RestOf(w))
    BY <2>4, <2>8
  <2>12. Signed(e) \in -Divisor .. Divisor /\ Plus(Times(Divisor, Plus(q, 1)), e) = Plus(v, w)
    BY <1>0, <2>3, <2>11, HalvesCombine
  <2>13. Reconstruct("A", view[x].sh) = Plus(v, w)
    BY <1>0, FourHalves DEF v, w
  <2>14. Plus(Times(Divisor, Plus(q, 1)), e) = Reconstruct("A", view[x].sh)
    BY <2>12, <2>13
  <2>15. Ideal!DivConst(x, y, z)
    BY <1>0, <2>1, <2>9, <2>10, <2>12, <2>14, DivConstIsIdeal
  <2> QED BY <2>15
<1>4. CASE Redistribute(x, y, z)
  <2> DEFINE sum == [p \in Parties |-> IF p \in {0, 2} THEN Plus(view[x].sh[p][0], view[x].sh[p][1])
                                       ELSE Plus(view[x].sh[p][1], view[x].sh[p][2])]
             first == Input("B", 0, 3, 1, 2, 0, sum)
             second == Input("B", 2, 1, 3, 0, 0, sum)
             s1 == inp(first)
             s2 == inp(second)
             v == Plus(s[0][0], s[1][0])
             w == Plus(s[2][0], s[3][0])
  <2>1. /\ WriteBoth(y, Vector("B", s1), z, Vector("B", s2))
        /\ Is(x, "A") /\ Call("redistribute", <<x, y, z>>)
    BY <1>4, Zenon DEF Redistribute
  <2>2. v \in Word /\ w \in Word
    BY <1>0, Closed
  <2>3. sum[0] = v /\ sum[3] = v /\ sum[2] = w /\ sum[1] = w
    <3>1. s[0][1] = s[1][0] /\ s[2][1] = s[3][0] /\ s[3][1] = s[0][0] /\ s[3][2] = s[1][0]
          /\ s[1][1] = s[2][0] /\ s[1][2] = s[3][0]
      BY <1>0, AllShares
    <3>2. \A p \in Parties : sum[p] = IF p \in {0, 2} THEN Plus(s[p][0], s[p][1]) ELSE Plus(s[p][1], s[p][2])
      OBVIOUS
    <3> HIDE DEF sum, s
    <3> QED BY <1>0, <3>1, <3>2
  <2> HIDE DEF sum, v, w
  <2>4. WellPut(first) /\ WellPut(second)
    <3>1. \A p \in Parties : sum[p] \in Word
      BY <2>2, <2>3, Four
    <3> QED BY <2>3, <3>1 DEF WellPut, Roles, Input
  <2>5. /\ first.enc = "B" /\ first.w[first.i] = sum[0]
        /\ second.enc = "B" /\ second.w[second.i] = sum[2]
    BY DEF Input
  <2> HIDE DEF first, second
  <2>6. Reconstruct("B", s1) = v /\ Reconstruct("B", s2) = w
    BY <1>0, <2>3, <2>4, <2>5, InputFine
  <2>7. Reconstruct("A", s) = Plus(v, w)
    BY <1>0, FourHalves DEF v, w
  <2>8. Minus(Plus(v, w), v) = w
    BY <1>0, <2>2, PlusMinus
  <2> HIDE DEF s1, s2
  <2>9. /\ Reconstruct("B", s1) \in Word
        /\ Reconstruct("B", s2) = Minus(Reconstruct("A", view[x].sh), Reconstruct("B", s1))
    BY <2>2, <2>6, <2>7, <2>8
  <2>10. Ideal!Redistribute(x, y, z)
    BY <1>0, <2>1, <2>9, RedistributeIsIdeal
  <2> QED BY <2>10
<1> QED
  BY <1>1, <1>2, <1>3, <1>4 DEF OnThree

(* What holds between two primitives makes up the invariants.              *)
LEMMA CustomHonestIs ==
    Honest => TypeOK /\ SharesAgree /\ GeneratorsInStep /\ NoFalseAlarm
BY ReplicatedIsSharesAgree DEF Honest, Typed, TypeOK, NoFalseAlarm

(* It holds at the start, which is the start of the abstract machine.      *)
LEMMA CustomStart ==
    ASSUME Custom4PCAssumption, Init
    PROVE  Honest /\ Ideal!Init
<1>1. FourPartiesAssumption
  BY DEF Custom4PCAssumption
<1> QED
  BY <1>1, Four, StartAgrees, StartTyped, StartIsIdeal DEF Init, Honest

(* A step keeps it, and is one of the abstract machine or none.            *)
LEMMA CustomStep ==
    ASSUME Custom4PCAssumption, WordsDrawn, Honest, [Next]_vars
    PROVE  Honest' /\ [Ideal!Next]_(Ideal!vars)
<1>0. FourPartiesAssumption
  BY DEF Custom4PCAssumption
<1>1. CASE Next
  <2>1. ASSUME NEW x \in Registers, OnOne(x) PROVE Honest' /\ Ideal!Next
    BY <1>0, <2>1, OnOneHonest, OnOneIsIdeal
  <2>2. ASSUME NEW x \in Registers, NEW z \in Registers, OnTwo(x, z) PROVE Honest' /\ Ideal!Next
    <3>1. Ideal!Elementwise(x, x, z)
      BY <1>0, <2>2, OnTwoIsIdeal
    <3>2. Ideal!Next
      BY <3>1 DEF Ideal!Next
    <3> QED BY <1>0, <2>2, <3>2, OnTwoHonest
  <2>3. ASSUME NEW x \in Registers, NEW y \in Registers, NEW z \in Registers, OnThree(x, y, z)
        PROVE  Honest' /\ Ideal!Next
    <3>1. Ideal!Elementwise(x, y, z) \/ Ideal!DivConst(x, y, z) \/ Ideal!Redistribute(x, y, z)
      BY <1>0, <2>3, OnThreeIsIdeal
    <3>2. Ideal!Next
      BY <3>1 DEF Ideal!Next
    <3> QED BY <1>0, <2>3, <3>2, OnThreeHonest
  <2> QED BY <1>1, <2>1, <2>2, <2>3 DEF Next
<1>2. CASE UNCHANGED vars
  <2>1. Honest'
    BY <1>2 DEF Honest, Replicated, Agrees, GeneratorsInStep, Typed, SharingTypeOK,
                vars, sharingVars
  <2>2. UNCHANGED Ideal!vars
    BY <1>2 DEF vars, sharingVars, Ideal!vars, Plaintexts, Plaintext, Agreed
  <2> QED BY <2>1, <2>2
<1> QED
  BY <1>1, <1>2

(* The four-party protocol with fewer rounds computes what class Protocol  *)
(* promises, whatever the word size, the generators, the divisor and the   *)
(* program.                                                                *)
THEOREM CustomImplementsIdeal ==
    ASSUME Custom4PCAssumption, WordsDrawn
    PROVE  Spec => ImplementsIdeal
<1>1. Init => Honest /\ Ideal!Init
  BY CustomStart
<1>2. Honest /\ [Next]_vars => Honest' /\ [Ideal!Next]_(Ideal!vars)
  BY CustomStep
<1> QED
  BY <1>1, <1>2, PTL DEF Spec, ImplementsIdeal, Ideal!Spec
=============================================================================
