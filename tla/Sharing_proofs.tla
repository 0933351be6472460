--------------------------- MODULE Sharing_proofs ---------------------------
(***************************************************************************)
(* What the proofs about the protocols need of the operations they share,  *)
(* for any number of parties, words of any width and any generators: which *)
(* copies of shares agree after them, that words stay words, which numbers *)
(* words stand for and their sums over the parties, and when a primitive   *)
(* is one of IdealVectors on the plaintexts.                               *)
(***************************************************************************)
EXTENDS Sharing, TLAPS, WellFoundedInduction, FiniteSetTheorems

(* The members of a group can serve q: one of them holds each of its       *)
(* shares.                                                                 *)
CanServe(g, q) == \A i \in Index : Holders(ShareOf(q, i)) \cap g # {}

(* Shares and parties are numbered from 0.                                 *)
LEMMA Numbers ==
    ASSUME SharingAssumption
    PROVE  /\ Parties \subseteq Nat /\ Index \subseteq Nat
           /\ \A s : Holders(s) \subseteq Parties
BY DEF SharingAssumption, Parties, Index, Holders

(* A party finds a share it holds at its index.                            *)
LEMMA IndexAtHolds ==
    ASSUME NEW s, NEW p \in Holders(s)
    PROVE  IndexAt(p, s) \in Index /\ ShareOf(p, IndexAt(p, s)) = s
BY DEF Holders, IndexAt

(* Who sends and who receives agree: in a resharing a party outside of the *)
(* group gets each of its shares from a member that holds the same share.  *)
(* The two sides compute the assignment apart (protocol.h:117-219).        *)
LEMMA ReshareDelivers ==
    ASSUME SharingAssumption,
           NEW g \in SUBSET Parties, NEW q \in Parties \ g, CanServe(g, q),
           NEW i \in Index, NEW s
    PROVE  \E p \in g, j \in Index :
               ShareOf(p, j) = ShareOf(q, i) /\ Reshared(s, g)[q][i] = s[p][j]
<1> DEFINE From(j) == ReceivesFrom(q, j, g)
<1>1. \A j \in Index :
          /\ From(j) \in Holders(ShareOf(q, j)) \cap g
          /\ \A o \in Holders(ShareOf(q, j)) \cap g : From(j) <= o
  <2> SUFFICES ASSUME NEW j \in Index
               PROVE  \E p \in Holders(ShareOf(q, j)) \cap g :
                          \A o \in Holders(ShareOf(q, j)) \cap g : p <= o
    BY DEF ReceivesFrom
  <2> DEFINE H == Holders(ShareOf(q, j)) \cap g
  <2>1. H \subseteq Nat /\ H # {}
    BY Numbers DEF CanServe
  <2> DEFINE R == {xy \in Nat \X Nat : xy[1] < xy[2]}
  <2>2. IsWellFoundedOn(R, Nat)
    BY NatLessThanWellFounded, Zenon DEF OpToRel
  <2>3. PICK p \in H : \A o \in H : ~ (<<o, p>> \in R)
    <3> HIDE DEF R, H
    <3> QED BY <2>1, <2>2, WFMin
  <2>4. ASSUME NEW o \in H PROVE p <= o
    <3>1. o \in Nat /\ p \in Nat
      BY <2>1
    <3>2. <<o, p>>[1] = o /\ <<o, p>>[2] = p /\ <<o, p>> \in Nat \X Nat
      BY <3>1
    <3>3. ~(o < p)
      BY <2>3, <3>2
    <3> QED BY <3>1, <3>3
  <2> QED BY <2>4
<1>2. \A p \in g : Sends(p, q, g) = {j \in Index : From(j) = p}
  <2> SUFFICES ASSUME NEW p \in g, NEW j \in Index
               PROVE  /\ p \in Holders(ShareOf(q, j))
                      /\ Canonical(p, IndexAt(p, ShareOf(q, j)), g)
                      <=> From(j) = p
    BY DEF Sends
  <2> DEFINE H == Holders(ShareOf(q, j))
  <2>1. H \cap g \subseteq Nat /\ p \in Nat
    BY Numbers
  <2>2. p \in H => (Canonical(p, IndexAt(p, ShareOf(q, j)), g) <=> ~\E o \in H \cap g : o < p)
    BY IndexAtHolds DEF Canonical
  <2> HIDE DEF H
  <2> QED
    BY <1>1, <2>1, <2>2 DEF H
<1> DEFINE p == From(i)
           S == {j \in Index : From(j) = p}
           UpTo(k) == {j \in S : j <= k}
<1>3. p \in g /\ p \in Holders(ShareOf(q, i)) /\ i \in S
  BY <1>1
<1>4. {j \in 0 .. i : From(j) = p} = UpTo(i)
  BY DEF Index, SharingAssumption
<1>5. Nth(S, Cardinality(UpTo(i))) = i
  <2>1. IsFiniteSet(S) /\ S \subseteq Nat
    <3>1. IsFiniteSet(Index)
      BY FS_Interval DEF Index, SharingAssumption
    <3> QED
      BY <3>1, FS_Subset, Numbers
  <2>2. \A k \in S : Cardinality(UpTo(k)) = Cardinality(UpTo(i)) => k = i
    <3> SUFFICES ASSUME NEW k \in S, Cardinality(UpTo(k)) = Cardinality(UpTo(i))
                 PROVE  k = i
      OBVIOUS
    <3> DEFINE A == UpTo(k)  B == UpTo(i)
    <3>1. A \in SUBSET B \/ B \in SUBSET A
      BY <1>3, <2>1
    <3>2. IsFiniteSet(A) /\ IsFiniteSet(B)
      BY <2>1, FS_Subset
    <3>3. A = B
      BY <3>1, <3>2, FS_Subset
    <3>4. k \in A /\ i \in B
      BY <1>3, <2>1
    <3> QED
      BY <1>3, <2>1, <3>3, <3>4
  <2> HIDE DEF S
  <2> QED
    BY <1>3, <2>2 DEF Nth
<1>6. Reshared(s, g)[q][i] = s[p][IndexAt(p, ShareOf(q, i))]
  <2>1. Sends(p, q, g) = S
    BY <1>2, <1>3
  <2>2. Reshared(s, g)[q][i]
          = s[p][IndexAt(p, ShareOf(q, Nth(Sends(p, q, g), Cardinality({j \in 0 .. i : From(j) = p}))))]
    BY DEF Reshared
  <2> HIDE DEF S, UpTo
  <2> QED
    BY <1>4, <1>5, <2>1, <2>2
<1> QED
  BY <1>3, <1>6, IndexAtHolds

(* The copies of every share of a vector are equal.                        *)
Agrees(s) ==
    \A p, q \in Parties, i, j \in Index : ShareOf(p, i) = ShareOf(q, j) => s[p][i] = s[q][j]
Replicated == DOMAIN view = Registers /\ \A r \in Registers : Agrees(view[r].sh)

(* A vector of every register that agrees with itself is SharesAgree.      *)
LEMMA ReplicatedIsSharesAgree == Replicated => SharesAgree
BY DEF Replicated, Agrees, SharesAgree

(* No vector is shared and no word drawn at the start.                     *)
LEMMA StartAgrees ==
    ASSUME SharingAssumption, SharingInit
    PROVE  Replicated /\ GeneratorsInStep
<1>1. Agrees(Nobody)
  BY DEF Agrees, Nobody
<1>2. Replicated
  BY <1>1 DEF SharingInit, Replicated
<1>3. GeneratorsInStep
  BY DEF SharingInit, SharingAssumption, GeneratorsInStep
<1> QED
  BY <1>2, <1>3

(* Writing a vector whose copies agree keeps the views consistent.         *)
LEMMA WriteKeeps ==
    ASSUME Replicated, NEW r \in Registers, NEW enc, NEW s, Agrees(s),
           Write(r, Vector(enc, s))
    PROVE  Replicated'
BY DEF Replicated, Write, Vector, Agrees

(* So does writing two of them.                                            *)
LEMMA WriteBothKeeps ==
    ASSUME Replicated, NEW r1 \in Registers, NEW r2 \in Registers,
           NEW e1, NEW s1, Agrees(s1), NEW e2, NEW s2, Agrees(s2),
           WriteBoth(r1, Vector(e1, s1), r2, Vector(e2, s2))
    PROVE  Replicated'
BY DEF Replicated, WriteBoth, Vector, Agrees

(* A primitive without a drawn word leaves the generators in step.         *)
LEMMA NothingDrawnInStep ==
    ASSUME GeneratorsInStep, NothingDrawn
    PROVE  GeneratorsInStep'
BY DEF GeneratorsInStep, NothingDrawn

(* The generators stay in step when every member of a group draws from it. *)
LEMMA DrawnByInStep ==
    ASSUME SharingAssumption, GeneratorsInStep,
           NEW S, NEW g \in SUBSET S, NEW k, DrawnBy(S, g, k)
    PROVE  GeneratorsInStep'
BY DEF SharingAssumption, GeneratorsInStep, DrawnBy, Drawn

(* The operations share by share keep the copies equal.                    *)
LEMMA AddUpKeeps ==
    ASSUME Replicated, GeneratorsInStep,
           NEW x \in Registers, NEW y \in Registers, NEW z \in Registers,
           NEW enc, AddUp(x, y, z, enc)
    PROVE  Replicated' /\ GeneratorsInStep'
<1> DEFINE s == Local(LAMBDA a, b : Add(enc, a, b), view[x].sh, view[y].sh)
<1>1. Agrees(s)
  BY DEF Replicated, Agrees, Local
<1>2. Write(z, Vector(enc, s)) /\ NothingDrawn
  BY DEF AddUp
<1> HIDE DEF s
<1> QED
  BY <1>1, <1>2, WriteKeeps, NothingDrawnInStep

(* Subtraction does as well.                                               *)
LEMMA SubtractKeeps ==
    ASSUME Replicated, GeneratorsInStep,
           NEW x \in Registers, NEW y \in Registers, NEW z \in Registers,
           NEW enc, Subtract(x, y, z, enc)
    PROVE  Replicated' /\ GeneratorsInStep'
<1> DEFINE s == Local(LAMBDA a, b : Sub(enc, a, b), view[x].sh, view[y].sh)
<1>1. Agrees(s)
  BY DEF Replicated, Agrees, Local
<1>2. Write(z, Vector(enc, s)) /\ NothingDrawn
  BY DEF Subtract
<1> HIDE DEF s
<1> QED
  BY <1>1, <1>2, WriteKeeps, NothingDrawnInStep

(* The operations on the bits of one vector do as well.                    *)
LEMMA BitsKeep ==
    ASSUME Replicated, GeneratorsInStep,
           NEW x \in Registers, NEW z \in Registers, Mask(x, z) \/ LTZ(x, z)
    PROVE  Replicated' /\ GeneratorsInStep'
<1> DEFINE s == [p \in Parties |-> [i \in Index |-> Sign(view[x].sh[p][i])]]
<1>1. Agrees(Masked(view[x].sh)) /\ Agrees(s)
  BY DEF Replicated, Agrees, Masked
<1>2. /\ Write(z, Vector("B", Masked(view[x].sh))) \/ Write(z, Vector("B", s))
      /\ NothingDrawn
  BY DEF Mask, LTZ
<1> HIDE DEF s
<1> QED
  BY <1>1, <1>2, WriteKeeps, NothingDrawnInStep

(* The members of a group add the same sharing of zero.                    *)
LEMMA RerandomizedAgrees ==
    ASSUME SharingAssumption, GeneratorsInStep, NEW r, Agrees(view[r].sh), NEW g \in Groups
    PROVE  \A p, q \in g, i, j \in Index :
               ShareOf(p, i) = ShareOf(q, j)
                   => Rerandomized(r, g)[p][i] = Rerandomized(r, g)[q][j]
<1>0. g \in SUBSET Parties
  BY DEF SharingAssumption
<1>1. \A p, q \in g : GroupZero(view[r].enc, p, g) = GroupZero(view[r].enc, q, g)
  <2> SUFFICES ASSUME NEW p \in g, NEW q \in g
               PROVE  GroupZero(view[r].enc, p, g) = GroupZero(view[r].enc, q, g)
    OBVIOUS
  <2> DEFINE last == NumParties - 1
             drawn(o) == [n \in 0 .. last - 1 |-> Draw(o, g, n)]
  <2>1. nonce[p][g] = nonce[q][g]
    BY DEF GeneratorsInStep
  <2>2. drawn(p) = drawn(q)
    BY <2>1 DEF Draw
  <2>3. \A o : GroupZero(view[r].enc, o, g)
           = [n \in Parties |-> IF n < last THEN drawn(o)[n]
                 ELSE Sub(view[r].enc, 0, SumOver(view[r].enc, 0 .. last - 1, drawn(o)))]
    BY DEF GroupZero
  <2> HIDE DEF drawn
  <2> QED
    BY <2>2, <2>3
<1> QED
  BY <1>0, <1>1 DEF Agrees, Rerandomized

(* A resharing leaves every party with the share the group computed: each  *)
(* party outside of it gets its shares from a member.                      *)
LEMMA ResharedFrom ==
    ASSUME SharingAssumption, NEW s, NEW g \in Groups, \A q \in Parties \ g : CanServe(g, q)
    PROVE  \A q \in Parties, i \in Index : \E p \in g, j \in Index :
               ShareOf(p, j) = ShareOf(q, i) /\ Reshared(s, g)[q][i] = s[p][j]
<1> DEFINE t == Reshared(s, g)
<1>1. g \in SUBSET Parties
  BY DEF SharingAssumption
<1> SUFFICES ASSUME NEW q \in Parties, NEW i \in Index
             PROVE  \E p \in g, j \in Index :
                        ShareOf(p, j) = ShareOf(q, i) /\ t[q][i] = s[p][j]
  OBVIOUS
<1>2. CASE q \in g
  BY <1>2 DEF Reshared
<1>3. CASE q \notin g
  BY <1>1, <1>3, ReshareDelivers
<1> QED
  BY <1>2, <1>3

(* The copies of a share are equal after a resharing.                      *)
LEMMA ReshareAgrees ==
    ASSUME SharingAssumption, GeneratorsInStep, NEW r, Agrees(view[r].sh),
           NEW g \in Groups, \A q \in Parties \ g : CanServe(g, q)
    PROVE  Agrees(Reshared(Rerandomized(r, g), g))
<1> DEFINE s == Rerandomized(r, g)
           t == Reshared(s, g)
<1>1. \A p, q \in g, i, j \in Index : ShareOf(p, i) = ShareOf(q, j) => s[p][i] = s[q][j]
  BY RerandomizedAgrees
<1> HIDE DEF s
<1>2. \A q \in Parties, i \in Index : \E p \in g, j \in Index :
          ShareOf(p, j) = ShareOf(q, i) /\ t[q][i] = s[p][j]
  BY ResharedFrom
<1> HIDE DEF t
<1> QED
  BY <1>1, <1>2 DEF Agrees, t, s

-----------------------------------------------------------------------------
(* Remainders by two to four, for the sums and differences of two          *)
(* numbers.  The provers only meet a negative number here as a variable:   *)
(* they reduce -1 % 4, written out, by another rule than that of TLA+.     *)
LEMMA Mod2 ==
    \A a \in Int : /\ 0 <= a /\ a <= 1 => a % 2 = a
                   /\ 2 <= a /\ a <= 3 => a % 2 = a - 2
                   /\ -2 <= a /\ a <= -1 => a % 2 = a + 2
OBVIOUS

(* Remainders of small numbers by three.                                   *)
LEMMA Mod3 ==
    \A a \in Int : /\ 0 <= a /\ a <= 2 => a % 3 = a
                   /\ 3 <= a /\ a <= 5 => a % 3 = a - 3
                   /\ -3 <= a /\ a <= -1 => a % 3 = a + 3
OBVIOUS

(* Remainders of small numbers by four.                                    *)
LEMMA Mod4 ==
    \A a \in Int : /\ 0 <= a /\ a <= 3 => a % 4 = a
                   /\ 4 <= a /\ a <= 7 => a % 4 = a - 4
                   /\ -4 <= a /\ a <= -1 => a % 4 = a + 4
OBVIOUS

(* Induction from zero, for what a set collects.                           *)
LEMMA FromZero ==
    ASSUME NEW S, 0 \in S, \A n \in Nat : n \in S => n + 1 \in S
    PROVE  Nat \subseteq S
<1> SUFFICES ASSUME NEW x \in Nat, x \notin S
             PROVE  FALSE
  OBVIOUS
<1> DEFINE Missing == {n \in Nat : n \notin S}
           R == {xy \in Nat \X Nat : xy[1] < xy[2]}
<1>1. IsWellFoundedOn(R, Nat)
  BY NatLessThanWellFounded, Zenon DEF OpToRel
<1>2. PICK n \in Missing : \A o \in Missing : ~ (<<o, n>> \in R)
  <2>1. Missing \subseteq Nat /\ Missing # {}
    OBVIOUS
  <2> HIDE DEF R, Missing
  <2> QED BY <2>1, <1>1, WFMin
<1>3. n # 0 /\ n - 1 \in Nat /\ n - 1 < n
  BY <1>2
<1>4. n - 1 \notin Missing
  <2>1. <<n - 1, n>>[1] = n - 1 /\ <<n - 1, n>>[2] = n /\ <<n - 1, n>> \in Nat \X Nat
    BY <1>3
  <2>2. <<n - 1, n>> \in R
    BY <2>1, <1>3
  <2> QED BY <1>2, <2>2
<1> QED
  BY <1>3, <1>4

(* Twice as many subsets with one element more: powers of two, that the    *)
(* provers do not know, are numbers that double.                           *)
LEMMA Powers ==
    /\ 2 ^ 0 = 1
    /\ \A n \in Nat : 2 ^ n \in Nat /\ 2 ^ (n + 1) = 2 * 2 ^ n
<1> DEFINE Subsets(n) == SUBSET (1 .. n)
           Size2(n) == Cardinality(Subsets(n))
<1>1. \A n \in Nat : IsFiniteSet(Subsets(n)) /\ Size2(n) \in Nat /\ Size2(n) = 2 ^ n
  <2> TAKE n \in Nat
  <2> DEFINE I == 1 .. n
  <2>1. IsFiniteSet(I) /\ Cardinality(I) = n
    BY FS_Interval
  <2> HIDE DEF I
  <2>2. IsFiniteSet(SUBSET I) /\ Cardinality(SUBSET I) = 2 ^ n
    BY <2>1, FS_SUBSET
  <2>3. Cardinality(SUBSET I) \in Nat
    BY <2>2, FS_CardinalityType
  <2> QED BY <2>2, <2>3 DEF I
<1>2. ASSUME NEW n \in Nat
      PROVE  Size2(n + 1) = 2 * Size2(n)
  <2> DEFINE m == n + 1
             Old == Subsets(n)
             New == {T \cup {m} : T \in Old}
             f == [T \in Old |-> T \cup {m}]
  <2>1. \A T \in Old : m \notin T
    OBVIOUS
  <2>2. 1 .. m = (1 .. n) \cup {m}
    OBVIOUS
  <2>3. Subsets(m) = Old \cup New
    <3>1. ASSUME NEW T \in Subsets(m), m \in T
          PROVE  T \in New
      <4>1. T \ {m} \in Old /\ T = (T \ {m}) \cup {m}
        BY <2>2, <3>1
      <4> QED BY <4>1
    <3>2. \A T \in Subsets(m) : m \notin T => T \in Old
      BY <2>2
    <3>3. Old \subseteq Subsets(m) /\ New \subseteq Subsets(m)
      BY <2>2
    <3> QED BY <3>1, <3>2, <3>3
  <2>4. Old \cap New = {}
    BY <2>1
  <2>5. f \in Bijection(Old, New)
    <3>1. f \in [Old -> New] /\ \A T \in New : \E U \in Old : f[U] = T
      OBVIOUS
    <3>2. \A T, U \in Old : f[T] = f[U] => T = U
      BY <2>1
    <3> HIDE DEF f, Old, New
    <3> QED BY <3>1, <3>2 DEF Bijection, Injection, Surjection, IsInjective
  <2>6. IsFiniteSet(Old) /\ Cardinality(Old) \in Nat
    BY <1>1
  <2> HIDE DEF f, Old, New
  <2>7. ExistsBijection(Old, New)
    BY <2>5 DEF ExistsBijection
  <2>8. IsFiniteSet(New) /\ Cardinality(New) = Cardinality(Old)
    BY <2>6, <2>7, FS_Bijection
  <2>9. Cardinality(Old \cup New) = Cardinality(Old) + Cardinality(New) - Cardinality({})
    BY <2>4, <2>6, <2>8, FS_Union
  <2>10. Cardinality({}) = 0
    BY FS_EmptySet
  <2>11. Cardinality(Old \cup New) = 2 * Cardinality(Old)
    BY <2>6, <2>8, <2>9, <2>10
  <2> QED BY <2>3, <2>11 DEF m, Old
<1> HIDE DEF Size2
<1>3. ASSUME NEW n \in Nat
      PROVE  2 ^ n \in Nat /\ 2 ^ (n + 1) = 2 * 2 ^ n
  <2> DEFINE m == n + 1
  <2>1. m \in Nat
    OBVIOUS
  <2>2. Size2(m) = 2 * Size2(n)
    BY <1>2
  <2> HIDE DEF m
  <2>3. Size2(m) = 2 ^ m /\ Size2(n) = 2 ^ n /\ Size2(n) \in Nat
    BY <1>1, <2>1
  <2> QED BY <2>2, <2>3 DEF m
<1>4. 2 ^ 0 = 1
  BY SMT
<1> QED
  BY <1>3, <1>4

(* And none of them is zero.                                               *)
LEMMA PowersPositive == \A n \in Nat : 2 ^ n \in Nat /\ 2 ^ n > 0
<1> DEFINE S == {n \in Nat : 2 ^ n > 0}
<1>1. 0 \in S
  BY Powers
<1>2. \A n \in Nat : n \in S => n + 1 \in S
  BY Powers
<1> HIDE DEF S
<1>3. Nat \subseteq S
  BY <1>1, <1>2, FromZero
<1> QED
  BY <1>3, Powers DEF S

-----------------------------------------------------------------------------
(* The folds of the community modules are recursive functions on the       *)
(* subsets of a finite set: pick an element, and go on with the others.    *)

Picks(D, pick) == \A s \in SUBSET D : s # {} => pick[s] \in s
FoldsTo(it, D, base, pick, next) ==
    \A s \in SUBSET D : it[s] = IF s = {} THEN base ELSE next[<<pick[s], it[s \ {pick[s]}]>>]

(* There is such a function.                                               *)
LEMMA FoldExists ==
    ASSUME NEW D, IsFiniteSet(D), NEW V, NEW base \in V,
           NEW pick, Picks(D, pick), NEW next \in [D \X V -> V]
    PROVE  \E it \in [SUBSET D -> V] : FoldsTo(it, D, base, pick, next)
<1> DEFINE Up(n) == {s \in SUBSET D : Cardinality(s) <= n}
           Good(n, it) == \A s \in Up(n) :
               it[s] = IF s = {} THEN base ELSE next[<<pick[s], it[s \ {pick[s]}]>>]
           S == {n \in Nat : \E it \in [SUBSET D -> V] : Good(n, it)}
<1>1. \A s \in SUBSET D : IsFiniteSet(s) /\ Cardinality(s) \in Nat /\ Cardinality(s) <= Cardinality(D)
  BY FS_Subset, FS_CardinalityType
<1>2. \A s \in SUBSET D : (Cardinality(s) = 0 <=> s = {})
  BY <1>1, FS_EmptySet
<1>3. \A s \in SUBSET D : s # {} =>
          /\ pick[s] \in D /\ s \ {pick[s]} \in SUBSET D
          /\ Cardinality(s \ {pick[s]}) = Cardinality(s) - 1
  <2> SUFFICES ASSUME NEW s \in SUBSET D, s # {}
               PROVE  /\ pick[s] \in D /\ s \ {pick[s]} \in SUBSET D
                      /\ Cardinality(s \ {pick[s]}) = Cardinality(s) - 1
    OBVIOUS
  <2>1. pick[s] \in s
    BY DEF Picks
  <2> QED BY <1>1, <2>1, FS_RemoveElement
<1>4. 0 \in S
  <2> DEFINE it == [s \in SUBSET D |-> base]
  <2>1. it \in [SUBSET D -> V] /\ Good(0, it)
    BY <1>1, <1>2
  <2> HIDE DEF Good, it
  <2> QED BY <2>1
<1>5. ASSUME NEW n \in Nat, n \in S
      PROVE  n + 1 \in S
  <2>1. PICK it \in [SUBSET D -> V] : Good(n, it)
    BY <1>5, Zenon
  <2> DEFINE it2 == [s \in SUBSET D |->
                 IF s = {} THEN base ELSE next[<<pick[s], it[s \ {pick[s]}]>>]]
  <2>2. it2 \in [SUBSET D -> V]
    <3> SUFFICES ASSUME NEW s \in SUBSET D, s # {}
                 PROVE  next[<<pick[s], it[s \ {pick[s]}]>>] \in V
      OBVIOUS
    <3> DEFINE v == it[s \ {pick[s]}]
               x == pick[s]
    <3>1. v \in V /\ x \in D
      BY <1>3
    <3> HIDE DEF v, x
    <3>2. next[<<x, v>>] \in V
      BY <3>1
    <3> QED BY <3>2 DEF v, x
  <2>3. \A s \in Up(n) : it2[s] = it[s]
    BY <2>1
  <2>4. ASSUME NEW s \in Up(n + 1)
        PROVE  it2[s] = IF s = {} THEN base ELSE next[<<pick[s], it2[s \ {pick[s]}]>>]
    <3>1. CASE s = {}
      BY <3>1
    <3>2. CASE s # {}
      <4>1. s \ {pick[s]} \in Up(n)
        BY <1>1, <1>3, <3>2
      <4>2. it2[s \ {pick[s]}] = it[s \ {pick[s]}]
        BY <2>3, <4>1
      <4> QED BY <3>2, <4>2
    <3> QED BY <3>1, <3>2
  <2>5. Good(n + 1, it2)
    <3> HIDE DEF it2
    <3> QED BY <2>4
  <2> HIDE DEF Good, it2
  <2> QED BY <2>2, <2>5
<1>6. Cardinality(D) \in S
  <2>1. Nat \subseteq S
    <3> HIDE DEF S
    <3> QED BY <1>4, <1>5, FromZero
  <2> HIDE DEF S
  <2> QED BY <2>1, <1>1
<1>7. Up(Cardinality(D)) = SUBSET D
  BY <1>1
<1>8. PICK it \in [SUBSET D -> V] : Good(Cardinality(D), it)
  <2> HIDE DEF Good
  <2> QED BY <1>6
<1>9. FoldsTo(it, D, base, pick, next)
  BY <1>7, <1>8 DEF FoldsTo
<1> QED
  BY <1>9

(* What holds of the empty set and is kept by every element holds of all.  *)
LEMMA PickInduction ==
    ASSUME NEW D, IsFiniteSet(D), NEW pick, Picks(D, pick), NEW Good, {} \in Good,
           \A s \in SUBSET D : s # {} /\ s \ {pick[s]} \in Good => s \in Good
    PROVE  SUBSET D \subseteq Good
<1> DEFINE S == {n \in Nat : \A s \in SUBSET D : Cardinality(s) = n => s \in Good}
<1>1. ASSUME NEW s \in SUBSET D PROVE IsFiniteSet(s) /\ Cardinality(s) \in Nat
  BY FS_Subset, FS_CardinalityType
<1>2. 0 \in S
  BY <1>1, FS_EmptySet
<1>3. ASSUME NEW n \in Nat, n \in S
      PROVE  n + 1 \in S
  <2> SUFFICES ASSUME NEW s \in SUBSET D, Cardinality(s) = n + 1
               PROVE  s \in Good
    OBVIOUS
  <2>1. s # {}
    BY FS_EmptySet
  <2>2. pick[s] \in s
    BY <2>1 DEF Picks
  <2> DEFINE x == pick[s]
  <2>3. IsFiniteSet(s) /\ x \in s
    BY <1>1, <2>2
  <2> HIDE DEF x
  <2>4. Cardinality(s \ {x}) = Cardinality(s) - 1
    BY <2>3, FS_RemoveElement
  <2>5. Cardinality(s \ {x}) = n
    BY <2>4
  <2>6. s \ {x} \in Good
    BY <1>3, <2>5
  <2> QED BY <2>1, <2>6 DEF x
<1>4. Nat \subseteq S
  <2> HIDE DEF S
  <2> QED BY <1>2, <1>3, FromZero
<1>5. ASSUME NEW s \in SUBSET D PROVE s \in Good
  <2>1. Cardinality(s) \in S
    BY <1>1, <1>4
  <2> QED BY <2>1
<1> QED
  BY <1>5

(* A sum takes out one element after the other.                            *)
SumsTo(it, enc, S, f, pick) ==
    /\ Picks(S, pick) /\ it[{}] = 0 /\ it[S] = SumOver(enc, S, f)
    /\ \A s \in SUBSET S : s # {} => it[s] = Add(enc, f[pick[s]], it[s \ {pick[s]}])

(* A sum over a finite set takes its terms one at a time.                  *)
LEMMA SumOverFolds ==
    ASSUME NEW enc, NEW S, IsFiniteSet(S), NEW f, NEW V, 0 \in V,
           \A i \in S : \A v \in V : Add(enc, f[i], v) \in V
    PROVE  \E it, pick : SumsTo(it, enc, S, f, pick)
<1> DEFINE pick == [s \in SUBSET S |-> CHOOSE x \in s : TRUE]
           next == [xv \in S \X V |-> Add(enc, f[xv[1]], xv[2])]
           Rec(g) == [s \in SUBSET S |-> IF s = {} THEN 0
                         ELSE Add(enc, f[CHOOSE x \in s : TRUE], g[s \ {CHOOSE x \in s : TRUE}])]
           iter == CHOOSE g : g = Rec(g)
<1>1. Picks(S, pick)
  BY DEF Picks
<1>2. next \in [S \X V -> V]
  OBVIOUS
<1>3. ASSUME NEW g \in [SUBSET S -> V], NEW s \in SUBSET S
      PROVE  Rec(g)[s] = IF s = {} THEN 0 ELSE next[<<pick[s], g[s \ {pick[s]}]>>]
  <2>1. s # {} => pick[s] \in S /\ s \ {pick[s]} \in SUBSET S
    BY <1>1 DEF Picks
  <2>2. s # {} => g[s \ {pick[s]}] \in V
    BY <2>1
  <2> HIDE <1>1
  <2> QED BY <2>1, <2>2
<1>4. PICK it \in [SUBSET S -> V] : FoldsTo(it, S, 0, pick, next)
  <2> HIDE DEF pick, next
  <2> QED BY <1>1, <1>2, FoldExists
<1>5. it = Rec(it)
  <2>1. \A s \in SUBSET S : it[s] = Rec(it)[s]
    <3> HIDE DEF pick, next, Rec
    <3> QED BY <1>3, <1>4 DEF FoldsTo
  <2>2. it = [s \in SUBSET S |-> it[s]] /\ Rec(it) = [s \in SUBSET S |-> Rec(it)[s]]
    OBVIOUS
  <2> HIDE DEF Rec
  <2> QED BY <2>1, <2>2
<1>6. iter = Rec(iter)
  <2> HIDE DEF Rec
  <2> QED BY <1>5, Zenon DEF iter
<1>7. SumOver(enc, S, f) = iter[S]
  BY DEF SumOver, FoldFunctionOnSet, MapThenFoldSet
<1>8. \A s \in SUBSET S : iter[s] = Rec(iter)[s]
  <2> HIDE DEF iter, Rec
  <2> QED BY <1>6
<1>9. \A s \in SUBSET S : iter[s] = IF s = {} THEN 0 ELSE Add(enc, f[pick[s]], iter[s \ {pick[s]}])
  <2> HIDE DEF iter
  <2> QED BY <1>8
<1>10. SumsTo(iter, enc, S, f, pick)
  <2> HIDE DEF iter, pick
  <2> QED BY <1>1, <1>7, <1>9 DEF SumsTo
<1> HIDE DEF iter, pick
<1> QED
  BY <1>10

(* A sum stays in a set that is closed under the addition.                 *)
LEMMA SumOverClosed ==
    ASSUME NEW enc, NEW S, IsFiniteSet(S), NEW f, NEW V, 0 \in V,
           \A i \in S : \A v \in V : Add(enc, f[i], v) \in V
    PROVE  SumOver(enc, S, f) \in V
<1>1. PICK it, pick : SumsTo(it, enc, S, f, pick)
  BY SumOverFolds
<1> DEFINE Good == {s \in SUBSET S : it[s] \in V}
<1>2. {} \in Good
  BY <1>1 DEF SumsTo
<1>3. Picks(S, pick) /\ it[S] = SumOver(enc, S, f)
  BY <1>1 DEF SumsTo
<1>4. ASSUME NEW s \in SUBSET S, s # {}, s \ {pick[s]} \in Good
      PROVE  s \in Good
  <2>1. pick[s] \in S /\ it[s \ {pick[s]}] \in V
    BY <1>3, <1>4 DEF Picks
  <2>2. it[s] = Add(enc, f[pick[s]], it[s \ {pick[s]}])
    BY <1>1, <1>4 DEF SumsTo
  <2> QED BY <2>1, <2>2
<1>5. Picks(S, pick)
  BY <1>3
<1>6. SUBSET S \subseteq Good
  <2> HIDE DEF Good
  <2> QED BY <1>2, <1>4, <1>5, PickInduction
<1> QED
  BY <1>3, <1>6

-----------------------------------------------------------------------------
(* Words.                                                                  *)

(* There are words, and every operation on numbers yields one.             *)
LEMMA Reduces ==
    ASSUME BitsAssumption
    PROVE  /\ Size \in Nat /\ Size > 1 /\ 0 \in Word /\ 1 \in Word /\ Word \subseteq Nat
           /\ \A a \in Int : a % Size \in Word
<1>1. Bits - 1 \in Nat /\ (Bits - 1) + 1 = Bits
  BY DEF BitsAssumption
<1>2. \A n \in Nat : 2 ^ n > 0
  BY PowersPositive
<1>3. 2 ^ Bits = 2 * 2 ^ (Bits - 1)
  <2> DEFINE n == Bits - 1
  <2>1. n \in Nat /\ n + 1 = Bits
    BY <1>1
  <2> HIDE DEF n
  <2>2. 2 ^ (n + 1) = 2 * 2 ^ n
    BY <2>1, Powers
  <2> QED BY <2>1, <2>2 DEF n
<1>4. 2 ^ (Bits - 1) \in Nat /\ 2 ^ (Bits - 1) > 0
  BY <1>1, <1>2, Powers
<1>5. Size \in Nat /\ Size > 1
  BY <1>3, <1>4 DEF Size
<1>6. \A a \in Int : a % Size \in 0 .. Size - 1
  BY <1>5
<1> QED
  BY <1>5, <1>6 DEF Word

(* A word is put together from the lowest bit on, in whatever order the    *)
(* table adds up the bits.                                                 *)
Builds(h, bits) ==
    /\ h[0] = 0 /\ \A n \in 0 .. Bits : h[n] \in Nat
    /\ \A n \in Places : h[n + 1] = h[n] + bits[n] * 2 ^ n

(* A word is built from its bits, the lowest first.                        *)
LEMMA FromBitsBuilds ==
    ASSUME BitsAssumption, NEW bits \in [Places -> {0, 1}]
    PROVE  \E h : Builds(h, bits) /\ h[Bits] = FromBits(bits)
<1> DEFINE S == Places
           w == [i \in S |-> bits[i] * 2 ^ i]
           pick == [s \in SUBSET S |-> CHOOSE x \in s : TRUE]
           next == [xv \in S \X Nat |-> w[xv[1]] + xv[2]]
           Rec(g) == [s \in SUBSET S |-> IF s = {} THEN 0
                         ELSE bits[CHOOSE x \in s : TRUE] * 2 ^ (CHOOSE x \in s : TRUE)
                                + g[s \ {CHOOSE x \in s : TRUE}]]
           iter == CHOOSE g : g = Rec(g)
<1>1. IsFiniteSet(S) /\ Bits \in Nat /\ S \subseteq Nat
  BY FS_Interval DEF BitsAssumption, Places
<1>2. \A i \in S : w[i] \in Nat /\ w[i] <= 2 ^ i /\ 2 ^ i \in Nat
  <2> SUFFICES ASSUME NEW i \in S
               PROVE  w[i] \in Nat /\ w[i] <= 2 ^ i /\ 2 ^ i \in Nat
    OBVIOUS
  <2> DEFINE v == 2 ^ i
  <2>1. v \in Nat
    BY <1>1, Powers
  <2>2. bits[i] = 0 \/ bits[i] = 1
    OBVIOUS
  <2>3. w[i] = bits[i] * v
    OBVIOUS
  <2> HIDE DEF v, w
  <2> QED BY <2>1, <2>2, <2>3 DEF v
<1>3. Picks(S, pick)
  BY DEF Picks
<1>4. next \in [S \X Nat -> Nat]
  <2> HIDE DEF w
  <2> QED BY <1>2
<1>5. ASSUME NEW g \in [SUBSET S -> Nat], NEW s \in SUBSET S
      PROVE  Rec(g)[s] = IF s = {} THEN 0 ELSE next[<<pick[s], g[s \ {pick[s]}]>>]
  <2>1. s # {} => pick[s] \in S /\ s \ {pick[s]} \in SUBSET S
    BY <1>3 DEF Picks
  <2>2. s # {} => g[s \ {pick[s]}] \in Nat
    BY <2>1
  <2> QED BY <2>1, <2>2
<1>6. PICK it \in [SUBSET S -> Nat] : FoldsTo(it, S, 0, pick, next)
  <2>1. 0 \in Nat
    OBVIOUS
  <2> HIDE DEF S, pick, next
  <2> QED BY <1>1, <1>3, <1>4, <2>1, FoldExists
<1>7. it = Rec(it)
  <2>1. \A s \in SUBSET S : it[s] = Rec(it)[s]
    <3> HIDE DEF pick, next, Rec
    <3> QED BY <1>5, <1>6 DEF FoldsTo
  <2>2. it = [s \in SUBSET S |-> it[s]] /\ Rec(it) = [s \in SUBSET S |-> Rec(it)[s]]
    OBVIOUS
  <2> HIDE DEF Rec
  <2> QED BY <2>1, <2>2
<1>8. iter = Rec(iter)
  <2> HIDE DEF Rec
  <2> QED BY <1>7, Zenon DEF iter
<1>9. FromBits(bits) = iter[S]
  BY DEF FromBits, MapThenSumSet, MapThenFoldSet
<1>10. \A s \in SUBSET S :
           iter[s] = IF s = {} THEN 0 ELSE w[pick[s]] + iter[s \ {pick[s]}]
  <2>1. \A s \in SUBSET S : s # {} => pick[s] \in S
    BY <1>3 DEF Picks
  <2>2. \A s \in SUBSET S : Rec(iter)[s] = IF s = {} THEN 0 ELSE w[pick[s]] + iter[s \ {pick[s]}]
    <3> HIDE DEF iter
    <3> SUFFICES ASSUME NEW s \in SUBSET S
                 PROVE  Rec(iter)[s] = IF s = {} THEN 0 ELSE w[pick[s]] + iter[s \ {pick[s]}]
      OBVIOUS
    <3>1. s # {} => w[pick[s]] = bits[pick[s]] * 2 ^ pick[s]
      <4> HIDE DEF pick
      <4> QED BY <2>1
    <3>2. Rec(iter)[s] = IF s = {} THEN 0 ELSE bits[pick[s]] * 2 ^ pick[s] + iter[s \ {pick[s]}]
      <4> HIDE DEF w
      <4> QED OBVIOUS
    <3> HIDE DEF Rec, pick, w
    <3> QED BY <3>1, <3>2
  <2> HIDE DEF iter, Rec, pick, w
  <2> QED BY <1>8, <2>2
<1> HIDE DEF iter, Rec, next
<1>11. \A s \in SUBSET S : iter[s] \in Nat
  <2> DEFINE Good == {s \in SUBSET S : iter[s] \in Nat}
  <2>1. {} \in Good
    <3>1. {} \in SUBSET S
      OBVIOUS
    <3>2. iter[{}] = 0
      <4> HIDE DEF S, pick, w
      <4> QED BY <1>10, <3>1
    <3> QED BY <3>1, <3>2
  <2>2. ASSUME NEW s \in SUBSET S, s # {}, s \ {pick[s]} \in Good
        PROVE  s \in Good
    <3>1. w[pick[s]] \in Nat /\ iter[s \ {pick[s]}] \in Nat
      <4>1. pick[s] \in S
        BY <1>3, <2>2 DEF Picks
      <4> HIDE DEF pick, w
      <4> QED BY <1>2, <2>2, <4>1
    <3>2. iter[s] = w[pick[s]] + iter[s \ {pick[s]}]
      BY <1>10, <2>2
    <3> HIDE DEF pick, w
    <3> QED BY <3>1, <3>2
  <2> HIDE DEF Good, pick, S
  <2>3. SUBSET S \subseteq Good
    BY <1>1, <1>3, <2>1, <2>2, PickInduction
  <2> QED BY <2>3 DEF Good
<1>12. \A s \in SUBSET S : \A x \in s : iter[s] = w[x] + iter[s \ {x}]
  <2> DEFINE Takes(s) == \A x \in s : iter[s] = w[x] + iter[s \ {x}]
             Good == {n \in Nat : \A s \in SUBSET S : Cardinality(s) = n => Takes(s)}
  <2>1. \A s \in SUBSET S : IsFiniteSet(s) /\ Cardinality(s) \in Nat
    BY <1>1, FS_Subset, FS_CardinalityType
  <2>2. 0 \in Good
    BY <2>1, FS_EmptySet
  <2>3. ASSUME NEW n \in Nat, n \in Good
        PROVE  n + 1 \in Good
    <3> SUFFICES \A s \in SUBSET S : Cardinality(s) = n + 1 => \A x \in s : iter[s] = w[x] + iter[s \ {x}]
      <4> DEFINE sized(s, k) == Cardinality(s) = k
      <4> HIDE DEF w, pick, S
      <4>1. n + 1 \in Nat
        OBVIOUS
      <4> QED BY <4>1
    <3> SUFFICES ASSUME NEW s \in SUBSET S, Cardinality(s) = n + 1, NEW x \in s
                 PROVE  iter[s] = w[x] + iter[s \ {x}]
      <4> HIDE DEF w, pick, S
      <4> QED OBVIOUS
    <3> DEFINE c == pick[s]
               s1 == s \ {c}
               s2 == s \ {x}
    <3>1. c \in s
      BY <1>3 DEF Picks
    <3>2. iter[s] = w[c] + iter[s1]
      BY <1>10
    <3> HIDE DEF c, w, pick
    <3>3. CASE x = c
      BY <3>2, <3>3
    <3>4. CASE x # c
      <4>1. Cardinality(s1) = n /\ Cardinality(s2) = n
        BY <2>1, <3>1, FS_RemoveElement
      <4>2. Takes(s1) /\ Takes(s2)
        <5> HIDE DEF Takes
        <5> QED BY <2>3, <4>1
      <4>3. iter[s1] = w[x] + iter[s1 \ {x}] /\ iter[s2] = w[c] + iter[s2 \ {c}]
        BY <3>1, <3>4, <4>2
      <4>4. s1 \ {x} = s2 \ {c}
        OBVIOUS
      <4>5. w[x] \in Nat /\ w[c] \in Nat /\ iter[s1 \ {x}] \in Nat
        BY <1>2, <1>11, <3>1
      <4> HIDE DEF s1, s2
      <4> DEFINE a == iter[s1 \ {x}]
                 b == iter[s2 \ {c}]
      <4>6. iter[s] = w[c] + (w[x] + a) /\ iter[s2] = w[c] + b /\ a = b
        BY <3>2, <4>3, <4>4
      <4>7. w[x] \in Nat /\ w[c] \in Nat /\ a \in Nat
        BY <4>5
      <4> HIDE DEF a, b
      <4>8. iter[s] = w[x] + iter[s2]
        BY <4>6, <4>7
      <4> QED BY <4>8 DEF s2
    <3> QED BY <3>3, <3>4
  <2> HIDE DEF Good
  <2>4. Nat \subseteq Good
    BY <2>2, <2>3, FromZero
  <2>5. ASSUME NEW s \in SUBSET S PROVE Takes(s)
    <3>1. Cardinality(s) \in Good
      BY <2>1, <2>4
    <3> HIDE DEF Takes
    <3> QED BY <3>1 DEF Good
  <2> QED BY <2>5
<1> HIDE DEF w, pick
<1> DEFINE h == [n \in 0 .. Bits |-> iter[0 .. n - 1]]
<1>13. h[0] = 0
  <2>1. 0 .. 0 - 1 = {} /\ {} \in SUBSET S /\ 0 \in 0 .. Bits
    BY <1>1
  <2>2. iter[{}] = 0
    <3> HIDE DEF S
    <3> QED BY <1>10, <2>1
  <2>3. h[0] = iter[0 .. 0 - 1]
    BY <2>1
  <2> HIDE DEF h
  <2> QED BY <2>1, <2>2, <2>3
<1>14. \A n \in 0 .. Bits : h[n] \in Nat
  <2> SUFFICES ASSUME NEW n \in 0 .. Bits
               PROVE  iter[0 .. n - 1] \in Nat
    OBVIOUS
  <2>1. 0 .. n - 1 \in SUBSET S
    BY <1>1 DEF Places
  <2> HIDE DEF S
  <2> QED BY <1>11, <2>1
<1>15. \A n \in Places : h[n + 1] = h[n] + bits[n] * 2 ^ n
  <2> SUFFICES ASSUME NEW n \in Places
               PROVE  h[n + 1] = h[n] + bits[n] * 2 ^ n
    OBVIOUS
  <2> DEFINE s == 0 .. n
             t == 0 .. n - 1
  <2>1. n \in S /\ s \in SUBSET S /\ n \in s /\ s \ {n} = t /\ n \in 0 .. Bits /\ n + 1 \in 0 .. Bits
    BY <1>1 DEF Places
  <2>2. 0 .. (n + 1) - 1 = s
    BY <1>1 DEF Places
  <2>3. h[n + 1] = iter[0 .. (n + 1) - 1] /\ h[n] = iter[t]
    BY <2>1
  <2> HIDE DEF s, t, S, h
  <2>4. iter[s] = w[n] + iter[t]
    BY <1>12, <2>1
  <2>5. w[n] = bits[n] * 2 ^ n
    BY <2>1 DEF w
  <2>6. w[n] \in Nat /\ iter[t] \in Nat
    BY <1>2, <1>14, <2>1, <2>3
  <2>7. h[n + 1] = h[n] + w[n]
    BY <2>2, <2>3, <2>4, <2>6
  <2> QED BY <2>5, <2>7
<1>16. h[Bits] = FromBits(bits)
  <2>1. Bits \in 0 .. Bits /\ 0 .. Bits - 1 = S
    BY <1>1 DEF Places
  <2>2. h[Bits] = iter[0 .. Bits - 1]
    BY <2>1
  <2> HIDE DEF h, S
  <2> QED BY <1>9, <2>1, <2>2
<1> HIDE DEF h
<1> QED
  BY <1>13, <1>14, <1>15, <1>16 DEF Builds

(* On the way it stays below the next power of two.                        *)
LEMMA BuildsBelow ==
    ASSUME BitsAssumption, NEW bits \in [Places -> {0, 1}], NEW h, Builds(h, bits)
    PROVE  \A n \in 0 .. Bits : h[n] < 2 ^ n
<1> DEFINE Good == {n \in Nat : n <= Bits => h[n] < 2 ^ n}
<1>1. Bits \in Nat
  BY DEF BitsAssumption
<1>2. 0 \in Good
  <2>1. 2 ^ 0 = 1 /\ h[0] = 0
    BY Powers DEF Builds
  <2> DEFINE one == 2 ^ 0
  <2>2. one = 1
    BY <2>1
  <2> HIDE DEF one
  <2>3. h[0] < one
    BY <2>1, <2>2
  <2> QED BY <2>3 DEF one
<1>3. ASSUME NEW n \in Nat, n \in Good
      PROVE  n + 1 \in Good
  <2> SUFFICES ASSUME n + 1 <= Bits
               PROVE  h[n + 1] < 2 ^ (n + 1)
    OBVIOUS
  <2> DEFINE v == 2 ^ n
             u == 2 ^ (n + 1)
             b == bits[n]
  <2>1. n \in Places /\ n \in 0 .. Bits
    BY <1>1 DEF Places
  <2>2. v \in Nat /\ u = 2 * v
    BY Powers
  <2>3. h[n] < v
    BY <1>1, <1>3
  <2>4. h[n + 1] = h[n] + b * v /\ h[n] \in Nat
    BY <2>1 DEF Builds
  <2>5. b = 0 \/ b = 1
    BY <2>1
  <2> HIDE DEF u, v, b
  <2>6. h[n + 1] < u
    BY <2>2, <2>3, <2>4, <2>5
  <2> QED BY <2>6 DEF u
<1> HIDE DEF Good
<1>4. Nat \subseteq Good
  BY <1>2, <1>3, FromZero
<1> QED
  BY <1>1, <1>4 DEF Good

(* So what it arrives at is a word.                                        *)
LEMMA FromBitsIsWord ==
    ASSUME BitsAssumption, NEW bits \in [Places -> {0, 1}]
    PROVE  FromBits(bits) \in Word
<1>1. PICK h : Builds(h, bits) /\ h[Bits] = FromBits(bits)
  BY FromBitsBuilds
<1>2. Bits \in 0 .. Bits
  BY DEF BitsAssumption
<1>3. h[Bits] \in Nat /\ h[Bits] < 2 ^ Bits
  BY <1>1, <1>2, BuildsBelow DEF Builds
<1> QED
  BY <1>1, <1>3, Reduces DEF Word, Size

(* Machine words stay machine words under every operation.                 *)
LEMMA Closed ==
    ASSUME BitsAssumption, NEW a \in Word, NEW b \in Word
    PROVE  /\ Plus(a, b) \in Word /\ Minus(a, b) \in Word /\ Times(a, b) \in Word
           /\ Plus(a, b) = Plus(b, a)
           /\ Xor(a, b) \in Word /\ And(a, b) \in Word
           /\ Xor(a, b) = Xor(b, a)
<1>1. a \in Int /\ b \in Int /\ a + b \in Int /\ a - b \in Int /\ a * b \in Int /\ a + b = b + a
  BY Reduces
<1>2. Plus(a, b) \in Word /\ Minus(a, b) \in Word /\ Times(a, b) \in Word /\ Plus(a, b) = Plus(b, a)
  BY <1>1, Reduces DEF Plus, Minus, Times
<1>3. \A c \in Word, i \in Places : Bit(c, i) \in {0, 1}
  <2> SUFFICES ASSUME NEW c \in Word, NEW i \in Places
               PROVE  Bit(c, i) \in {0, 1}
    OBVIOUS
  <2> DEFINE v == 2 ^ i
  <2>1. c \in Nat /\ v \in Nat /\ v > 0
    BY Reduces, PowersPositive DEF Places, BitsAssumption
  <2>2. Bit(c, i) = (c \div v) % 2
    BY DEF Bit
  <2> HIDE DEF v
  <2>3. c \div v \in Int
    BY <2>1
  <2> QED BY <2>2, <2>3
<1> DEFINE x == [i \in Places |-> (Bit(a, i) + Bit(b, i)) % 2]
           y == [i \in Places |-> (Bit(b, i) + Bit(a, i)) % 2]
           z == [i \in Places |-> Bit(a, i) * Bit(b, i)]
<1>4. x = y
  BY <1>3
<1>5. x \in [Places -> {0, 1}]
  <2>1. \A c, d \in {0, 1} : (c + d) % 2 \in {0, 1}
    OBVIOUS
  <2> QED BY <1>3, <2>1
<1>6. z \in [Places -> {0, 1}]
  <2>1. \A c, d \in {0, 1} : c * d \in {0, 1}
    OBVIOUS
  <2> QED BY <1>3, <2>1
<1>7. Xor(a, b) = FromBits(x) /\ Xor(b, a) = FromBits(y) /\ And(a, b) = FromBits(z)
  BY DEF Xor, XorTable, And, AndTable
<1> HIDE DEF x, y, z
<1> QED
  BY <1>2, <1>4, <1>5, <1>6, <1>7, FromBitsIsWord

(* So do those of the two kinds of shares; addition commutes.              *)
LEMMA SharesClosed ==
    ASSUME BitsAssumption, NEW enc, NEW a \in Word, NEW b \in Word
    PROVE  /\ Add(enc, a, b) \in Word /\ Sub(enc, a, b) \in Word /\ Mul(enc, a, b) \in Word
           /\ Add(enc, a, b) = Add(enc, b, a)
BY Closed DEF Add, Sub, Mul

(* And those of one word.                                                  *)
LEMMA OnOneWord ==
    ASSUME BitsAssumption, NEW a \in Word
    PROVE  /\ Complement(a) \in Word /\ LogicalNot(a) \in Word
           /\ LSB(a) \in Word /\ Sign(a) \in Word
<1>1. a \in 0 .. Size - 1 /\ Size \in Nat /\ Size > 1
  BY Reduces DEF Word
<1>2. Complement(a) \in Word
  BY <1>1 DEF Complement, Word
<1>3. 0 \in Word /\ 1 \in Word
  BY Reduces
<1>4. LSB(a) = 0 \/ LSB(a) = 1
  BY <1>1 DEF LSB
<1> QED
  BY <1>2, <1>3, <1>4 DEF LogicalNot, Sign

(* And the division by a positive constant.                                *)
LEMMA DivisionClosed ==
    ASSUME BitsAssumption, NEW a \in Word, NEW c \in Word, c > 0
    PROVE  Quotient(a, c) \in Word /\ Remainder(a, c) \in Word
<1>1. /\ a \in 0 .. Size - 1 /\ Size \in Nat /\ Size > 1 /\ c \in Nat
      /\ Word = 0 .. Size - 1
  BY Reduces DEF Word
<1>2. (Size - a) \div c \in Int
  BY <1>1
<1>3. (0 - (Size - a) \div c) % Size \in Word
  BY <1>2, Reduces
<1>4. a \div c \in 0 .. a
  BY <1>1
<1>5. Quotient(a, c) \in Word
  BY <1>1, <1>3, <1>4 DEF Quotient
<1>6. Times(c, Quotient(a, c)) \in Word
  BY <1>5, Closed
<1> QED
  BY <1>5, <1>6, Closed DEF Remainder

(* A sum of words is a word.                                               *)
LEMMA SumIsWord ==
    ASSUME BitsAssumption, NEW enc, NEW S, IsFiniteSet(S), NEW f, \A i \in S : f[i] \in Word
    PROVE  SumOver(enc, S, f) \in Word
<1>1. 0 \in Word
  BY Reduces
<1>2. \A i \in S : \A v \in Word : Add(enc, f[i], v) \in Word
  BY SharesClosed
<1> QED
  BY <1>1, <1>2, SumOverClosed

-----------------------------------------------------------------------------
(* The generators yield words.                                             *)
WordsDrawn == \A g \in Groups : \A n \in Nat : Prg(g, n) \in Word
Counts == [Parties -> [Groups -> Nat]]

(* What the proofs of the types assume of a state.                         *)
Typed == SharingTypeOK /\ DOMAIN view = Registers

(* The numbers of shares and of parties are finite, and shares are words.  *)
LEMMA TypedFacts ==
    ASSUME SharingAssumption, Typed
    PROVE  /\ BitsAssumption /\ 0 \in Word /\ nonce \in Counts
           /\ \A r \in Registers : view[r].sh \in Shares
           /\ \A r \in Registers : \A p \in Parties, i \in Index : view[r].sh[p][i] \in Word
<1>1. BitsAssumption
  BY DEF SharingAssumption
<1>2. 0 \in Word
  BY <1>1, Reduces
<1>3. nonce \in Counts
  BY DEF Typed, SharingTypeOK, Counts
<1>4. \A r \in Registers : view[r].sh \in Shares
  BY DEF Typed, SharingTypeOK
<1> QED
  BY <1>1, <1>2, <1>3, <1>4 DEF Shares

(* No vector is shared and no word drawn at the start.                     *)
LEMMA StartTyped ==
    ASSUME SharingAssumption, SharingInit
    PROVE  Typed
<1>1. BitsAssumption /\ MaxPrimitives \in Nat
  BY DEF SharingAssumption
<1>2. 0 \in Word
  BY <1>1, Reduces
<1>3. Nobody \in Shares
  BY <1>2 DEF Nobody, Shares
<1>4. \A r \in Registers : view[r].enc = "none" /\ view[r].sh = Nobody
  BY DEF SharingInit
<1>5. nonce \in [Parties -> [Groups -> Nat]] /\ calls \in 0 .. MaxPrimitives
  BY <1>1 DEF SharingInit
<1>6. opened \in [Parties -> Word \cup {NotOpened}]
  BY DEF SharingInit
<1>7. DOMAIN view = Registers
  BY DEF SharingInit
<1> QED
  BY <1>3, <1>4, <1>5, <1>6, <1>7 DEF Typed, SharingTypeOK

(* Writing a vector of words keeps the types.                              *)
LEMMA WriteTyped ==
    ASSUME Typed, MaxPrimitives \in Nat,
           NEW r \in Registers, NEW enc \in Encodings \cup {"none"}, NEW s \in Shares,
           Write(r, Vector(enc, s)), NEW name, NEW args, Call(name, args), nonce' \in Counts
    PROVE  Typed'
<1>1. view' = [view EXCEPT ![r] = [enc |-> enc, sh |-> s]] /\ opened' = opened
  BY DEF Write, Vector
<1>2. calls' \in 0 .. MaxPrimitives
  BY DEF Call, Typed, SharingTypeOK
<1>3. DOMAIN view' = Registers
  BY <1>1 DEF Typed
<1>4. \A q \in Registers : view'[q].enc \in Encodings \cup {"none"} /\ view'[q].sh \in Shares
  BY <1>1 DEF Typed, SharingTypeOK
<1>5. opened' \in [Parties -> Word \cup {NotOpened}]
  BY <1>1 DEF Typed, SharingTypeOK
<1> QED
  BY <1>2, <1>3, <1>4, <1>5 DEF Typed, SharingTypeOK, Counts

(* So does writing two of them.                                            *)
LEMMA WriteBothTyped ==
    ASSUME Typed, MaxPrimitives \in Nat,
           NEW r1 \in Registers, NEW e1 \in Encodings, NEW s1 \in Shares,
           NEW r2 \in Registers, NEW e2 \in Encodings, NEW s2 \in Shares,
           WriteBoth(r1, Vector(e1, s1), r2, Vector(e2, s2)),
           NEW name, NEW args, Call(name, args), nonce' \in Counts
    PROVE  Typed'
<1>1. /\ view' = [view EXCEPT ![r1] = [enc |-> e1, sh |-> s1], ![r2] = [enc |-> e2, sh |-> s2]]
      /\ opened' = opened /\ r1 # r2
  BY DEF WriteBoth, Vector
<1>2. calls' \in 0 .. MaxPrimitives
  BY DEF Call, Typed, SharingTypeOK
<1>3. DOMAIN view' = Registers
  BY <1>1 DEF Typed
<1>4. \A q \in Registers : view'[q].enc \in Encodings \cup {"none"} /\ view'[q].sh \in Shares
  BY <1>1 DEF Typed, SharingTypeOK
<1>5. opened' \in [Parties -> Word \cup {NotOpened}]
  BY <1>1 DEF Typed, SharingTypeOK
<1> QED
  BY <1>2, <1>3, <1>4, <1>5 DEF Typed, SharingTypeOK, Counts

(* The counts of drawn words stay numbers.                                 *)
LEMMA NothingDrawnTyped ==
    ASSUME SharingAssumption, Typed, NothingDrawn
    PROVE  nonce' \in Counts
BY TypedFacts DEF NothingDrawn

(* So is the count of words drawn by a group.                              *)
LEMMA DrawnByTyped ==
    ASSUME SharingAssumption, Typed, NEW S, NEW g, NEW k \in Nat, DrawnBy(S, g, k)
    PROVE  nonce' \in Counts
BY TypedFacts DEF DrawnBy, Drawn, Counts

(* A party draws words.                                                    *)
LEMMA DrawIsWord ==
    ASSUME SharingAssumption, WordsDrawn, Typed,
           NEW p \in Parties, NEW g \in Groups, NEW k \in Nat
    PROVE  Draw(p, g, k) \in Word
<1>1. nonce[p][g] + k \in Nat
  BY TypedFacts DEF Counts
<1> QED
  BY <1>1 DEF Draw, WordsDrawn

(* An owner deals words.                                                   *)
LEMMA DealtTyped ==
    ASSUME SharingAssumption, WordsDrawn, Typed,
           NEW enc, NEW w \in Word, NEW owner \in Parties, NEW first \in Nat
    PROVE  Dealt(enc, w, owner, first) \in Shares
<1> DEFINE last == NumParties - 1
           drawn == [k \in 0 .. last - 1 |-> Draw(owner, {owner}, k)]
           rest == Sub(enc, w, SumOver(enc, 0 .. last - 1, drawn))
           share(k) == IF k < last THEN drawn[k] ELSE rest
           number(p, i) == (((p - owner) % NumParties) + i + first) % NumParties
<1>1. Dealt(enc, w, owner, first)
        = [p \in Parties |-> [i \in Index |-> share(number(p, i))]]
  BY DEF Dealt
<1>2. NumParties \in Nat /\ NumParties > 0 /\ ReplicationNumber \in Nat /\ {owner} \in Groups /\ BitsAssumption
  BY DEF SharingAssumption
<1>3. \A k \in 0 .. last - 1 : drawn[k] \in Word
  BY <1>2, DrawIsWord
<1>4. IsFiniteSet(0 .. last - 1)
  BY <1>2, FS_Interval
<1> HIDE DEF drawn
<1>5. rest \in Word
  BY <1>2, <1>3, <1>4, SumIsWord, SharesClosed
<1>6. \A p \in Parties, i \in Index : number(p, i) \in 0 .. NumParties - 1
  <2> SUFFICES ASSUME NEW p \in Parties, NEW i \in Index
               PROVE  number(p, i) \in 0 .. NumParties - 1
    OBVIOUS
  <2> DEFINE d == (p - owner) % NumParties
  <2>1. d \in 0 .. NumParties - 1 /\ i \in Nat
    BY <1>2 DEF Parties, Index
  <2> HIDE DEF d
  <2>2. (d + i + first) % NumParties \in 0 .. NumParties - 1
    BY <1>2, <2>1
  <2> QED BY <2>2 DEF d
<1> HIDE DEF rest, number
<1>7. \A k \in 0 .. NumParties - 1 : share(k) \in Word
  BY <1>2, <1>3, <1>5
<1> HIDE DEF share
<1> QED
  BY <1>1, <1>6, <1>7 DEF Shares

(* The sharing of a word keeps the types.                                  *)
LEMMA SecretShareTyped ==
    ASSUME SharingAssumption, WordsDrawn, Typed, NEW r \in Registers, NEW enc \in Encodings,
           NEW w \in Inputs, NEW owner \in Parties, NEW first \in Nat,
           SecretShare(r, enc, w, owner, first)
    PROVE  Typed'
<1>1. w \in Word /\ MaxPrimitives \in Nat /\ NumParties - 1 \in Nat
  BY DEF SharingAssumption
<1>2. Dealt(enc, w, owner, first) \in Shares
  BY <1>1, DealtTyped
<1>3. /\ Write(r, Vector(enc, Dealt(enc, w, owner, first)))
      /\ Call("share", <<r, enc, w>>) /\ DrawnBy({owner}, {owner}, NumParties - 1)
  BY DEF SecretShare
<1> QED
  BY <1>1, <1>2, <1>3, WriteTyped, DrawnByTyped

(* The local operations keep the types.                                    *)
LEMMA LocalTyped ==
    ASSUME SharingAssumption, Typed, NEW x \in Registers, NEW y \in Registers, NEW z \in Registers,
           NEW enc \in Encodings, AddUp(x, y, z, enc) \/ Subtract(x, y, z, enc)
    PROVE  Typed'
<1> DEFINE sum == Local(LAMBDA a, b : Add(enc, a, b), view[x].sh, view[y].sh)
           dif == Local(LAMBDA a, b : Sub(enc, a, b), view[x].sh, view[y].sh)
<1>1. sum \in Shares /\ dif \in Shares
  BY TypedFacts, SharesClosed DEF Local, Shares
<1>2. /\ \/ Write(z, Vector(enc, sum)) /\ Call("add", <<x, y, z, enc>>)
         \/ Write(z, Vector(enc, dif)) /\ Call("sub", <<x, y, z, enc>>)
      /\ NothingDrawn
  BY DEF AddUp, Subtract
<1>3. MaxPrimitives \in Nat
  BY DEF SharingAssumption
<1> HIDE DEF sum, dif
<1> QED
  BY <1>1, <1>2, <1>3, WriteTyped, NothingDrawnTyped

(* The last bits of words are words.                                       *)
LEMMA MaskedTyped ==
    ASSUME SharingAssumption, Typed, NEW x \in Registers
    PROVE  Masked(view[x].sh) \in Shares
BY TypedFacts, OnOneWord DEF Masked, Shares

(* So are their signs: neither operation leaves the types.                 *)
LEMMA BitsTyped ==
    ASSUME SharingAssumption, Typed, NEW x \in Registers, NEW z \in Registers,
           Mask(x, z) \/ LTZ(x, z)
    PROVE  Typed'
<1> DEFINE s == [p \in Parties |-> [i \in Index |-> Sign(view[x].sh[p][i])]]
<1>1. s \in Shares /\ Masked(view[x].sh) \in Shares
  BY TypedFacts, OnOneWord, MaskedTyped DEF Shares
<1>2. /\ \/ Write(z, Vector("B", Masked(view[x].sh))) /\ Call("mask", <<x, z>>)
         \/ Write(z, Vector("B", s)) /\ Call("ltz", <<x, z>>)
      /\ NothingDrawn
  BY DEF Mask, LTZ
<1>3. MaxPrimitives \in Nat /\ "B" \in Encodings
  BY DEF SharingAssumption, Encodings
<1> HIDE DEF s
<1> QED
  BY <1>1, <1>2, <1>3, WriteTyped, NothingDrawnTyped

(* What the parties open are words.                                        *)
LEMMA OpenTyped ==
    ASSUME SharingAssumption, Typed, NEW x \in Registers, NothingDrawn,
           NEW received, \A p \in Parties : received[p] \in Word,
           opened' = [p \in Parties |->
               Add(view[x].enc, SumOver(view[x].enc, Index, view[x].sh[p]), received[p])],
           UNCHANGED view, NEW name, NEW args, Call(name, args)
    PROVE  Typed'
<1> DEFINE own(p) == view[x].sh[p]
           sum(p) == SumOver(view[x].enc, Index, own(p))
<1>1. opened' = [p \in Parties |-> Add(view[x].enc, sum(p), received[p])]
  OBVIOUS
<1>2. IsFiniteSet(Index)
  <2> DEFINE n == ReplicationNumber - 1
  <2>1. n \in Int /\ 0 \in Int /\ Index = 0 .. n
    BY DEF SharingAssumption, Index
  <2> HIDE DEF n
  <2>2. IsFiniteSet(0 .. n)
    BY <2>1, FS_Interval
  <2> QED BY <2>1, <2>2
<1>3. BitsAssumption /\ \A p \in Parties : \A i \in Index : own(p)[i] \in Word
  BY TypedFacts
<1> HIDE DEF own
<1>4. \A p \in Parties : sum(p) \in Word
  BY <1>2, <1>3, SumIsWord
<1> HIDE DEF sum
<1>5. opened' \in [Parties -> Word \cup {NotOpened}]
  BY <1>1, <1>3, <1>4, SharesClosed
<1>6. nonce' \in Counts
  BY NothingDrawnTyped
<1>7. view' = view /\ calls' \in 0 .. MaxPrimitives
  BY DEF Call, Typed, SharingTypeOK, SharingAssumption
<1> QED
  BY <1>5, <1>6, <1>7 DEF Typed, SharingTypeOK, Counts

(* The members of a group add words to their shares.                       *)
LEMMA RerandomizedTyped ==
    ASSUME SharingAssumption, WordsDrawn, Typed, NEW r \in Registers, NEW g \in Groups
    PROVE  Rerandomized(r, g) \in Shares
<1> DEFINE last == NumParties - 1
           drawn(p) == [s \in 0 .. last - 1 |-> Draw(p, g, s)]
           rest(p) == Sub(view[r].enc, 0, SumOver(view[r].enc, 0 .. last - 1, drawn(p)))
           zero(p) == GroupZero(view[r].enc, p, g)
<1>1. NumParties \in Nat /\ NumParties > 0 /\ BitsAssumption /\ g \subseteq Parties /\ 0 \in Word
  BY TypedFacts DEF SharingAssumption
<1>2. \A p \in Parties : \A k \in 0 .. last - 1 : drawn(p)[k] \in Word
  BY <1>1, DrawIsWord
<1>3. IsFiniteSet(0 .. last - 1)
  BY <1>1, FS_Interval
<1>4. \A p : zero(p) = [s \in Parties |-> IF s < last THEN drawn(p)[s] ELSE rest(p)]
  BY DEF GroupZero
<1> HIDE DEF drawn, zero
<1>5. \A p \in Parties : rest(p) \in Word
  BY <1>1, <1>2, <1>3, SumIsWord, SharesClosed
<1> HIDE DEF rest
<1>6. \A p, s \in Parties : zero(p)[s] \in Word
  BY <1>1, <1>2, <1>4, <1>5 DEF Parties
<1>7. \A p \in Parties, i \in Index : ShareOf(p, i) \in Parties
  <2>1. \A p \in Parties, i \in Index : p + i \in Int
    BY DEF Parties, Index
  <2> QED BY <1>1, <2>1 DEF ShareOf, Rank, Parties
<1>8. \A p \in Parties, i \in Index :
          Rerandomized(r, g)[p][i] = IF p \in g THEN Add(view[r].enc, view[r].sh[p][i], zero(p)[ShareOf(p, i)])
                                     ELSE view[r].sh[p][i]
  BY DEF Rerandomized, zero
<1>9. \A p \in Parties, i \in Index : Rerandomized(r, g)[p][i] \in Word
  BY <1>1, <1>6, <1>7, <1>8, TypedFacts, SharesClosed
<1> QED
  BY <1>9 DEF Rerandomized, Shares

(* What a party outside of the group gets are words.                       *)
LEMMA ResharedTyped ==
    ASSUME SharingAssumption, NEW g \in SUBSET Parties, NEW s \in Shares,
           \A q \in Parties \ g : CanServe(g, q)
    PROVE  Reshared(s, g) \in Shares
<1>1. \A q \in Parties, i \in Index : Reshared(s, g)[q][i] \in Word
  <2> SUFFICES ASSUME NEW q \in Parties, NEW i \in Index
               PROVE  Reshared(s, g)[q][i] \in Word
    OBVIOUS
  <2>1. CASE q \in g
    BY <2>1 DEF Reshared, Shares
  <2>2. CASE q \notin g
    <3>1. PICK p \in g, j \in Index : Reshared(s, g)[q][i] = s[p][j]
      BY <2>2, ReshareDelivers
    <3> QED BY <3>1 DEF Shares
  <2> QED BY <2>1, <2>2
<1> QED
  BY <1>1 DEF Reshared, Shares

-----------------------------------------------------------------------------
(* Division by a positive number has one quotient and one remainder.       *)
LEMMA Divides ==
    ASSUME NEW n \in Nat, n > 0, NEW x \in Int
    PROVE  x \div n \in Int /\ x % n \in 0 .. n - 1 /\ x = n * (x \div n) + (x % n)
BY SMTT(30)

(* Quotient and remainder are the only such pair.                          *)
LEMMA DividesOnce ==
    ASSUME NEW n \in Nat, n > 0, NEW q \in Int, NEW r \in Int, 0 <= r, r < n
    PROVE  (n * q + r) \div n = q /\ (n * q + r) % n = r
<1> DEFINE x == n * q + r
           u == x \div n
           s == x % n
<1>1. x \in Int /\ u \in Int /\ s \in 0 .. n - 1 /\ x = n * u + s
  <2>1. x \in Int
    OBVIOUS
  <2> HIDE DEF x
  <2> QED BY <2>1, Divides
<1>2. n * (q - u) = s - r
  <2>1. n * q + r = n * u + s
    BY <1>1
  <2> HIDE DEF u, s, x
  <2> QED BY <1>1, <2>1
<1> HIDE DEF u, s
<1>3. CASE q - u >= 1
  <2>1. n * (q - u) >= n
    BY <1>1, <1>3
  <2> QED BY <1>1, <1>2, <2>1
<1>4. CASE q - u <= -1
  <2>1. n * (q - u) <= -n
    BY <1>1, <1>4
  <2> QED BY <1>1, <1>2, <2>1
<1>5. CASE q = u
  <2>1. s = r
    BY <1>1, <1>2, <1>5
  <2> QED BY <1>5, <2>1 DEF u, s
<1> QED
  BY <1>1, <1>3, <1>4, <1>5

(* A multiple of the divisor more or less leaves the remainder.            *)
LEMMA Shifted ==
    ASSUME NEW n \in Nat, n > 0, NEW x \in Int, NEW k \in Int
    PROVE  (x + n * k) % n = x % n /\ (x + n * k) \div n = x \div n + k
<1> DEFINE q == x \div n
           r == x % n
           y == x + n * k
           u == q + k
<1>1. q \in Int /\ r \in Int /\ 0 <= r /\ r < n /\ x = n * q + r
  BY Divides
<1> HIDE DEF q, r
<1>2. y = n * u + r /\ u \in Int
  BY <1>1
<1> HIDE DEF u, y
<1>3. y \div n = u /\ y % n = r
  BY <1>1, <1>2, DividesOnce
<1> QED
  BY <1>3 DEF y, u, r, q

(* Dividing twice is dividing by the product.                              *)
-----------------------------------------------------------------------------
(* Arithmetic on words is arithmetic on numbers up to a multiple of Size:  *)
(* w is the word of the number a.                                          *)
WordOf(w, a) == a \in Int /\ w = a % Size

(* A word is the word of itself.                                           *)
LEMMA WordsOfWords ==
    ASSUME BitsAssumption, NEW w \in Word
    PROVE  WordOf(w, w)
<1>1. Size \in Nat /\ Size > 0 /\ w \in Int /\ 0 <= w /\ w < Size
  BY Reduces DEF Word
<1> DEFINE s == Size
<1>2. s \in Nat /\ s > 0 /\ 0 <= w /\ w < s
  BY <1>1
<1> HIDE DEF s
<1>3. (s * 0 + w) % s = w
  BY <1>1, <1>2, DividesOnce
<1>4. s * 0 + w = w
  BY <1>1, <1>2
<1> QED
  BY <1>1, <1>3, <1>4 DEF WordOf, s

(* Numbers apart by a multiple of Size have the same word.                 *)
LEMMA SameWord ==
    ASSUME BitsAssumption, NEW u, NEW a, WordOf(u, a), NEW k \in Int
    PROVE  WordOf(u, a + Size * k)
<1> DEFINE s == Size
<1>1. s \in Nat /\ s > 0 /\ a \in Int /\ u = a % s
  BY Reduces DEF WordOf
<1> HIDE DEF s
<1>2. (a + s * k) % s = u
  BY <1>1, Shifted
<1>3. a + s * k \in Int
  BY <1>1
<1> QED
  BY <1>2, <1>3 DEF WordOf, s

(* Sums, differences and products of words are the words of those of their *)
(* numbers.                                                                *)
LEMMA WordsOfResults ==
    ASSUME BitsAssumption, NEW u, NEW a, WordOf(u, a), NEW v, NEW b, WordOf(v, b)
    PROVE  /\ WordOf(Plus(u, v), a + b)
           /\ WordOf(Minus(u, v), a - b)
           /\ WordOf(Times(u, v), a * b)
<1> DEFINE s == Size
           q == a \div s
           r == b \div s
<1>1. s \in Nat /\ s > 0 /\ a \in Int /\ b \in Int /\ u = a % s /\ v = b % s
  BY Reduces DEF WordOf
<1> HIDE DEF s
<1>2. q \in Int /\ r \in Int /\ a = s * q + u /\ b = s * r + v /\ u \in Int /\ v \in Int
  BY <1>1, Divides
<1> HIDE DEF q, r
<1>3. a + b = (u + v) + s * (q + r) /\ a - b = (u - v) + s * (q - r)
  BY <1>1, <1>2
<1>4. a * b = u * v + s * (s * (q * r) + q * v + r * u)
  BY <1>1, <1>2
<1>5. \A x, k \in Int : (x + s * k) % s = x % s
  BY <1>1, Shifted
<1>6. (a + b) % s = (u + v) % s
  BY <1>2, <1>3, <1>5
<1>7. (a - b) % s = (u - v) % s
  BY <1>2, <1>3, <1>5
<1>8. (a * b) % s = (u * v) % s
  <2> DEFINE k == s * (q * r) + q * v + r * u
             x == u * v
  <2>1. k \in Int /\ x \in Int
    BY <1>1, <1>2
  <2>2. a * b = x + s * k
    BY <1>4
  <2> HIDE DEF k, x
  <2>3. (a * b) % s = x % s
    BY <1>5, <2>1, <2>2
  <2> QED BY <2>3 DEF x
<1>9. a + b \in Int /\ a - b \in Int /\ a * b \in Int
  BY <1>1
<1> QED
  BY <1>6, <1>7, <1>8, <1>9 DEF WordOf, Plus, Minus, Times, s

(* What two numbers that have the same word compute to is one word.        *)
LEMMA OneWord ==
    ASSUME NEW u, NEW v, NEW a, WordOf(u, a), WordOf(v, a)
    PROVE  u = v
BY DEF WordOf

-----------------------------------------------------------------------------
(* Exponents add up.                                                       *)
LEMMA PowersAdd == \A m, n \in Nat : 2 ^ (m + n) = 2 ^ m * 2 ^ n
<1> SUFFICES ASSUME NEW m \in Nat
             PROVE  \A n \in Nat : 2 ^ (m + n) = 2 ^ m * 2 ^ n
  OBVIOUS
<1> DEFINE S == {n \in Nat : 2 ^ (m + n) = 2 ^ m * 2 ^ n}
<1>1. 0 \in S
  <2>1. m + 0 = m /\ 2 ^ 0 = 1 /\ 2 ^ m \in Nat
    BY Powers
  <2> DEFINE one == 2 ^ 0
             u == 2 ^ m
  <2>2. one = 1 /\ u \in Nat
    BY <2>1
  <2> HIDE DEF one, u
  <2>3. u = u * one
    BY <2>2
  <2> QED BY <2>1, <2>3 DEF u, one
<1>2. ASSUME NEW n \in Nat, n \in S
      PROVE  n + 1 \in S
  <2> DEFINE u == 2 ^ m
             v == 2 ^ n
             w == 2 ^ (n + 1)
             k == m + n
             t == 2 ^ k
             t2 == 2 ^ (k + 1)
  <2>1. u \in Nat /\ v \in Nat /\ w = 2 * v
    BY Powers
  <2>2. k \in Nat
    OBVIOUS
  <2>3. t = u * v
    BY <1>2
  <2> HIDE DEF k
  <2>4. t2 = 2 * t /\ t \in Nat
    BY <2>2, Powers
  <2> HIDE DEF u, v, w, t, t2
  <2>5. t2 = u * w
    BY <2>1, <2>3, <2>4
  <2>6. m + (n + 1) = k + 1
    BY DEF k
  <2> QED BY <2>5, <2>6 DEF t2, u, w
<1> HIDE DEF S
<1>3. Nat \subseteq S
  BY <1>1, <1>2, FromZero
<1> QED
  BY <1>3 DEF S

-----------------------------------------------------------------------------
(* A bit is a bit.                                                         *)
LEMMA BitIsBit ==
    ASSUME NEW a \in Int, NEW i \in Nat
    PROVE  Bit(a, i) \in {0, 1}
<1> DEFINE v == 2 ^ i
           q == a \div v
<1>1. v \in Nat /\ v > 0
  BY PowersPositive
<1> HIDE DEF v
<1>2. q \in Int
  BY <1>1, Divides
<1> HIDE DEF q
<1>3. q % 2 \in 0 .. 1
  BY <1>2
<1> QED
  BY <1>3 DEF Bit, q, v

(* Higher powers of two do not change a bit.                               *)
LEMMA LowBits ==
    ASSUME NEW a \in Int, NEW k \in Int, NEW n \in Nat, NEW i \in Nat, i < n
    PROVE  Bit(a + k * 2 ^ n, i) = Bit(a, i)
<1> DEFINE v == 2 ^ i
           d == (n - i) - 1
           m == 2 ^ d
           m2 == 2 ^ (d + 1)
           u == 2 ^ n
           q == a \div v
           c == m * k
           e == 2 * c
           x == a + v * e
<1>1. d \in Nat /\ i + (d + 1) = n
  OBVIOUS
<1> HIDE DEF d
<1>2. v \in Nat /\ v > 0 /\ m \in Nat /\ m2 = 2 * m
  BY <1>1, PowersPositive, Powers
<1>3. u = v * m2
  <2> DEFINE j == d + 1
  <2>1. j \in Nat /\ i + j = n
    BY <1>1
  <2> HIDE DEF j
  <2>2. 2 ^ (i + j) = 2 ^ i * 2 ^ j
    BY <2>1, PowersAdd
  <2> QED BY <2>1, <2>2 DEF j
<1> HIDE DEF v, m, m2, u
<1>4. a + k * u = x /\ c \in Int /\ e \in Int
  BY <1>2, <1>3
<1>5. q \in Int
  BY <1>2, Divides
<1> HIDE DEF c, x
<1>6. x \div v = q + e
  <2> HIDE DEF e
  <2> QED BY <1>2, <1>4, Shifted DEF x
<1> HIDE DEF q
<1>7. (q + 2 * c) % 2 = q % 2
  BY <1>4, <1>5, Shifted
<1> QED
  BY <1>4, <1>6, <1>7 DEF Bit, v, u, q

(* The bits a word is put together from are its bits.                      *)
LEMMA BitsOfFromBits ==
    ASSUME BitsAssumption, NEW bits \in [Places -> {0, 1}], NEW i \in Places
    PROVE  Bit(FromBits(bits), i) = bits[i]
<1>1. PICK h : Builds(h, bits) /\ h[Bits] = FromBits(bits)
  BY FromBitsBuilds
<1> DEFINE Good == {n \in Nat : n <= Bits => \A j \in 0 .. n - 1 : Bit(h[n], j) = bits[j]}
<1>2. 0 \in Good
  OBVIOUS
<1>3. ASSUME NEW n \in Nat, n \in Good
      PROVE  n + 1 \in Good
  <2> SUFFICES ASSUME n + 1 <= Bits, NEW j \in 0 .. n
               PROVE  Bit(h[n + 1], j) = bits[j]
    OBVIOUS
  <2> DEFINE v == 2 ^ n
             b == bits[n]
             a == h[n]
  <2>1. n \in Places /\ n \in 0 .. Bits /\ Bits \in Nat /\ n <= Bits /\ j \in Nat
    BY DEF Places, BitsAssumption
  <2>2. b \in {0, 1} /\ a \in Nat /\ a < v /\ h[n + 1] = a + b * v /\ v \in Nat
    BY <1>1, <2>1, BuildsBelow, Powers DEF Builds
  <2>3. CASE j < n
    <3>1. Bit(a, j) = bits[j]
      BY <1>3, <2>1, <2>3
    <3>2. b \in Int /\ a \in Int
      BY <2>2
    <3> HIDE DEF a, b
    <3>3. Bit(a + b * 2 ^ n, j) = Bit(a, j)
      BY <2>1, <2>3, <3>2, LowBits
    <3> QED BY <2>2, <3>1, <3>3
  <2>4. CASE j = n
    <3> HIDE DEF v, a, b
    <3>1. (v * b + a) \div v = b
      BY <2>2, DividesOnce
    <3>2. v * b + a = a + b * v
      BY <2>2
    <3>3. h[n + 1] \div v = b
      BY <2>2, <3>1, <3>2
    <3>4. b % 2 = b
      BY <2>2
    <3> QED BY <2>4, <3>3, <3>4 DEF Bit, v, b
  <2> QED BY <2>1, <2>3, <2>4
<1> HIDE DEF Good
<1>4. Nat \subseteq Good
  BY <1>2, <1>3, FromZero
<1>5. Bits \in Good /\ i \in 0 .. Bits - 1
  BY <1>4 DEF Places, BitsAssumption
<1> QED
  BY <1>1, <1>5 DEF Good

(* Words with the same bits are equal.                                     *)
LEMMA SameBits ==
    ASSUME BitsAssumption, NEW a \in Word, NEW b \in Word, \A i \in Places : Bit(a, i) = Bit(b, i)
    PROVE  a = b
<1> DEFINE Below(n) == {x \in Nat : x < 2 ^ n}
           Alike(n, x, y) == \A i \in 0 .. n - 1 : Bit(x, i) = Bit(y, i)
           Good == {n \in Nat : \A x, y \in Below(n) : Alike(n, x, y) => x = y}
<1>1. 0 \in Good
  <2> DEFINE one == 2 ^ 0
  <2>1. one = 1
    BY Powers
  <2>2. Below(0) = {x \in Nat : x < one}
    OBVIOUS
  <2> HIDE DEF one, Below
  <2>3. \A x, y \in Below(0) : x = y
    BY <2>1, <2>2
  <2> QED BY <2>3
<1>2. ASSUME NEW n \in Nat, n \in Good
      PROVE  n + 1 \in Good
  <2> DEFINE v == 2 ^ n
             v2 == 2 ^ (n + 1)
             high(x) == x \div v
             low(x) == x % v
  <2>1. v \in Nat /\ v > 0 /\ v2 = 2 * v
    BY Powers, PowersPositive
  <2>2. ASSUME NEW x \in Below(n + 1)
        PROVE  /\ low(x) \in Below(n) /\ high(x) \in {0, 1}
               /\ x = low(x) + high(x) * 2 ^ n
               /\ high(x) = Bit(x, n)
               /\ \A i \in 0 .. n - 1 : Bit(x, i) = Bit(low(x), i)
    <3> DEFINE q == high(x)
               r == low(x)
    <3>1. x \in Nat /\ x < v2
      OBVIOUS
    <3> HIDE DEF v, v2
    <3>2. q \in Int /\ r \in 0 .. v - 1 /\ x = v * q + r
      BY <2>1, <3>1, Divides
    <3> HIDE DEF q, r
    <3>3. q = 0 \/ q = 1
      <4>1. CASE q >= 2
        <5>1. v * q >= v * 2
          BY <2>1, <3>2, <4>1
        <5> QED BY <2>1, <3>1, <3>2, <5>1
      <4>2. CASE q <= -1
        <5>1. v * q <= v * (0 - 1)
          BY <2>1, <3>2, <4>2
        <5> QED BY <2>1, <3>1, <3>2, <5>1
      <4> QED BY <3>2, <4>1, <4>2
    <3>4. r \in Below(n)
      BY <2>1, <3>2 DEF v
    <3>5. x = r + q * v
      BY <2>1, <3>2
    <3>6. q % 2 = q
      BY <3>3
    <3>7. Bit(x, n) = q
      BY <3>6 DEF Bit, q, v
    <3>8. \A i \in 0 .. n - 1 : Bit(x, i) = Bit(r, i)
      <4> TAKE i \in 0 .. n - 1
      <4>1. r \in Int /\ q \in Int /\ i \in Nat /\ i < n
        BY <2>1, <3>2
      <4>2. Bit(r + q * 2 ^ n, i) = Bit(r, i)
        BY <4>1, LowBits
      <4> QED BY <3>5, <4>2 DEF v
    <3> HIDE DEF Below
    <3> QED BY <3>3, <3>4, <3>5, <3>7, <3>8 DEF q, r, v
  <2> SUFFICES ASSUME NEW x \in Below(n + 1), NEW y \in Below(n + 1), Alike(n + 1, x, y)
               PROVE  x = y
    <3> HIDE DEF Below, Alike
    <3> QED OBVIOUS
  <2> HIDE DEF Below, v, v2, high, low
  <2>3. high(x) = high(y)
    <3>1. Bit(x, n) = Bit(y, n)
      OBVIOUS
    <3> QED BY <2>2, <3>1
  <2>4. Alike(n, low(x), low(y))
    <3>1. \A i \in 0 .. n - 1 : Bit(x, i) = Bit(y, i)
      OBVIOUS
    <3> QED BY <2>2, <3>1
  <2>5. low(x) = low(y)
    <3> HIDE DEF Alike
    <3> QED BY <1>2, <2>2, <2>4
  <2> QED BY <2>2, <2>3, <2>5
<1> HIDE DEF Good
<1>3. Nat \subseteq Good
  BY <1>1, <1>2, FromZero
<1>4. Bits \in Good
  BY <1>3 DEF BitsAssumption
<1>5. a \in Below(Bits) /\ b \in Below(Bits)
  BY Reduces DEF Word, Size
<1>6. Alike(Bits, a, b)
  BY DEF Places
<1> HIDE DEF Below, Alike
<1> QED
  BY <1>4, <1>5, <1>6 DEF Good

-----------------------------------------------------------------------------
(* The bits of a bitwise operation are those of its operands, combined.    *)
LEMMA BitsOfTables ==
    ASSUME BitsAssumption, NEW a \in Word, NEW b \in Word, NEW i \in Places
    PROVE  /\ Bit(Xor(a, b), i) = (Bit(a, i) + Bit(b, i)) % 2
           /\ Bit(And(a, b), i) = Bit(a, i) * Bit(b, i)
<1> DEFINE x == [j \in Places |-> (Bit(a, j) + Bit(b, j)) % 2]
           y == [j \in Places |-> Bit(a, j) * Bit(b, j)]
<1>1. \A j \in Places : Bit(a, j) \in {0, 1} /\ Bit(b, j) \in {0, 1}
  <2>1. a \in Int /\ b \in Int /\ Places \subseteq Nat
    BY Reduces DEF Places, BitsAssumption
  <2> QED BY <2>1, BitIsBit
<1>2. \A c, d \in {0, 1} : (c + d) % 2 \in {0, 1} /\ c * d \in {0, 1}
  OBVIOUS
<1>3. x \in [Places -> {0, 1}] /\ y \in [Places -> {0, 1}]
  BY <1>1, <1>2
<1>4. x[i] = (Bit(a, i) + Bit(b, i)) % 2 /\ y[i] = Bit(a, i) * Bit(b, i)
  OBVIOUS
<1>5. Xor(a, b) = FromBits(x) /\ And(a, b) = FromBits(y)
  BY DEF Xor, XorTable, And, AndTable
<1> HIDE DEF x, y
<1>6. Bit(FromBits(x), i) = x[i] /\ Bit(FromBits(y), i) = y[i]
  BY <1>3, BitsOfFromBits
<1> QED
  BY <1>4, <1>5, <1>6

-----------------------------------------------------------------------------
(* Both kinds of shares are numbers up to a multiple: an arithmetic share  *)
(* up to a multiple of Size, and every bit of a boolean one up to an even  *)
(* number.  The word w stands for the number a, at its bit i.              *)
Num(enc, i, w, a) == a \in Int /\ IF enc = "A" THEN WordOf(w, a) ELSE Bit(w, i) = a % 2

(* Every word stands for some number, at each of its bits.                 *)
LEMMA HasNumber ==
    ASSUME BitsAssumption, NEW enc, NEW i \in Places, NEW w \in Word
    PROVE  \E a : Num(enc, i, w, a)
<1>1. w \in Int /\ i \in Nat
  BY Reduces DEF Places, BitsAssumption
<1>2. WordOf(w, w)
  BY WordsOfWords
<1>3. Bit(w, i) = Bit(w, i) % 2 /\ Bit(w, i) \in Int
  <2>1. Bit(w, i) \in {0, 1}
    BY <1>1, BitIsBit
  <2>2. \A c \in {0, 1} : c % 2 = c
    OBVIOUS
  <2> QED BY <2>1, <2>2
<1>4. CASE enc = "A"
  BY <1>1, <1>2, <1>4 DEF Num
<1>5. CASE enc # "A"
  BY <1>3, <1>5 DEF Num
<1> QED
  BY <1>4, <1>5

(* Zero stands for zero.                                                   *)
LEMMA ZeroNumber ==
    ASSUME BitsAssumption, NEW enc, NEW i \in Places
    PROVE  Num(enc, i, 0, 0)
<1>1. i \in Nat /\ 0 \in Word
  BY Reduces DEF Places, BitsAssumption
<1>2. WordOf(0, 0)
  BY <1>1, WordsOfWords
<1>3. Bit(0, i) = 0
  <2> DEFINE v == 2 ^ i
  <2>1. v \in Nat /\ v > 0
    BY <1>1, PowersPositive
  <2> HIDE DEF v
  <2>2. (v * 0 + 0) \div v = 0
    BY <2>1, DividesOnce
  <2>3. v * 0 + 0 = 0
    BY <2>1
  <2>4. 0 \div v = 0
    BY <2>2, <2>3
  <2> QED BY <2>4 DEF Bit, v
<1> QED
  BY <1>2, <1>3 DEF Num

(* The operations compute on the numbers, and words that stand for the     *)
(* same numbers are equal: what holds of integers holds of shares.         *)
LEMMA NumbersCompute ==
    ASSUME BitsAssumption, NEW enc, NEW i \in Places,
           NEW u \in Word, NEW a, Num(enc, i, u, a), NEW v \in Word, NEW b, Num(enc, i, v, b)
    PROVE  /\ Num(enc, i, Add(enc, u, v), a + b)
           /\ Num(enc, i, Sub(enc, u, v), a - b)
           /\ Num(enc, i, Mul(enc, u, v), a * b)
<1>1. a \in Int /\ b \in Int
  BY DEF Num
<1>2. CASE enc = "A"
  <2>1. WordOf(u, a) /\ WordOf(v, b)
    BY <1>2 DEF Num
  <2>2. WordOf(Plus(u, v), a + b) /\ WordOf(Minus(u, v), a - b) /\ WordOf(Times(u, v), a * b)
    BY <2>1, WordsOfResults
  <2>3. a + b \in Int /\ a - b \in Int /\ a * b \in Int
    BY <1>1
  <2> QED BY <1>2, <2>2, <2>3 DEF Num, Add, Sub, Mul
<1>3. CASE enc # "A"
  <2>1. Bit(u, i) = a % 2 /\ Bit(v, i) = b % 2
    BY <1>3 DEF Num
  <2>2. Bit(Xor(u, v), i) = (Bit(u, i) + Bit(v, i)) % 2 /\ Bit(And(u, v), i) = Bit(u, i) * Bit(v, i)
    BY BitsOfTables
  <2>3. /\ ((a % 2) + (b % 2)) % 2 = (a + b) % 2
        /\ ((a % 2) + (b % 2)) % 2 = (a - b) % 2
    BY <1>1
  <2>4. (a % 2) * (b % 2) = (a * b) % 2
    <3> DEFINE q == a \div 2
               r == a % 2
               s == b \div 2
               t == b % 2
    <3>1. q \in Int /\ r \in {0, 1} /\ a = 2 * q + r /\ s \in Int /\ t \in {0, 1} /\ b = 2 * s + t
      BY <1>1
    <3> HIDE DEF q, r, s, t
    <3>2. a * b = r * t + 2 * (q * b + r * s)
      BY <3>1
    <3> DEFINE k == q * b + r * s
               x == r * t
    <3>3. k \in Int /\ x \in {0, 1}
      BY <1>1, <3>1
    <3>4. a * b = x + 2 * k
      BY <3>2
    <3> HIDE DEF k, x
    <3>5. (x + 2 * k) % 2 = x
      BY <3>3
    <3> QED BY <3>4, <3>5 DEF x, r, t
  <2>5. a + b \in Int /\ a - b \in Int /\ a * b \in Int
    BY <1>1
  <2> QED BY <1>3, <2>1, <2>2, <2>3, <2>4, <2>5 DEF Num, Add, Sub, Mul
<1> QED
  BY <1>2, <1>3

(* Words that stand for the same numbers are the same word.                *)
LEMMA SameNumbers ==
    ASSUME BitsAssumption, NEW enc, NEW u \in Word, NEW v \in Word,
           \A i \in Places : \E a : Num(enc, i, u, a) /\ Num(enc, i, v, a)
    PROVE  u = v
<1>1. CASE enc = "A"
  <2>1. 0 \in Places
    BY DEF Places, BitsAssumption
  <2>2. PICK a : Num(enc, 0, u, a) /\ Num(enc, 0, v, a)
    BY <2>1
  <2>3. WordOf(u, a) /\ WordOf(v, a)
    BY <1>1, <2>2 DEF Num
  <2> QED BY <2>3, OneWord
<1>2. CASE enc # "A"
  <2>1. \A i \in Places : Bit(u, i) = Bit(v, i)
    BY <1>2 DEF Num
  <2> QED BY <2>1, SameBits
<1> QED
  BY <1>1, <1>2

-----------------------------------------------------------------------------
(* A sum of words stands for the sum of their numbers.  Every sum of the   *)
(* protocols is over some of 0 .. 6.                                       *)
Term(T, a, k) == IF k \in T THEN a[k] ELSE 0
Total(T, a) == Term(T, a, 0) + Term(T, a, 1) + Term(T, a, 2) + Term(T, a, 3)
               + Term(T, a, 4) + Term(T, a, 5) + Term(T, a, 6)

(* A total is one of its terms and the total of the others.                *)
LEMMA TotalTakesOut ==
    ASSUME NEW T \in SUBSET (0 .. 6), NEW a, \A k \in T : a[k] \in Int, NEW x \in T
    PROVE  Total(T \ {x}, a) \in Int /\ Total(T, a) = a[x] + Total(T \ {x}, a)
<1> DEFINE t(k) == Term(T, a, k)
           r(k) == Term(T \ {x}, a, k)
<1>1. \A k \in 0 .. 6 : t(k) \in Int /\ r(k) \in Int
  BY DEF Term
<1>2. \A k \in 0 .. 6 : (k # x => r(k) = t(k))
  BY DEF Term
<1>3. r(x) = 0 /\ t(x) = a[x]
  BY DEF Term
<1>4. x \in {0, 1, 2, 3, 4, 5, 6} /\ 0 .. 6 = {0, 1, 2, 3, 4, 5, 6}
  OBVIOUS
<1>5. Total(T, a) = t(0) + t(1) + t(2) + t(3) + t(4) + t(5) + t(6)
  BY DEF Total
<1>6. Total(T \ {x}, a) = r(0) + r(1) + r(2) + r(3) + r(4) + r(5) + r(6)
  BY DEF Total
<1> HIDE DEF t, r
<1> QED
  BY <1>1, <1>2, <1>3, <1>4, <1>5, <1>6

Nums(enc, i, S, f, a) == \A k \in S : f[k] \in Word /\ Num(enc, i, f[k], a[k])

(* The sum of words over a set of parties stands for the total of their    *)
(* numbers.                                                                *)
LEMMA SumNumber ==
    ASSUME BitsAssumption, NEW enc, NEW i \in Places, NEW S, S \subseteq 0 .. 6, NEW f, NEW a,
           Nums(enc, i, S, f, a)
    PROVE  Num(enc, i, SumOver(enc, S, f), Total(S, a))
<1>1. IsFiniteSet(S)
  <2> DEFINE six == 6
  <2>1. six \in Int
    OBVIOUS
  <2> HIDE DEF six
  <2>2. IsFiniteSet(0 .. six)
    BY <2>1, FS_Interval
  <2> QED BY <2>2, FS_Subset DEF six
<1>2. 0 \in Word /\ \A k \in S : \A v \in Word : Add(enc, f[k], v) \in Word
  BY Reduces, SharesClosed DEF Nums
<1>3. PICK it, pick : SumsTo(it, enc, S, f, pick)
  BY <1>1, <1>2, SumOverFolds
<1>4. Picks(S, pick) /\ it[S] = SumOver(enc, S, f)
  BY <1>3 DEF SumsTo
<1> DEFINE Good == {s \in SUBSET S : it[s] \in Word /\ Num(enc, i, it[s], Total(s, a))}
<1>5. {} \in Good
  <2>1. it[{}] = 0
    BY <1>3 DEF SumsTo
  <2>2. Total({}, a) = 0
    BY DEF Total, Term
  <2>3. Num(enc, i, 0, 0)
    BY ZeroNumber
  <2> QED BY <1>2, <2>1, <2>2, <2>3
<1>6. ASSUME NEW s \in SUBSET S, s # {}, s \ {pick[s]} \in Good
      PROVE  s \in Good
  <2> DEFINE x == pick[s]
             rest == s \ {x}
  <2>1. x \in S /\ x \in s /\ it[rest] \in Word /\ Num(enc, i, it[rest], Total(rest, a))
    BY <1>4, <1>6 DEF Picks
  <2>2. it[s] = Add(enc, f[x], it[rest])
    BY <1>3, <1>6 DEF SumsTo
  <2> HIDE DEF x
  <2>3. f[x] \in Word /\ Num(enc, i, f[x], a[x])
    BY <2>1 DEF Nums
  <2>4. \A k \in s : a[k] \in Int
    BY DEF Nums, Num
  <2>5. Total(s, a) = a[x] + Total(rest, a)
    BY <2>1, <2>4, TotalTakesOut
  <2>6. Num(enc, i, Add(enc, f[x], it[rest]), a[x] + Total(rest, a))
    <3> HIDE DEF rest
    <3> QED BY <2>1, <2>3, NumbersCompute
  <2>7. Add(enc, f[x], it[rest]) \in Word
    BY <1>2, <2>1
  <2> QED BY <2>2, <2>5, <2>6, <2>7
<1> HIDE DEF Good
<1>7. Picks(S, pick)
  BY <1>4
<1>8. SUBSET S \subseteq Good
  BY <1>1, <1>5, <1>6, <1>7, PickInduction
<1> QED
  BY <1>4, <1>8 DEF Good

-----------------------------------------------------------------------------
(* A word of one bit has the other bits clear.                             *)
LEMMA OneBit ==
    ASSUME NEW b \in {0, 1}, NEW i \in Nat
    PROVE  Bit(b, i) = IF i = 0 THEN b ELSE 0
<1>1. CASE i = 0
  <2> DEFINE one == 2 ^ 0
             v == 2 ^ i
  <2>1. one = 1 /\ v = one
    BY <1>1, Powers
  <2> HIDE DEF one, v
  <2>2. v = 1
    BY <2>1
  <2>3. (b \div v) % 2 = b
    BY <2>2
  <2> QED BY <1>1, <2>3 DEF Bit, v
<1>2. CASE i # 0
  <2> DEFINE d == i - 1
             m == 2 ^ d
             v == 2 ^ i
  <2>1. d \in Nat /\ d + 1 = i
    BY <1>2
  <2>2. m \in Nat /\ m > 0 /\ v = 2 * m
    <3> HIDE DEF d
    <3>1. 2 ^ (d + 1) = 2 * 2 ^ d /\ 2 ^ d \in Nat /\ 2 ^ d > 0
      BY <2>1, Powers, PowersPositive
    <3> QED BY <2>1, <3>1
  <2> HIDE DEF d, m, v
  <2>3. v \in Nat /\ v > 0 /\ 0 <= b /\ b < v
    BY <2>2
  <2>4. (v * 0 + b) \div v = 0
    BY <2>3, DividesOnce
  <2>5. v * 0 + b = b
    BY <2>3
  <2>6. (b \div v) % 2 = 0
    BY <2>4, <2>5
  <2> QED BY <1>2, <2>6 DEF Bit, v
<1> QED
  BY <1>1, <1>2

(* The complement turns every bit around.                                  *)
LEMMA ComplementBits ==
    ASSUME BitsAssumption, NEW w \in Word, NEW i \in Places
    PROVE  Bit(Complement(w), i) = 1 - Bit(w, i)
<1> DEFINE v == 2 ^ i
           d == (Bits - i) - 1
           m == 2 ^ d
           q == w \div v
           r == w % v
<1>1. i \in Nat /\ d \in Nat /\ i + (d + 1) = Bits /\ w \in Int
  BY Reduces DEF Places, BitsAssumption
<1> HIDE DEF d
<1>2. v \in Nat /\ v > 0 /\ m \in Nat /\ Size = v * (2 * m)
  <2> DEFINE j == d + 1
  <2>1. j \in Nat /\ i + j = Bits /\ 2 ^ j = 2 * 2 ^ d /\ 2 ^ d \in Nat
    BY <1>1, Powers
  <2>2. v \in Nat /\ v > 0
    BY <1>1, PowersPositive
  <2> HIDE DEF j
  <2>3. 2 ^ (i + j) = 2 ^ i * 2 ^ j
    BY <1>1, <2>1, PowersAdd
  <2> QED BY <2>1, <2>2, <2>3 DEF Size
<1> HIDE DEF v, m
<1>3. q \in Int /\ r \in 0 .. v - 1 /\ w = v * q + r
  BY <1>1, <1>2, Divides
<1> HIDE DEF q, r
<1> DEFINE u == 2 * m - 1 - q
           s == v - 1 - r
<1>4. Complement(w) = v * u + s /\ u \in Int /\ s \in Nat /\ s < v
  BY <1>2, <1>3 DEF Complement
<1> HIDE DEF s
<1>5. Complement(w) \div v = u
  <2> HIDE DEF u
  <2> QED BY <1>2, <1>4, DividesOnce
<1>6. (2 * m - 1 - q) % 2 = 1 - (q % 2)
  BY <1>2, <1>3
<1> DEFINE c == Bit(Complement(w), i)
           e == Bit(w, i)
<1>7. c = u % 2
  BY <1>5 DEF Bit, v
<1>8. e = q % 2
  BY DEF Bit, v, q
<1>9. u % 2 = 1 - (q % 2)
  BY <1>6
<1> HIDE DEF c, e, u
<1>10. c = 1 - e
  BY <1>3, <1>4, <1>7, <1>8, <1>9
<1> QED
  BY <1>10 DEF c, e

(* The last bit is the one at 0, the sign the one at the other end.        *)
LEMMA EndBits ==
    ASSUME BitsAssumption, NEW w \in Word
    PROVE  LSB(w) = Bit(w, 0) /\ Sign(w) = Bit(w, Bits - 1)
<1>1. w \in Int /\ 0 <= w /\ w < Size
  BY Reduces DEF Word
<1>2. LSB(w) = Bit(w, 0)
  <2> DEFINE one == 2 ^ 0
  <2>1. one = 1
    BY Powers
  <2> HIDE DEF one
  <2>2. w \div one = w
    BY <1>1, <2>1
  <2> QED BY <2>2 DEF Bit, LSB, one
<1>3. Sign(w) = Bit(w, Bits - 1)
  <2> DEFINE n == Bits - 1
             v == 2 ^ n
  <2>1. n \in Nat /\ n + 1 = Bits
    BY DEF BitsAssumption
  <2>2. v \in Nat /\ v > 0 /\ Size = 2 * v
    <3> HIDE DEF n
    <3>1. 2 ^ (n + 1) = 2 * 2 ^ n /\ 2 ^ n \in Nat /\ 2 ^ n > 0
      BY <2>1, Powers, PowersPositive
    <3> QED BY <2>1, <3>1 DEF Size
  <2> HIDE DEF v
  <2>3. Size \div 2 = v
    BY <2>2
  <2>4. CASE w >= v
    <3>1. (v * 1 + (w - v)) \div v = 1
      <4> DEFINE r == w - v
      <4>1. r \in Int /\ 0 <= r /\ r < v
        BY <1>1, <2>2, <2>4
      <4> HIDE DEF r
      <4>2. (v * 1 + r) \div v = 1
        BY <2>2, <4>1, DividesOnce
      <4> QED BY <4>2 DEF r
    <3>2. v * 1 + (w - v) = w
      BY <1>1, <2>2
    <3>3. w \div v = 1
      BY <3>1, <3>2
    <3> QED BY <2>3, <2>4, <3>3 DEF Sign, IsNegative, Bit, v
  <2>5. CASE ~ (w >= v)
    <3>1. (v * 0 + w) \div v = 0
      BY <1>1, <2>2, <2>5, DividesOnce
    <3>2. v * 0 + w = w
      BY <1>1, <2>2
    <3>3. w \div v = 0
      BY <3>1, <3>2
    <3> QED BY <2>3, <2>5, <3>3 DEF Sign, IsNegative, Bit, v
  <2> QED BY <2>4, <2>5
<1> QED
  BY <1>2, <1>3

(* What the operations on one boolean word do to its numbers.              *)
LEMMA NumbersOfBits ==
    ASSUME BitsAssumption, NEW i \in Places, NEW w \in Word
    PROVE  /\ \A a : Num("B", i, w, a) => Num("B", i, Complement(w), a + 1)
           /\ \A a : Num("B", 0, w, a) =>
                  /\ Num("B", i, LSB(w), IF i = 0 THEN a ELSE 0)
                  /\ Num("B", i, LogicalNot(LSB(w)), IF i = 0 THEN a + 1 ELSE 0)
                  /\ WordOf(LSB(w), a % 2)
           /\ \A a : Num("B", Bits - 1, w, a) => Num("B", i, Sign(w), IF i = 0 THEN a ELSE 0)
<1>1. i \in Nat /\ Bits - 1 \in Nat /\ w \in Int /\ 0 \in Nat
  BY Reduces DEF Places, BitsAssumption
<1>2. Bit(w, i) \in {0, 1} /\ LSB(w) \in {0, 1} /\ Sign(w) \in {0, 1} /\ LogicalNot(LSB(w)) \in {0, 1}
  <2>1. Bit(w, i) \in {0, 1} /\ Bit(w, 0) \in {0, 1}
    BY <1>1, BitIsBit
  <2> QED BY <2>1, EndBits DEF Sign, LogicalNot
<1>3. \A a \in Int : a % 2 \in {0, 1} /\ (a + 1) % 2 = 1 - (a % 2) /\ (a % 2) % 2 = a % 2 /\ 0 % 2 = 0
  OBVIOUS
<1>4. ASSUME NEW a, Num("B", i, w, a)
      PROVE  Num("B", i, Complement(w), a + 1)
  <2>1. a \in Int /\ Bit(w, i) = a % 2 /\ a + 1 \in Int
    BY <1>4 DEF Num
  <2>2. Bit(Complement(w), i) = 1 - Bit(w, i)
    BY ComplementBits
  <2>3. Bit(Complement(w), i) = (a + 1) % 2
    BY <1>3, <2>1, <2>2
  <2> QED BY <2>1, <2>3 DEF Num
<1>5. ASSUME NEW a, Num("B", 0, w, a)
      PROVE  /\ Num("B", i, LSB(w), IF i = 0 THEN a ELSE 0)
             /\ Num("B", i, LogicalNot(LSB(w)), IF i = 0 THEN a + 1 ELSE 0)
             /\ WordOf(LSB(w), a % 2)
  <2>1. a \in Int /\ LSB(w) = a % 2 /\ a + 1 \in Int /\ a % 2 \in Int
    BY <1>3, <1>5, EndBits DEF Num
  <2>2. LogicalNot(LSB(w)) = (a + 1) % 2
    BY <1>3, <2>1 DEF LogicalNot
  <2>3. /\ Bit(LSB(w), i) = IF i = 0 THEN LSB(w) ELSE 0
        /\ Bit(LogicalNot(LSB(w)), i) = IF i = 0 THEN LogicalNot(LSB(w)) ELSE 0
    BY <1>1, <1>2, OneBit
  <2>4. WordOf(LSB(w), LSB(w))
    BY OnOneWord, WordsOfWords
  <2> QED BY <1>3, <2>1, <2>2, <2>3, <2>4 DEF Num
<1>6. ASSUME NEW a, Num("B", Bits - 1, w, a)
      PROVE  Num("B", i, Sign(w), IF i = 0 THEN a ELSE 0)
  <2>1. a \in Int /\ Sign(w) = a % 2
    BY <1>6, EndBits DEF Num
  <2>2. Bit(Sign(w), i) = IF i = 0 THEN Sign(w) ELSE 0
    BY <1>1, <1>2, OneBit
  <2> QED BY <1>3, <2>1, <2>2 DEF Num
<1> QED
  BY <1>4, <1>5, <1>6

(* The last bit is the parity of the numbers, and the exclusive or of two  *)
(* bits is the parity of their sum.                                        *)
LEMMA LastBit ==
    ASSUME BitsAssumption, NEW w \in Word
    PROVE  LSB(w) \in {0, 1} /\ \A a : Num("B", 0, w, a) => LSB(w) = a % 2
<1>1. w \in Int /\ LSB(w) = Bit(w, 0)
  BY Reduces, EndBits
<1> QED
  BY <1>1, BitIsBit DEF Num

(* The exclusive or of two bits is their sum modulo two.                   *)
LEMMA XorOfBits ==
    ASSUME BitsAssumption, NEW b \in {0, 1}, NEW c \in {0, 1}
    PROVE  Xor(b, c) = (b + c) % 2
<1> DEFINE u == Xor(b, c)
           v == (b + c) % 2
<1>1. b \in Word /\ c \in Word /\ \A i \in Places : i \in Nat
  BY Reduces DEF Places, BitsAssumption
<1>2. v \in {0, 1}
  OBVIOUS
<1>3. u \in Word /\ v \in Word
  <2> HIDE DEF v
  <2> QED BY <1>1, <1>2, Closed, Reduces
<1>4. ASSUME NEW i \in Places PROVE Bit(u, i) = Bit(v, i)
  <2>1. Bit(u, i) = (Bit(b, i) + Bit(c, i)) % 2
    BY <1>1, BitsOfTables
  <2>2. /\ Bit(b, i) = IF i = 0 THEN b ELSE 0
        /\ Bit(c, i) = IF i = 0 THEN c ELSE 0
    BY <1>1, OneBit
  <2>3. Bit(v, i) = IF i = 0 THEN v ELSE 0
    <3> HIDE DEF v
    <3> QED BY <1>1, <1>2, OneBit
  <2> HIDE DEF u
  <2>4. (0 + 0) % 2 = 0
    OBVIOUS
  <2> QED BY <2>1, <2>2, <2>3, <2>4
<1> HIDE DEF u, v
<1>5. u = v
  BY <1>3, <1>4, SameBits
<1> QED
  BY <1>5 DEF u, v

-----------------------------------------------------------------------------
(* What shares reconstruct to, by their numbers.  The protocols have few   *)
(* parties.                                                                *)
FewParties == SharingAssumption /\ NumParties <= 7
Firsts(enc, i, s, a) == \A p \in Parties : Num(enc, i, s[p][0], a[p])

(* What the proofs need of the parties when they are at most seven.        *)
LEMMA FewFacts ==
    ASSUME FewParties
    PROVE  /\ BitsAssumption /\ 0 \in Index /\ Parties \subseteq 0 .. 6 /\ IsFiniteSet(Parties)
           /\ \A s \in Shares : \A p \in Parties, i \in Index : s[p][i] \in Word
<1>1. BitsAssumption /\ NumParties \in Nat /\ ReplicationNumber \in 1 .. NumParties /\ NumParties <= 7
  BY DEF FewParties, SharingAssumption
<1>2. 0 \in Index /\ Parties \subseteq 0 .. 6
  BY <1>1 DEF Index, Parties
<1>3. IsFiniteSet(Parties)
  BY <1>1, FS_Interval DEF Parties
<1>4. \A s \in Shares : \A p \in Parties, i \in Index : s[p][i] \in Word
  BY DEF Shares
<1> QED
  BY <1>1, <1>2, <1>3, <1>4

(* The first shares of all parties have numbers.                           *)
LEMMA SharesHaveNumbers ==
    ASSUME FewParties, NEW enc, NEW i \in Places, NEW s \in Shares
    PROVE  \E a : Firsts(enc, i, s, a)
<1> DEFINE a == [p \in Parties |-> CHOOSE n : Num(enc, i, s[p][0], n)]
<1>1. \A p \in Parties : \E n : Num(enc, i, s[p][0], n)
  BY FewFacts, HasNumber
<1>2. \A p \in Parties : Num(enc, i, s[p][0], a[p])
  BY <1>1
<1> HIDE DEF a
<1> QED
  BY <1>2 DEF Firsts

(* Shares that are words reconstruct to a word.                            *)
LEMMA ReconstructIsWord ==
    ASSUME FewParties, NEW enc, NEW s \in Shares
    PROVE  Reconstruct(enc, s) \in Word
<1> DEFINE f == [p \in Parties |-> s[p][0]]
<1>1. \A p \in Parties : f[p] \in Word
  BY FewFacts
<1> HIDE DEF f
<1>2. SumOver(enc, Parties, f) \in Word
  BY <1>1, FewFacts, SumIsWord
<1> QED
  BY <1>2 DEF Reconstruct, f

(* Shares reconstruct to the total of the numbers of the first ones.       *)
LEMMA ReconstructNumber ==
    ASSUME FewParties, NEW enc, NEW i \in Places, NEW s \in Shares, NEW a, Firsts(enc, i, s, a)
    PROVE  Num(enc, i, Reconstruct(enc, s), Total(Parties, a))
<1> DEFINE f == [p \in Parties |-> s[p][0]]
<1>1. Nums(enc, i, Parties, f, a)
  BY FewFacts DEF Nums, Firsts
<1> HIDE DEF f
<1>2. Num(enc, i, SumOver(enc, Parties, f), Total(Parties, a))
  BY <1>1, FewFacts, SumNumber
<1> QED
  BY <1>2 DEF Reconstruct, f

(* Totals are linear.                                                      *)
LEMMA TotalsAdd ==
    ASSUME NEW T, NEW a, NEW b, NEW c,
           \A k \in T : a[k] \in Int /\ b[k] \in Int /\ c[k] = a[k] + b[k]
    PROVE  Total(T, a) \in Int /\ Total(T, b) \in Int /\ Total(T, c) = Total(T, a) + Total(T, b)
<1> DEFINE u(k) == Term(T, a, k)
           v(k) == Term(T, b, k)
           w(k) == Term(T, c, k)
<1>1. \A k \in 0 .. 6 : u(k) \in Int /\ v(k) \in Int /\ w(k) = u(k) + v(k)
  BY DEF Term
<1>2. Total(T, a) = u(0) + u(1) + u(2) + u(3) + u(4) + u(5) + u(6)
  BY DEF Total
<1>3. Total(T, b) = v(0) + v(1) + v(2) + v(3) + v(4) + v(5) + v(6)
  BY DEF Total
<1>4. Total(T, c) = w(0) + w(1) + w(2) + w(3) + w(4) + w(5) + w(6)
  BY DEF Total
<1> HIDE DEF u, v, w
<1> QED
  BY <1>1, <1>2, <1>3, <1>4

(* Share by share, a sum of vectors is shared, and a difference.           *)
LEMMA LocalReconstructs ==
    ASSUME FewParties, NEW enc, NEW s \in Shares, NEW t \in Shares, NEW u \in Shares
    PROVE  /\ (\A p \in Parties : u[p][0] = Add(enc, s[p][0], t[p][0]))
                  => Reconstruct(enc, u) = Add(enc, Reconstruct(enc, s), Reconstruct(enc, t))
           /\ (\A p \in Parties : u[p][0] = Sub(enc, s[p][0], t[p][0]))
                  => Reconstruct(enc, u) = Sub(enc, Reconstruct(enc, s), Reconstruct(enc, t))
<1> DEFINE rs == Reconstruct(enc, s)
           rt == Reconstruct(enc, t)
           ru == Reconstruct(enc, u)
<1>1. rs \in Word /\ rt \in Word /\ ru \in Word
  BY ReconstructIsWord
<1>2. Add(enc, rs, rt) \in Word /\ Sub(enc, rs, rt) \in Word
  BY <1>1, FewFacts, SharesClosed
<1>3. \A p \in Parties : s[p][0] \in Word /\ t[p][0] \in Word
  BY FewFacts
<1>4. BitsAssumption
  BY FewFacts
<1>5. ASSUME \A p \in Parties : u[p][0] = Add(enc, s[p][0], t[p][0])
      PROVE  ru = Add(enc, rs, rt)
  <2>1. ASSUME NEW i \in Places
        PROVE  \E n : Num(enc, i, ru, n) /\ Num(enc, i, Add(enc, rs, rt), n)
    <3>1. PICK a : Firsts(enc, i, s, a)
      BY SharesHaveNumbers
    <3>2. PICK b : Firsts(enc, i, t, b)
      BY SharesHaveNumbers
    <3> DEFINE c == [p \in Parties |-> a[p] + b[p]]
    <3>3. \A p \in Parties : a[p] \in Int /\ b[p] \in Int /\ c[p] = a[p] + b[p]
      BY <3>1, <3>2 DEF Firsts, Num
    <3>4. Firsts(enc, i, u, c)
      BY <1>3, <1>4, <1>5, <3>1, <3>2, NumbersCompute DEF Firsts
    <3> HIDE DEF c
    <3>5. Total(Parties, c) = Total(Parties, a) + Total(Parties, b)
      BY <3>3, TotalsAdd
    <3>6. Num(enc, i, rs, Total(Parties, a)) /\ Num(enc, i, rt, Total(Parties, b))
          /\ Num(enc, i, ru, Total(Parties, c))
      BY <3>1, <3>2, <3>4, ReconstructNumber
    <3> HIDE DEF rs, rt, ru
    <3>7. Num(enc, i, Add(enc, rs, rt), Total(Parties, a) + Total(Parties, b))
      BY <1>1, <1>4, <3>6, NumbersCompute
    <3> QED BY <3>5, <3>6, <3>7
  <2> HIDE DEF rs, rt, ru
  <2> QED BY <1>1, <1>2, <1>4, <2>1, SameNumbers
<1>6. ASSUME \A p \in Parties : u[p][0] = Sub(enc, s[p][0], t[p][0])
      PROVE  ru = Sub(enc, rs, rt)
  <2>1. ASSUME NEW i \in Places
        PROVE  \E n : Num(enc, i, ru, n) /\ Num(enc, i, Sub(enc, rs, rt), n)
    <3>1. PICK a : Firsts(enc, i, s, a)
      BY SharesHaveNumbers
    <3>2. PICK b : Firsts(enc, i, t, b)
      BY SharesHaveNumbers
    <3> DEFINE c == [p \in Parties |-> a[p] - b[p]]
    <3>3. \A p \in Parties : c[p] \in Int /\ b[p] \in Int /\ a[p] = c[p] + b[p]
      BY <3>1, <3>2 DEF Firsts, Num
    <3>4. Firsts(enc, i, u, c)
      BY <1>3, <1>4, <1>6, <3>1, <3>2, NumbersCompute DEF Firsts
    <3> HIDE DEF c
    <3>5. Total(Parties, c) \in Int /\ Total(Parties, b) \in Int
          /\ Total(Parties, a) = Total(Parties, c) + Total(Parties, b)
      BY <3>3, TotalsAdd
    <3>6. Num(enc, i, rs, Total(Parties, a)) /\ Num(enc, i, rt, Total(Parties, b))
          /\ Num(enc, i, ru, Total(Parties, c))
      BY <3>1, <3>2, <3>4, ReconstructNumber
    <3> HIDE DEF rs, rt, ru
    <3>7. Num(enc, i, Sub(enc, rs, rt), Total(Parties, a) - Total(Parties, b))
      BY <1>1, <1>4, <3>6, NumbersCompute
    <3>8. Total(Parties, c) = Total(Parties, a) - Total(Parties, b)
      BY <3>5
    <3> QED BY <3>6, <3>7, <3>8
  <2> HIDE DEF rs, rt, ru
  <2> QED BY <1>1, <1>2, <1>4, <2>1, SameNumbers
<1> QED
  BY <1>5, <1>6

(* The last bits of boolean shares share the last bit, the signs the sign. *)
LEMMA BitsReconstruct ==
    ASSUME FewParties, NEW s \in Shares, NEW u \in Shares
    PROVE  /\ (\A p \in Parties : u[p][0] = LSB(s[p][0]))
                  => Reconstruct("B", u) = LSB(Reconstruct("B", s))
           /\ (\A p \in Parties : u[p][0] = Sign(s[p][0]))
                  => Reconstruct("B", u) = Sign(Reconstruct("B", s))
<1> DEFINE rs == Reconstruct("B", s)
           ru == Reconstruct("B", u)
<1>1. rs \in Word /\ ru \in Word
  BY ReconstructIsWord
<1>2. BitsAssumption /\ \A p \in Parties : s[p][0] \in Word
  BY FewFacts
<1>3. LSB(rs) \in Word /\ Sign(rs) \in Word
  BY <1>1, <1>2, OnOneWord
<1>4. 0 \in Places /\ Bits - 1 \in Places
  BY <1>2 DEF Places, BitsAssumption
<1> DEFINE none == [p \in Parties |-> 0]
<1>5. \A p \in Parties : none[p] \in Int /\ none[p] = none[p] + none[p]
  OBVIOUS
<1> HIDE DEF none
<1>6. Total(Parties, none) = 0
  <2>1. /\ Total(Parties, none) \in Int
        /\ Total(Parties, none) = Total(Parties, none) + Total(Parties, none)
    BY <1>5, TotalsAdd
  <2> QED BY <2>1
<1>7. ASSUME \A p \in Parties : u[p][0] = LSB(s[p][0])
      PROVE  ru = LSB(rs)
  <2>1. PICK a : Firsts("B", 0, s, a)
    BY <1>4, SharesHaveNumbers
  <2>2. Num("B", 0, rs, Total(Parties, a))
    BY <1>4, <2>1, ReconstructNumber
  <2>3. ASSUME NEW i \in Places
        PROVE  \E n : Num("B", i, ru, n) /\ Num("B", i, LSB(rs), n)
    <3>1. Firsts("B", i, u, IF i = 0 THEN a ELSE none)
      BY <1>2, <1>7, <2>1, NumbersOfBits DEF Firsts, none
    <3>2. Num("B", i, ru, Total(Parties, IF i = 0 THEN a ELSE none))
      BY <3>1, ReconstructNumber
    <3> HIDE DEF rs, ru
    <3>3. Num("B", i, LSB(rs), IF i = 0 THEN Total(Parties, a) ELSE 0)
      BY <1>1, <1>2, <2>2, NumbersOfBits
    <3> QED BY <1>6, <3>2, <3>3
  <2> HIDE DEF rs, ru
  <2> QED BY <1>1, <1>2, <1>3, <2>3, SameNumbers
<1>8. ASSUME \A p \in Parties : u[p][0] = Sign(s[p][0])
      PROVE  ru = Sign(rs)
  <2>1. PICK a : Firsts("B", Bits - 1, s, a)
    BY <1>4, SharesHaveNumbers
  <2>2. Num("B", Bits - 1, rs, Total(Parties, a))
    BY <1>4, <2>1, ReconstructNumber
  <2>3. ASSUME NEW i \in Places
        PROVE  \E n : Num("B", i, ru, n) /\ Num("B", i, Sign(rs), n)
    <3>1. Firsts("B", i, u, IF i = 0 THEN a ELSE none)
      BY <1>2, <1>8, <2>1, NumbersOfBits DEF Firsts, none
    <3>2. Num("B", i, ru, Total(Parties, IF i = 0 THEN a ELSE none))
      BY <3>1, ReconstructNumber
    <3> HIDE DEF rs, ru
    <3>3. Num("B", i, Sign(rs), IF i = 0 THEN Total(Parties, a) ELSE 0)
      BY <1>1, <1>2, <2>2, NumbersOfBits
    <3> QED BY <1>6, <3>2, <3>3
  <2> HIDE DEF rs, ru
  <2> QED BY <1>1, <1>2, <1>3, <2>3, SameNumbers
<1> QED
  BY <1>7, <1>8

-----------------------------------------------------------------------------
(* The words of the abstract machine are those of the shares.              *)
LEMMA IdealWords ==
    /\ Ideal!Size = Size /\ Ideal!Word = Word /\ Ideal!Encodings = Encodings
    /\ \A enc, a, b : /\ Ideal!Add(enc, a, b) = Add(enc, a, b)
                      /\ Ideal!Sub(enc, a, b) = Sub(enc, a, b)
                      /\ Ideal!Mul(enc, a, b) = Mul(enc, a, b)
    /\ \A a, b : /\ Ideal!Plus(a, b) = Plus(a, b) /\ Ideal!Minus(a, b) = Minus(a, b)
                 /\ Ideal!Times(a, b) = Times(a, b)
    /\ \A a : /\ Ideal!Complement(a) = Complement(a) /\ Ideal!LSB(a) = LSB(a)
              /\ Ideal!Sign(a) = Sign(a) /\ Ideal!Signed(a) = Signed(a)
<1>1. Ideal!Size = Size /\ Ideal!Word = Word /\ Ideal!Encodings = Encodings
  BY DEF Ideal!Size, Size, Ideal!Word, Word, Ideal!Encodings, Encodings
<1>2. \A a, b : /\ Ideal!Plus(a, b) = Plus(a, b) /\ Ideal!Minus(a, b) = Minus(a, b)
                /\ Ideal!Times(a, b) = Times(a, b)
  BY <1>1 DEF Ideal!Plus, Plus, Ideal!Minus, Minus, Ideal!Times, Times
<1>3. \A a : /\ Ideal!Complement(a) = Complement(a) /\ Ideal!LSB(a) = LSB(a)
             /\ Ideal!Sign(a) = Sign(a) /\ Ideal!Signed(a) = Signed(a)
  BY <1>1 DEF Ideal!Complement, Complement, Ideal!LSB, LSB, Ideal!Sign, Sign, Ideal!Signed, Signed,
              Ideal!IsNegative, IsNegative
<1>4. Ideal!Places = Places
  BY DEF Ideal!Places, Places
<1>5. \A bits : Ideal!FromBits(bits) = FromBits(bits)
  BY DEF Ideal!FromBits, FromBits, Ideal!Places, Places, Ideal!MapThenSumSet, MapThenSumSet,
         Ideal!MapThenFoldSet, MapThenFoldSet
<1>6. \A a, i : Ideal!Bit(a, i) = Bit(a, i)
  BY DEF Ideal!Bit, Bit
<1>7. Ideal!XorTable = XorTable /\ Ideal!AndTable = AndTable
  BY <1>1, <1>4, <1>5, <1>6 DEF Ideal!XorTable, XorTable, Ideal!AndTable, AndTable
<1>8. \A a, b : Ideal!Xor(a, b) = Xor(a, b) /\ Ideal!And(a, b) = And(a, b)
  BY <1>7 DEF Ideal!Xor, Xor, Ideal!And, And
<1>9. \A enc, a, b : /\ Ideal!Add(enc, a, b) = Add(enc, a, b)
                     /\ Ideal!Sub(enc, a, b) = Sub(enc, a, b)
                     /\ Ideal!Mul(enc, a, b) = Mul(enc, a, b)
  BY <1>2, <1>8 DEF Ideal!Add, Add, Ideal!Sub, Sub, Ideal!Mul, Mul
<1> QED
  BY <1>1, <1>2, <1>3, <1>9

-----------------------------------------------------------------------------
(* What the abstract machine sees of a vector.                             *)
LEMMA PlaintextOf ==
    ASSUME NEW x \in Registers
    PROVE  /\ Plaintexts[x].enc = view[x].enc
           /\ view[x].enc # "none" => Plaintexts[x].word = Reconstruct(view[x].enc, view[x].sh)
           /\ view[x].enc # "none" => Plaintexts[x] # Ideal!NoVector
           /\ \A enc : Is(x, enc) <=> Ideal!Is(x, enc)
BY DEF Plaintexts, Plaintext, Is, Ideal!Is, Ideal!NoVector, Ideal!Vector

(* It sees the start, the call of a primitive, and the vectors that a      *)
(* primitive writes.                                                       *)
LEMMA StartIsIdeal ==
    ASSUME SharingInit, 0 \in Parties
    PROVE  Ideal!Init
<1>1. Plaintexts = [r \in Registers |-> Ideal!NoVector]
  BY DEF SharingInit, Plaintexts, Plaintext, Ideal!NoVector, Ideal!Vector
<1>2. Agreed = Ideal!NotOpened
  BY DEF SharingInit, Agreed, NotOpened, Ideal!NotOpened, Ideal!Size, Size
<1> QED
  BY <1>1, <1>2 DEF SharingInit, Ideal!Init

(* A vector written as shares is written as what they reconstruct to.      *)
LEMMA WriteIsIdeal ==
    ASSUME DOMAIN view = Registers, NEW r \in Registers, NEW enc \in Encodings, NEW s,
           Write(r, Vector(enc, s))
    PROVE  Ideal!Write(r, Ideal!Vector(enc, Reconstruct(enc, s)))
<1>1. view' = [view EXCEPT ![r] = Vector(enc, s)] /\ opened' = opened /\ enc # "none"
  BY DEF Write, Encodings
<1>2. Plaintexts' = [Plaintexts EXCEPT ![r] = Ideal!Vector(enc, Reconstruct(enc, s))]
  BY <1>1 DEF Plaintexts, Plaintext, Vector, Ideal!Vector
<1>3. Agreed' = Agreed
  BY <1>1 DEF Agreed
<1> QED
  BY <1>2, <1>3 DEF Ideal!Write

(* So are two vectors, the second over the first where they are the same.  *)
LEMMA WriteBothIsIdeal ==
    ASSUME DOMAIN view = Registers, NEW r1 \in Registers, NEW r2 \in Registers,
           NEW e1 \in Encodings, NEW s1, NEW e2 \in Encodings, NEW s2,
           WriteBoth(r1, Vector(e1, s1), r2, Vector(e2, s2))
    PROVE  Ideal!WriteBoth(r1, Ideal!Vector(e1, Reconstruct(e1, s1)),
                           r2, Ideal!Vector(e2, Reconstruct(e2, s2)))
<1>1. /\ view' = [view EXCEPT ![r1] = Vector(e1, s1), ![r2] = Vector(e2, s2)]
      /\ r1 # r2 /\ opened' = opened /\ e1 # "none" /\ e2 # "none"
  BY DEF WriteBoth, Encodings
<1>2. Plaintexts' = [Plaintexts EXCEPT ![r1] = Ideal!Vector(e1, Reconstruct(e1, s1)),
                                       ![r2] = Ideal!Vector(e2, Reconstruct(e2, s2))]
  BY <1>1 DEF Plaintexts, Plaintext, Vector, Ideal!Vector
<1>3. Agreed' = Agreed
  BY <1>1 DEF Agreed
<1> QED
  BY <1>1, <1>2, <1>3 DEF Ideal!WriteBoth

(* A call is counted and noted alike.                                      *)
LEMMA CallIsIdeal ==
    ASSUME NEW name, NEW args, Call(name, args)
    PROVE  Ideal!Call(name, args)
BY DEF Call, Ideal!Call

-----------------------------------------------------------------------------
(* The operations share by share compute on the plaintext.                 *)
LEMMA SharedStep ==
    ASSUME FewParties, Typed, NEW x \in Registers, NEW y \in Registers
    PROVE  /\ DOMAIN view = Registers /\ view[x].sh \in Shares /\ view[y].sh \in Shares
           /\ BitsAssumption
BY FewFacts DEF Typed, SharingTypeOK

-----------------------------------------------------------------------------
(* A primitive is one of the abstract machine if the shares it writes      *)
(* reconstruct to what the machine computes.                               *)
LEMMA BinaryIsIdeal ==
    ASSUME DOMAIN view = Registers, NEW x \in Registers, NEW y \in Registers, NEW z \in Registers,
           NEW enc \in Encodings, NEW s, Is(x, enc), Is(y, enc), Write(z, Vector(enc, s)),
           NEW a, a = Reconstruct(enc, view[x].sh), NEW b, b = Reconstruct(enc, view[y].sh),
           \/ Call("add", <<x, y, z, enc>>) /\ Reconstruct(enc, s) = Add(enc, a, b)
           \/ Call("sub", <<x, y, z, enc>>) /\ Reconstruct(enc, s) = Sub(enc, a, b)
           \/ Call("multiply", <<x, y, z, enc>>) /\ Reconstruct(enc, s) = Mul(enc, a, b)
    PROVE  Ideal!Elementwise(x, y, z)
<1>1. Ideal!Write(z, Ideal!Vector(enc, Reconstruct(enc, s)))
  BY WriteIsIdeal
<1>2. /\ Ideal!Is(x, enc) /\ Ideal!Is(y, enc)
      /\ Plaintexts[x].word = a /\ Plaintexts[y].word = b
  BY PlaintextOf DEF Is, Encodings
<1>3. CASE Call("add", <<x, y, z, enc>>) /\ Reconstruct(enc, s) = Add(enc, a, b)
  <2>1. Ideal!Call("add", <<x, y, z, enc>>) /\ Ideal!Add(enc, a, b) = Reconstruct(enc, s)
    BY <1>3, CallIsIdeal, IdealWords
  <2>2. Ideal!Binary("add", x, y, z, enc, Ideal!Add)
    BY <1>1, <1>2, <2>1 DEF Ideal!Binary
  <2> QED BY <2>2, IdealWords DEF Ideal!Elementwise
<1>4. CASE Call("sub", <<x, y, z, enc>>) /\ Reconstruct(enc, s) = Sub(enc, a, b)
  <2>1. Ideal!Call("sub", <<x, y, z, enc>>) /\ Ideal!Sub(enc, a, b) = Reconstruct(enc, s)
    BY <1>4, CallIsIdeal, IdealWords
  <2>2. Ideal!Binary("sub", x, y, z, enc, Ideal!Sub)
    BY <1>1, <1>2, <2>1 DEF Ideal!Binary
  <2> QED BY <2>2, IdealWords DEF Ideal!Elementwise
<1>5. CASE Call("multiply", <<x, y, z, enc>>) /\ Reconstruct(enc, s) = Mul(enc, a, b)
  <2>1. Ideal!Call("multiply", <<x, y, z, enc>>) /\ Ideal!Mul(enc, a, b) = Reconstruct(enc, s)
    BY <1>5, CallIsIdeal, IdealWords
  <2>2. Ideal!Binary("multiply", x, y, z, enc, Ideal!Mul)
    BY <1>1, <1>2, <2>1 DEF Ideal!Binary
  <2> QED BY <2>2, IdealWords DEF Ideal!Elementwise
<1> QED
  BY <1>3, <1>4, <1>5

(* A primitive of one operand is the ideal one if the result reconstructs  *)
(* to what that computes.                                                  *)
LEMMA UnaryIsIdeal ==
    ASSUME DOMAIN view = Registers, NEW x \in Registers, NEW z \in Registers,
           NEW enc \in Encodings, NEW s, Is(x, "B"), Write(z, Vector(enc, s)),
           NEW w, w = Reconstruct("B", view[x].sh),
           \/ enc = "B" /\ Call("not", <<x, z>>) /\ Reconstruct("B", s) = Complement(w)
           \/ enc = "B" /\ Call("not_1", <<x, z>>) /\ Reconstruct("B", s) = 1 - LSB(w)
           \/ enc = "B" /\ Call("mask", <<x, z>>) /\ Reconstruct("B", s) = LSB(w)
           \/ enc = "B" /\ Call("ltz", <<x, z>>) /\ Reconstruct("B", s) = Sign(w)
           \/ enc = "A" /\ Call("b2a_bit", <<x, z>>) /\ Reconstruct("A", s) = LSB(w)
    PROVE  Ideal!Elementwise(x, x, z)
<1>1. Ideal!Write(z, Ideal!Vector(enc, Reconstruct(enc, s)))
  BY WriteIsIdeal
<1>2. Ideal!Is(x, "B") /\ Plaintexts[x].word = w
  BY PlaintextOf DEF Is, Encodings
<1>3. /\ Ideal!Complement(w) = Complement(w) /\ Ideal!LSB(w) = LSB(w) /\ Ideal!Sign(w) = Sign(w)
      /\ Ideal!Flipped(w) = 1 - LSB(w)
  BY IdealWords DEF Ideal!Flipped
<1>4. CASE enc = "B" /\ Call("not", <<x, z>>) /\ Reconstruct("B", s) = Complement(w)
  <2>1. Ideal!Unary("not", x, z, "B", Ideal!Complement)
    BY <1>1, <1>2, <1>3, <1>4, CallIsIdeal DEF Ideal!Unary
  <2> QED BY <2>1 DEF Ideal!Elementwise
<1>5. CASE enc = "B" /\ Call("not_1", <<x, z>>) /\ Reconstruct("B", s) = 1 - LSB(w)
  <2>1. Ideal!Unary("not_1", x, z, "B", Ideal!Flipped)
    BY <1>1, <1>2, <1>3, <1>5, CallIsIdeal DEF Ideal!Unary
  <2> QED BY <2>1 DEF Ideal!Elementwise
<1>6. CASE enc = "B" /\ Call("mask", <<x, z>>) /\ Reconstruct("B", s) = LSB(w)
  <2>1. Ideal!Unary("mask", x, z, "B", Ideal!LSB)
    BY <1>1, <1>2, <1>3, <1>6, CallIsIdeal DEF Ideal!Unary
  <2> QED BY <2>1 DEF Ideal!Elementwise
<1>7. CASE enc = "B" /\ Call("ltz", <<x, z>>) /\ Reconstruct("B", s) = Sign(w)
  <2>1. Ideal!Unary("ltz", x, z, "B", Ideal!Sign)
    BY <1>1, <1>2, <1>3, <1>7, CallIsIdeal DEF Ideal!Unary
  <2> QED BY <2>1 DEF Ideal!Elementwise
<1>8. CASE enc = "A" /\ Call("b2a_bit", <<x, z>>) /\ Reconstruct("A", s) = LSB(w)
  <2>1. Ideal!Unary("b2a_bit", x, z, "A", Ideal!LSB)
    BY <1>1, <1>2, <1>3, <1>8, CallIsIdeal DEF Ideal!Unary
  <2> QED BY <2>1 DEF Ideal!Elementwise
<1> QED
  BY <1>4, <1>5, <1>6, <1>7, <1>8

(* An input is the ideal one if its shares reconstruct to it.              *)
LEMMA ShareIsIdeal ==
    ASSUME DOMAIN view = Registers, NEW r \in Registers, NEW enc \in Encodings, NEW w, NEW s,
           Call("share", <<r, enc, w>>), Write(r, Vector(enc, s)), Reconstruct(enc, s) = w
    PROVE  Ideal!Share(r, enc, w)
<1>1. Ideal!Write(r, Ideal!Vector(enc, Reconstruct(enc, s)))
  BY WriteIsIdeal
<1>2. Ideal!Call("share", <<r, enc, w>>)
  BY CallIsIdeal
<1> QED
  BY <1>1, <1>2 DEF Ideal!Share

(* A redistribution is the ideal one if its two results add up to the      *)
(* operand.                                                                *)
LEMMA RedistributeIsIdeal ==
    ASSUME DOMAIN view = Registers, NEW x \in Registers, NEW z1 \in Registers, NEW z2 \in Registers,
           Is(x, "A"), Call("redistribute", <<x, z1, z2>>), NEW s1, NEW s2,
           WriteBoth(z1, Vector("B", s1), z2, Vector("B", s2)), Reconstruct("B", s1) \in Word,
           Reconstruct("B", s2) = Minus(Reconstruct("A", view[x].sh), Reconstruct("B", s1))
    PROVE  Ideal!Redistribute(x, z1, z2)
<1> DEFINE w == Reconstruct("B", s1)
           v == Reconstruct("B", s2)
<1>1. Ideal!WriteBoth(z1, Ideal!Vector("B", w), z2, Ideal!Vector("B", v))
  BY WriteBothIsIdeal DEF Encodings
<1>2. Ideal!Is(x, "A") /\ Plaintexts[x].word = Reconstruct("A", view[x].sh)
  BY PlaintextOf DEF Is
<1>3. w \in Ideal!Word /\ v = Ideal!Minus(Plaintexts[x].word, w)
  BY <1>2, IdealWords
<1>4. Ideal!Call("redistribute", <<x, z1, z2>>)
  BY CallIsIdeal
<1> HIDE DEF w, v
<1> QED
  BY <1>1, <1>2, <1>3, <1>4 DEF Ideal!Redistribute

(* A division is the ideal one if quotient and error add up and the error  *)
(* is within a divisor.                                                    *)
LEMMA DivConstIsIdeal ==
    ASSUME DOMAIN view = Registers, NEW x \in Registers, NEW z \in Registers, NEW e \in Registers,
           Is(x, "A"), Call("div", <<x, z, e>>), NEW s1, NEW s2,
           WriteBoth(z, Vector("A", s1), e, Vector("A", s2)),
           NEW q \in Word, q = Reconstruct("A", s1), NEW r \in Word, r = Reconstruct("A", s2),
           Signed(r) \in -Divisor .. Divisor,
           Plus(Times(Divisor, Plus(q, 1)), r) = Reconstruct("A", view[x].sh)
    PROVE  Ideal!DivConst(x, z, e)
<1>1. Ideal!WriteBoth(z, Ideal!Vector("A", q), e, Ideal!Vector("A", r))
  BY WriteBothIsIdeal DEF Encodings
<1>2. Ideal!Is(x, "A") /\ Plaintexts[x].word = Reconstruct("A", view[x].sh)
  BY PlaintextOf DEF Is
<1>3. /\ q \in Ideal!Word /\ r \in Ideal!Word /\ Ideal!Signed(r) \in -Divisor .. Divisor
      /\ Ideal!Plus(Ideal!Times(Divisor, Ideal!Plus(q, 1)), r) = Plaintexts[x].word
  BY <1>2, IdealWords
<1>4. Ideal!Call("div", <<x, z, e>>)
  BY CallIsIdeal
<1> QED
  BY <1>1, <1>2, <1>3, <1>4 DEF Ideal!DivConst

(* An opening is the ideal one if every party reconstructs the plaintext.  *)
LEMMA OpenIsIdeal ==
    ASSUME 0 \in Parties, NEW x \in Registers, view[x].enc # "none", Call("open", <<x>>), UNCHANGED view,
           \A p \in Parties : opened'[p] = Reconstruct(view[x].enc, view[x].sh)
    PROVE  Ideal!Open(x)
<1>1. Agreed' = Reconstruct(view[x].enc, view[x].sh)
  BY DEF Agreed
<1>2. Plaintexts' = Plaintexts
  BY DEF Plaintexts, Plaintext
<1>3. Plaintexts[x].word = Reconstruct(view[x].enc, view[x].sh) /\ Plaintexts[x] # Ideal!NoVector
  BY PlaintextOf
<1>4. Ideal!Call("open", <<x>>)
  BY CallIsIdeal
<1> QED
  BY <1>1, <1>2, <1>3, <1>4 DEF Ideal!Open

(* A resharing is the ideal one if the plaintext stays.                    *)
LEMMA ReshareIsIdeal ==
    ASSUME DOMAIN view = Registers, NEW x \in Registers, NEW s, view[x].enc \in Encodings,
           Call("reshare", <<x>>), Write(x, Vector(view[x].enc, s)),
           Reconstruct(view[x].enc, s) = Reconstruct(view[x].enc, view[x].sh)
    PROVE  Ideal!Reshare(x)
<1> DEFINE w == Reconstruct(view[x].enc, s)
           enc == view[x].enc
<1>1. Ideal!Write(x, Ideal!Vector(enc, w))
  BY WriteIsIdeal
<1>2. enc # "none"
  BY DEF Encodings
<1>3. Plaintexts[x] = Ideal!Vector(enc, w) /\ Plaintexts[x] # Ideal!NoVector
  BY <1>2 DEF Plaintexts, Plaintext, Ideal!Vector, Ideal!NoVector
<1> HIDE DEF w, enc
<1>4. Plaintexts' = Plaintexts /\ Agreed' = Agreed
  <2>1. Plaintexts' = [Plaintexts EXCEPT ![x] = Ideal!Vector(enc, w)] /\ Agreed' = Agreed
    BY <1>1 DEF Ideal!Write
  <2>2. DOMAIN Plaintexts = Registers /\ Plaintexts = [r \in Registers |-> Plaintexts[r]]
    BY DEF Plaintexts
  <2> QED BY <1>3, <2>1, <2>2
<1>5. Ideal!Call("reshare", <<x>>)
  BY CallIsIdeal
<1> QED
  BY <1>3, <1>4, <1>5 DEF Ideal!Reshare

-----------------------------------------------------------------------------
(* The operations share by share.                                          *)
LEMMA LocalIsIdeal ==
    ASSUME FewParties, Typed, NEW x \in Registers, NEW y \in Registers, NEW z \in Registers,
           NEW enc \in Encodings, AddUp(x, y, z, enc) \/ Subtract(x, y, z, enc)
    PROVE  Ideal!Elementwise(x, y, z)
<1> DEFINE sum == Local(LAMBDA a, b : Add(enc, a, b), view[x].sh, view[y].sh)
           difference == Local(LAMBDA a, b : Sub(enc, a, b), view[x].sh, view[y].sh)
<1>1. DOMAIN view = Registers /\ view[x].sh \in Shares /\ view[y].sh \in Shares /\ BitsAssumption
  BY SharedStep
<1>2. /\ \A p \in Parties, i \in Index : sum[p][i] = Add(enc, view[x].sh[p][i], view[y].sh[p][i])
      /\ \A p \in Parties, i \in Index :
             difference[p][i] = Sub(enc, view[x].sh[p][i], view[y].sh[p][i])
  BY DEF Local
<1>3. sum \in Shares /\ difference \in Shares
  <2>1. \A a, b \in Word : Add(enc, a, b) \in Word /\ Sub(enc, a, b) \in Word
    BY <1>1, SharesClosed
  <2> QED BY <1>1, <2>1 DEF Local, Shares
<1>4. /\ Is(x, enc) /\ Is(y, enc)
      /\ \/ Call("add", <<x, y, z, enc>>) /\ Write(z, Vector(enc, sum))
         \/ Call("sub", <<x, y, z, enc>>) /\ Write(z, Vector(enc, difference))
  BY DEF AddUp, Subtract
<1> HIDE DEF sum, difference
<1> DEFINE a == Reconstruct(enc, view[x].sh)
           b == Reconstruct(enc, view[y].sh)
<1>5. Reconstruct(enc, sum) = Add(enc, a, b) /\ Reconstruct(enc, difference) = Sub(enc, a, b)
  BY <1>1, <1>2, <1>3, FewFacts, LocalReconstructs
<1>6. a = Reconstruct(enc, view[x].sh) /\ b = Reconstruct(enc, view[y].sh)
  OBVIOUS
<1> HIDE DEF a, b
<1> QED
  BY <1>1, <1>4, <1>5, <1>6, BinaryIsIdeal

(* The mask of the last bit and the shift of the sign, done share by       *)
(* share, are those of the plaintext.                                      *)
LEMMA BitsAreIdeal ==
    ASSUME FewParties, Typed, NEW x \in Registers, NEW z \in Registers, Mask(x, z) \/ LTZ(x, z)
    PROVE  Ideal!Elementwise(x, x, z)
<1> DEFINE last == Masked(view[x].sh)
           sign == [p \in Parties |-> [i \in Index |-> Sign(view[x].sh[p][i])]]
<1>1. DOMAIN view = Registers /\ view[x].sh \in Shares /\ BitsAssumption
  BY SharedStep
<1>2. /\ \A p \in Parties, i \in Index : last[p][i] = LSB(view[x].sh[p][i])
      /\ \A p \in Parties, i \in Index : sign[p][i] = Sign(view[x].sh[p][i])
  BY DEF Masked
<1>3. last \in Shares /\ sign \in Shares
  <2>1. \A a \in Word : LSB(a) \in Word /\ Sign(a) \in Word
    BY <1>1, OnOneWord
  <2> QED BY <1>1, <2>1 DEF Masked, Shares
<1>4. /\ Is(x, "B")
      /\ \/ Call("mask", <<x, z>>) /\ Write(z, Vector("B", last))
         \/ Call("ltz", <<x, z>>) /\ Write(z, Vector("B", sign))
  BY DEF Mask, LTZ
<1> HIDE DEF last, sign
<1> DEFINE w == Reconstruct("B", view[x].sh)
<1>5. Reconstruct("B", last) = LSB(w) /\ Reconstruct("B", sign) = Sign(w)
  BY <1>1, <1>2, <1>3, FewFacts, BitsReconstruct
<1>6. w = Reconstruct("B", view[x].sh) /\ "B" \in Encodings
  BY DEF Encodings
<1> HIDE DEF w
<1> QED
  BY <1>1, <1>4, <1>5, <1>6, UnaryIsIdeal

-----------------------------------------------------------------------------
(* The owner's words and the share it computes add up to what it shares,   *)
(* whichever party gets which.                                             *)
TwoToFour == SharingAssumption /\ NumParties \in {2, 3, 4}

(* Two to four parties are few.                                            *)
LEMMA TwoToFourAreFew == TwoToFour => FewParties
BY DEF TwoToFour, FewParties

(* A sum over the first numbers, and one that goes around.                 *)
LEMMA TotalOfFew ==
    ASSUME NEW a
    PROVE  /\ a[0] \in Int => Total(0 .. 0, a) = a[0]
           /\ (\A k \in 0 .. 1 : a[k] \in Int) => Total(0 .. 1, a) = a[0] + a[1]
           /\ (\A k \in 0 .. 2 : a[k] \in Int) => Total(0 .. 2, a) = a[0] + a[1] + a[2]
           /\ (\A k \in 0 .. 3 : a[k] \in Int) => Total(0 .. 3, a) = a[0] + a[1] + a[2] + a[3]
BY DEF Total, Term

(* A total does not depend on which party is counted first.                *)
LEMMA TotalAround ==
    ASSUME TwoToFour, NEW t \in Parties, NEW e, \A k \in Parties : e[k] \in Int,
           NEW a, \A p \in Parties : a[p] = e[(p + t) % NumParties]
    PROVE  Total(Parties, a) = Total(Parties, e)
<1>1. CASE NumParties = 3
  <2>1. Parties = 0 .. 2
    BY <1>1 DEF Parties
  <2>2. \A k \in 0 .. 2 : \A s \in 0 .. 2 : (k + s) % 3 = IF k + s < 3 THEN k + s ELSE k + s - 3
    BY Mod3
  <2>3. \A k \in 0 .. 2 : a[k] \in Int
    BY <1>1, <2>1, <2>2
  <2>4. a[0] + a[1] + a[2] = e[0] + e[1] + e[2]
    <3>1. a[0] = e[(0 + t) % 3] /\ a[1] = e[(1 + t) % 3] /\ a[2] = e[(2 + t) % 3]
      BY <1>1, <2>1
    <3>2. CASE t = 0
      BY <2>1, <2>2, <3>1, <3>2
    <3>3. CASE t = 1
      BY <2>1, <2>2, <3>1, <3>3
    <3>4. CASE t = 2
      BY <2>1, <2>2, <3>1, <3>4
    <3> QED BY <2>1, <3>2, <3>3, <3>4
  <2> QED BY <2>1, <2>3, <2>4, TotalOfFew
<1>2. CASE NumParties = 4
  <2>1. Parties = 0 .. 3
    BY <1>2 DEF Parties
  <2>2. \A k \in 0 .. 3 : \A s \in 0 .. 3 : (k + s) % 4 = IF k + s < 4 THEN k + s ELSE k + s - 4
    BY Mod4
  <2>3. \A k \in 0 .. 3 : a[k] \in Int
    BY <1>2, <2>1, <2>2
  <2>4. a[0] + a[1] + a[2] + a[3] = e[0] + e[1] + e[2] + e[3]
    <3>1. /\ a[0] = e[(0 + t) % 4] /\ a[1] = e[(1 + t) % 4]
          /\ a[2] = e[(2 + t) % 4] /\ a[3] = e[(3 + t) % 4]
      BY <1>2, <2>1
    <3>2. CASE t = 0
      BY <2>1, <2>2, <3>1, <3>2
    <3>3. CASE t = 1
      BY <2>1, <2>2, <3>1, <3>3
    <3>4. CASE t = 2
      BY <2>1, <2>2, <3>1, <3>4
    <3>5. CASE t = 3
      BY <2>1, <2>2, <3>1, <3>5
    <3> QED BY <2>1, <3>2, <3>3, <3>4, <3>5
  <2> QED BY <2>1, <2>3, <2>4, TotalOfFew
<1>3. CASE NumParties = 2
  <2>1. Parties = 0 .. 1
    BY <1>3 DEF Parties
  <2>2. \A k \in 0 .. 1 : \A m \in 0 .. 1 : (k + m) % 2 = IF k + m < 2 THEN k + m ELSE k + m - 2
    BY Mod2
  <2>3. \A k \in 0 .. 1 : a[k] \in Int
    BY <1>3, <2>1, <2>2
  <2>4. a[0] + a[1] = e[0] + e[1]
    <3>1. a[0] = e[(0 + t) % 2] /\ a[1] = e[(1 + t) % 2]
      BY <1>3, <2>1
    <3>2. CASE t = 0
      BY <2>1, <2>2, <3>1, <3>2
    <3>3. CASE t = 1
      BY <2>1, <2>2, <3>1, <3>3
    <3> QED BY <2>1, <3>2, <3>3
  <2> QED BY <2>1, <2>3, <2>4, TotalOfFew
<1> QED
  BY <1>1, <1>2, <1>3 DEF TwoToFour

(* The words before the last party's, and the last one's.                  *)
LEMMA TotalWithLast ==
    ASSUME TwoToFour, NEW d, \A k \in 0 .. NumParties - 2 : d[k] \in Int, NEW c \in Int,
           NEW e, \A k \in Parties :
               e[k] = IF k < NumParties - 1 THEN d[k] ELSE c - Total(0 .. NumParties - 2, d)
    PROVE  /\ \A k \in Parties : e[k] \in Int
           /\ Total(0 .. NumParties - 2, d) \in Int /\ Total(Parties, e) = c
<1>1. CASE NumParties = 3
  <2>1. Parties = 0 .. 2 /\ 0 .. NumParties - 2 = 0 .. 1
    BY <1>1 DEF Parties
  <2>2. Total(0 .. 1, d) = d[0] + d[1] /\ Total(0 .. 1, d) \in Int
    BY <2>1, TotalOfFew
  <2>3. e[0] = d[0] /\ e[1] = d[1] /\ e[2] = c - Total(0 .. 1, d)
    BY <1>1, <2>1
  <2>4. \A k \in 0 .. 2 : e[k] \in Int
    BY <2>1, <2>2, <2>3
  <2>5. Total(0 .. 2, e) = e[0] + e[1] + e[2]
    BY <2>4, TotalOfFew
  <2>6. e[0] + e[1] + e[2] = c
    BY <2>1, <2>2, <2>3
  <2>7. Total(Parties, e) = c /\ Total(0 .. NumParties - 2, d) \in Int
    BY <2>1, <2>2, <2>5, <2>6
  <2> QED BY <2>1, <2>4, <2>7
<1>2. CASE NumParties = 4
  <2>1. Parties = 0 .. 3 /\ 0 .. NumParties - 2 = 0 .. 2
    BY <1>2 DEF Parties
  <2>2. Total(0 .. 2, d) = d[0] + d[1] + d[2] /\ Total(0 .. 2, d) \in Int
    BY <2>1, TotalOfFew
  <2>3. e[0] = d[0] /\ e[1] = d[1] /\ e[2] = d[2] /\ e[3] = c - Total(0 .. 2, d)
    BY <1>2, <2>1
  <2>4. \A k \in 0 .. 3 : e[k] \in Int
    BY <2>1, <2>2, <2>3
  <2>5. Total(0 .. 3, e) = e[0] + e[1] + e[2] + e[3]
    BY <2>4, TotalOfFew
  <2>6. e[0] + e[1] + e[2] + e[3] = c
    BY <2>1, <2>2, <2>3
  <2>7. Total(Parties, e) = c /\ Total(0 .. NumParties - 2, d) \in Int
    BY <2>1, <2>2, <2>5, <2>6
  <2> QED BY <2>1, <2>4, <2>7
<1>3. CASE NumParties = 2
  <2>1. Parties = 0 .. 1 /\ 0 .. NumParties - 2 = 0 .. 0
    BY <1>3 DEF Parties
  <2>2. Total(0 .. 0, d) = d[0] /\ Total(0 .. 0, d) \in Int
    BY <2>1, TotalOfFew
  <2>3. e[0] = d[0] /\ e[1] = c - Total(0 .. 0, d)
    BY <1>3, <2>1
  <2>4. \A k \in 0 .. 1 : e[k] \in Int
    BY <2>1, <2>2, <2>3
  <2>5. Total(0 .. 1, e) = e[0] + e[1]
    BY <2>4, TotalOfFew
  <2>6. e[0] + e[1] = c
    BY <2>1, <2>2, <2>3
  <2>7. Total(Parties, e) = c /\ Total(0 .. NumParties - 2, d) \in Int
    BY <2>1, <2>2, <2>5, <2>6
  <2> QED BY <2>1, <2>4, <2>7
<1> QED
  BY <1>1, <1>2, <1>3 DEF TwoToFour

Completed(enc, w, drawn) ==
    [k \in Parties |-> IF k < NumParties - 1 THEN drawn[k]
                       ELSE Sub(enc, w, SumOver(enc, 0 .. NumParties - 2, drawn))]

AddsUpTo(enc, i, f, c) ==
    \E e : /\ \A k \in Parties : Num(enc, i, f[k], e[k]) /\ e[k] \in Int
           /\ Total(Parties, e) = c

(* Words drawn and one that completes them add up to the word they share.  *)
LEMMA CompletedAddsUp ==
    ASSUME TwoToFour, NEW enc, NEW w \in Word,
           NEW drawn, \A k \in 0 .. NumParties - 2 : drawn[k] \in Word
    PROVE  /\ \A k \in Parties : Completed(enc, w, drawn)[k] \in Word
           /\ \A i \in Places : \A c : Num(enc, i, w, c) =>
                  AddsUpTo(enc, i, Completed(enc, w, drawn), c)
<1> DEFINE S == 0 .. NumParties - 2
           sum == SumOver(enc, S, drawn)
           all == Completed(enc, w, drawn)
<1>1. /\ BitsAssumption /\ S \subseteq 0 .. 6 /\ IsFiniteSet(S) /\ NumParties \in Nat
      /\ \A k \in Parties : k < NumParties - 1 => k \in S
  <2>1. NumParties \in {2, 3, 4} /\ NumParties - 2 \in Int
    BY DEF TwoToFour
  <2>2. BitsAssumption
    BY TwoToFourAreFew, FewFacts
  <2>3. IsFiniteSet(S)
    BY <2>1, FS_Interval
  <2>4. S \subseteq 0 .. 6 /\ \A k \in Parties : k < NumParties - 1 => k \in S
    BY <2>1 DEF Parties
  <2> QED BY <2>1, <2>2, <2>3, <2>4
<1>2. \A k \in S : drawn[k] \in Word
  OBVIOUS
<1>3. sum \in Word
  <2> HIDE DEF S
  <2> QED BY <1>1, <1>2, SumIsWord
<1>4. \A k \in Parties : all[k] = IF k < NumParties - 1 THEN drawn[k] ELSE Sub(enc, w, sum)
  BY DEF Completed
<1> HIDE DEF sum, all, S
<1>5. Sub(enc, w, sum) \in Word
  BY <1>1, <1>3, SharesClosed
<1>6. \A k \in Parties : all[k] \in Word
  BY <1>1, <1>2, <1>4, <1>5
<1>7. ASSUME NEW i \in Places, NEW c, Num(enc, i, w, c)
      PROVE  AddsUpTo(enc, i, all, c)
  <2> DEFINE d == [k \in S |-> CHOOSE n : Num(enc, i, drawn[k], n)]
             e == [k \in Parties |-> IF k < NumParties - 1 THEN d[k] ELSE c - Total(S, d)]
  <2>1. \A k \in S : \E n : Num(enc, i, drawn[k], n)
    BY <1>1, <1>2, HasNumber
  <2>2. \A k \in S : Num(enc, i, drawn[k], d[k])
    BY <2>1
  <2> HIDE DEF d
  <2>3. Nums(enc, i, S, drawn, d)
    BY <1>2, <2>2 DEF Nums
  <2>4. Num(enc, i, sum, Total(S, d))
    BY <1>1, <2>3, SumNumber DEF sum
  <2>5. Num(enc, i, Sub(enc, w, sum), c - Total(S, d))
    BY <1>1, <1>3, <1>7, <2>4, NumbersCompute
  <2>6. \A k \in Parties : Num(enc, i, all[k], e[k])
    BY <1>1, <1>4, <2>2, <2>5
  <2>7. (\A k \in S : d[k] \in Int) /\ c \in Int
    BY <1>7, <2>2 DEF Num
  <2>8. \A k \in Parties : e[k] = IF k < NumParties - 1 THEN d[k] ELSE c - Total(S, d)
    OBVIOUS
  <2> HIDE DEF e
  <2>9. (\A k \in Parties : e[k] \in Int) /\ Total(Parties, e) = c
    BY <2>7, <2>8, TotalWithLast DEF S
  <2> QED BY <2>6, <2>9 DEF AddsUpTo
<1> QED
  BY <1>6, <1>7 DEF all

(* The shares that an owner deals are a word's.                            *)
LEMMA DealtReconstructs ==
    ASSUME TwoToFour, WordsDrawn, Typed, NEW enc, NEW w \in Word,
           NEW owner \in Parties, NEW first \in {0, 1}
    PROVE  Reconstruct(enc, Dealt(enc, w, owner, first)) = w
<1> DEFINE drawn == [k \in 0 .. NumParties - 2 |-> Draw(owner, {owner}, k)]
           number(p, i) == (((p - owner) % NumParties) + i + first) % NumParties
           s == Dealt(enc, w, owner, first)
           all == Completed(enc, w, drawn)
           t == (first - owner) % NumParties
<1>1. SharingAssumption /\ FewParties /\ BitsAssumption /\ {owner} \in Groups /\ 0 \in Index
  BY TwoToFourAreFew, FewFacts DEF TwoToFour, SharingAssumption
<1>2. \A k \in 0 .. NumParties - 2 : drawn[k] \in Word
  <2>1. \A k \in 0 .. NumParties - 2 : k \in Nat
    OBVIOUS
  <2> QED BY <1>1, <2>1, DrawIsWord
<1>3. t \in Parties /\ \A p \in Parties : number(p, 0) = (p + t) % NumParties /\ number(p, 0) \in Parties
  <2>1. CASE NumParties = 3
    <3>1. Parties = 0 .. 2
      BY <2>1 DEF Parties
    <3> DEFINE m(a) == a % 3
    <3>2. \A a \in -5 .. 5 : m(a) = IF a < 0 - 3 THEN a + 6 ELSE IF a < 0 THEN a + 3 ELSE IF a < 3 THEN a ELSE a - 3
      OBVIOUS
    <3>3. \A a \in -5 .. 5 : a % NumParties = m(a)
      BY <2>1
    <3> HIDE DEF m
    <3> QED BY <3>1, <3>2, <3>3
  <2>2. CASE NumParties = 4
    <3>1. Parties = 0 .. 3
      BY <2>2 DEF Parties
    <3> DEFINE m(a) == a % 4
    <3>2. \A a \in -7 .. 7 : m(a) = IF a < 0 - 4 THEN a + 8 ELSE IF a < 0 THEN a + 4 ELSE IF a < 4 THEN a ELSE a - 4
      OBVIOUS
    <3>3. \A a \in -7 .. 7 : a % NumParties = m(a)
      BY <2>2
    <3> HIDE DEF m
    <3> QED BY <3>1, <3>2, <3>3
  <2>3. CASE NumParties = 2
    <3>1. Parties = 0 .. 1
      BY <2>3 DEF Parties
    <3> DEFINE m(a) == a % 2
    <3>2. \A a \in -3 .. 3 : m(a) = IF a < 0 - 2 THEN a + 4 ELSE IF a < 0 THEN a + 2 ELSE IF a < 2 THEN a ELSE a - 2
      OBVIOUS
    <3>3. \A a \in -3 .. 3 : a % NumParties = m(a)
      BY <2>3
    <3> HIDE DEF m
    <3> QED BY <3>1, <3>2, <3>3
  <2> QED BY <2>1, <2>2, <2>3 DEF TwoToFour
<1>4. s \in Shares
  BY <1>1, DealtTyped
<1>5. \A p \in Parties : s[p][0] = all[number(p, 0)]
  <2>1. NumParties - 1 \in Int /\ (NumParties - 1) - 1 = NumParties - 2
    BY DEF TwoToFour
  <2> DEFINE last == NumParties - 1
             drew == [k \in 0 .. last - 1 |-> Draw(owner, {owner}, k)]
             share(k) == IF k < last THEN drew[k] ELSE Sub(enc, w, SumOver(enc, 0 .. last - 1, drew))
  <2>2. drew = drawn /\ 0 .. last - 1 = 0 .. NumParties - 2
    BY <2>1
  <2>3. \A p \in Parties : s[p][0] = share(number(p, 0))
    BY <1>1 DEF Dealt
  <2> HIDE DEF drew, drawn
  <2>4. \A k \in Parties : share(k) = all[k]
    BY <2>2 DEF Completed
  <2> HIDE DEF share, all, number, s
  <2> QED BY <1>3, <2>3, <2>4
<1> HIDE DEF drawn
<1>6. /\ \A k \in Parties : all[k] \in Word
      /\ \A i \in Places : \A c : Num(enc, i, w, c) =>
             AddsUpTo(enc, i, all, c)
  BY <1>2, CompletedAddsUp
<1>7. Reconstruct(enc, s) \in Word
  BY <1>1, <1>4, ReconstructIsWord
<1> HIDE DEF all, s
<1>8. ASSUME NEW i \in Places
      PROVE  \E n : Num(enc, i, Reconstruct(enc, s), n) /\ Num(enc, i, w, n)
  <2>1. PICK c : Num(enc, i, w, c)
    BY <1>1, HasNumber
  <2>2. PICK e : /\ \A k \in Parties : Num(enc, i, all[k], e[k]) /\ e[k] \in Int
                 /\ Total(Parties, e) = c
    BY <1>6, <2>1 DEF AddsUpTo
  <2> DEFINE a == [p \in Parties |-> e[number(p, 0)]]
  <2>3. \A p \in Parties : a[p] = e[(p + t) % NumParties] /\ Num(enc, i, s[p][0], a[p])
    <3> HIDE DEF number, t
    <3> QED BY <1>3, <1>5, <2>2
  <2> HIDE DEF a, number
  <2>4. Total(Parties, a) = c
    <3>1. t \in Parties
      BY <1>3
    <3> HIDE DEF t
    <3> QED BY <2>2, <2>3, <3>1, TotalAround
  <2>5. Firsts(enc, i, s, a)
    BY <2>3 DEF Firsts
  <2>6. Num(enc, i, Reconstruct(enc, s), c)
    BY <1>1, <1>4, <2>4, <2>5, ReconstructNumber
  <2> QED BY <2>1, <2>6
<1>9. Reconstruct(enc, s) = w
  BY <1>1, <1>7, <1>8, SameNumbers
<1> QED
  BY <1>9 DEF s

(* What an owner deals out to two to four parties reconstructs to its      *)
(* input.                                                                  *)
LEMMA SecretShareIsIdeal ==
    ASSUME TwoToFour, WordsDrawn, Typed, NEW r \in Registers, NEW enc \in Encodings,
           NEW w \in Inputs, NEW owner \in Parties, NEW first \in {0, 1},
           SecretShare(r, enc, w, owner, first)
    PROVE  Ideal!Share(r, enc, w)
<1> DEFINE s == Dealt(enc, w, owner, first)
<1>1. w \in Word /\ DOMAIN view = Registers
  BY DEF TwoToFour, SharingAssumption, Typed
<1>2. Reconstruct(enc, s) = w
  BY <1>1, DealtReconstructs
<1>3. Write(r, Vector(enc, s)) /\ Call("share", <<r, enc, w>>)
  BY DEF SecretShare
<1> HIDE DEF s
<1> QED
  BY <1>1, <1>2, <1>3, ShareIsIdeal

-----------------------------------------------------------------------------
(* The sharing of zero of a group, and what rerandomized shares of a word  *)
(* reconstruct to.                                                         *)
LEMMA GroupZeroIsZero ==
    ASSUME TwoToFour, WordsDrawn, Typed, NEW enc, NEW g \in Groups, NEW p \in Parties
    PROVE  /\ \A k \in Parties : GroupZero(enc, p, g)[k] \in Word
           /\ \A i \in Places : AddsUpTo(enc, i, GroupZero(enc, p, g), 0)
<1> DEFINE drawn == [k \in 0 .. NumParties - 2 |-> Draw(p, g, k)]
<1>1. SharingAssumption /\ BitsAssumption /\ 0 \in Word
  BY TwoToFourAreFew, FewFacts, Reduces DEF TwoToFour
<1>2. \A k \in 0 .. NumParties - 2 : drawn[k] \in Word
  <2>1. \A k \in 0 .. NumParties - 2 : k \in Nat
    OBVIOUS
  <2> QED BY <1>1, <2>1, DrawIsWord
<1>3. GroupZero(enc, p, g) = Completed(enc, 0, drawn)
  <2> DEFINE last == NumParties - 1
             drew == [k \in 0 .. last - 1 |-> Draw(p, g, k)]
  <2>1. last - 1 = NumParties - 2
    BY DEF TwoToFour
  <2>2. drew = drawn /\ 0 .. last - 1 = 0 .. NumParties - 2
    BY <2>1
  <2>3. GroupZero(enc, p, g) = [k \in Parties |-> IF k < last THEN drew[k]
                                   ELSE Sub(enc, 0, SumOver(enc, 0 .. last - 1, drew))]
    BY DEF GroupZero
  <2> HIDE DEF drew, drawn
  <2> QED BY <2>2, <2>3 DEF Completed
<1> HIDE DEF drawn
<1> DEFINE all == Completed(enc, 0, drawn)
<1>4. /\ \A k \in Parties : all[k] \in Word
      /\ \A i \in Places : \A c : Num(enc, i, 0, c) => AddsUpTo(enc, i, all, c)
  BY <1>1, <1>2, CompletedAddsUp
<1> HIDE DEF all
<1>5. \A i \in Places : Num(enc, i, 0, 0)
  BY <1>1, ZeroNumber
<1> QED
  BY <1>3, <1>4, <1>5 DEF all

(* A sharing of zero added within a group, and first shares taken from it, *)
(* leave the plaintext as it was.                                          *)
LEMMA RerandomizedReconstructs ==
    ASSUME TwoToFour, WordsDrawn, Typed, GeneratorsInStep,
           NEW r \in Registers, Agrees(view[r].sh), NEW g \in Groups, NEW t \in Shares,
           \A q \in Parties : \E p \in g, j \in Index :
               ShareOf(p, j) = ShareOf(q, 0) /\ t[q][0] = Rerandomized(r, g)[p][j]
    PROVE  Reconstruct(view[r].enc, t) = Reconstruct(view[r].enc, view[r].sh)
<1> DEFINE enc == view[r].enc
           s == view[r].sh
           zero(p) == GroupZero(enc, p, g)
           rs == Reconstruct(enc, s)
           rt == Reconstruct(enc, t)
<1>1. SharingAssumption /\ FewParties /\ BitsAssumption /\ 0 \in Index /\ g \subseteq Parties
  BY TwoToFourAreFew, FewFacts DEF TwoToFour, SharingAssumption
<1>2. s \in Shares
  BY DEF Typed, SharingTypeOK
<1>3. \A p, q \in g : zero(p) = zero(q)
  <2> SUFFICES ASSUME NEW p \in g, NEW q \in g
               PROVE  zero(p) = zero(q)
    OBVIOUS
  <2> DEFINE last == NumParties - 1
             drawn(o) == [n \in 0 .. last - 1 |-> Draw(o, g, n)]
  <2>1. nonce[p][g] = nonce[q][g]
    BY DEF GeneratorsInStep
  <2>2. drawn(p) = drawn(q)
    BY <2>1 DEF Draw
  <2>3. \A o : GroupZero(enc, o, g)
           = [n \in Parties |-> IF n < last THEN drawn(o)[n]
                 ELSE Sub(enc, 0, SumOver(enc, 0 .. last - 1, drawn(o)))]
    BY DEF GroupZero
  <2> HIDE DEF drawn
  <2> QED
    BY <2>2, <2>3
<1>4. PICK m \in g : TRUE
  <2>1. 0 \in Parties
    BY DEF TwoToFour, Parties
  <2> QED BY <2>1
<1>5. \A q \in Parties : t[q][0] = Add(enc, s[q][0], zero(m)[q])
  <2> SUFFICES ASSUME NEW q \in Parties
               PROVE  t[q][0] = Add(enc, s[q][0], zero(m)[q])
    OBVIOUS
  <2>1. PICK p \in g, j \in Index : ShareOf(p, j) = ShareOf(q, 0) /\ t[q][0] = Rerandomized(r, g)[p][j]
    OBVIOUS
  <2>2. ShareOf(q, 0) = q
    <3>1. q \in 0 .. NumParties - 1 /\ NumParties \in {2, 3, 4}
      BY DEF Parties, TwoToFour
    <3>2. NumParties = 2 => q % 2 = q
      BY <3>1, Mod2
    <3>3. NumParties = 3 => q % 3 = q
      BY <3>1, Mod3
    <3>4. NumParties = 4 => q % 4 = q
      BY <3>1, Mod4
    <3>5. q + 0 = q
      BY <3>1
    <3> QED BY <3>1, <3>2, <3>3, <3>4, <3>5 DEF ShareOf, Rank
  <2>3. s[p][j] = s[q][0]
    BY <1>1, <2>1 DEF Agrees
  <2>4. Rerandomized(r, g)[p][j] = Add(enc, s[p][j], zero(p)[ShareOf(p, j)])
    BY <1>1, <2>1 DEF Rerandomized
  <2>5. zero(p) = zero(m)
    BY <1>3, <1>4, <2>1
  <2> HIDE DEF zero, s, enc
  <2> QED BY <2>1, <2>2, <2>3, <2>4, <2>5
<1> DEFINE z == zero(m)
<1>6. (\A k \in Parties : z[k] \in Word) /\ \A i \in Places : AddsUpTo(enc, i, z, 0)
  BY <1>1, <1>4, GroupZeroIsZero
<1> HIDE DEF z, zero, enc, s
<1>7. ASSUME NEW i \in Places
      PROVE  \E n : Num(enc, i, rs, n) /\ Num(enc, i, rt, n)
  <2>1. PICK a : Firsts(enc, i, s, a)
    BY <1>1, <1>2, SharesHaveNumbers
  <2>2. PICK e : /\ \A k \in Parties : Num(enc, i, z[k], e[k]) /\ e[k] \in Int
                 /\ Total(Parties, e) = 0
    BY <1>6 DEF AddsUpTo
  <2> DEFINE c == [k \in Parties |-> a[k] + e[k]]
  <2>3. \A k \in Parties : a[k] \in Int /\ e[k] \in Int /\ c[k] = a[k] + e[k]
    BY <2>1, <2>2 DEF Firsts, Num
  <2>4. \A k \in Parties : s[k][0] \in Word
    BY <1>1, <1>2, FewFacts
  <2>5. \A k \in Parties : Num(enc, i, Add(enc, s[k][0], z[k]), a[k] + e[k])
    BY <1>1, <1>6, <2>1, <2>2, <2>4, NumbersCompute DEF Firsts
  <2>6. Firsts(enc, i, t, c)
    BY <1>5, <2>3, <2>5 DEF Firsts, z
  <2> HIDE DEF c
  <2>7. /\ Total(Parties, a) \in Int /\ Total(Parties, e) \in Int
        /\ Total(Parties, c) = Total(Parties, a) + Total(Parties, e)
    BY <2>3, TotalsAdd
  <2>8. Num(enc, i, rs, Total(Parties, a)) /\ Num(enc, i, rt, Total(Parties, c))
    BY <1>1, <1>2, <2>1, <2>6, ReconstructNumber
  <2>9. Total(Parties, c) = Total(Parties, a)
    BY <2>2, <2>7
  <2> QED BY <2>8, <2>9
<1>8. rs \in Word /\ rt \in Word
  BY <1>1, <1>2, ReconstructIsWord
<1> HIDE DEF rs, rt
<1>9. rs = rt
  BY <1>1, <1>7, <1>8, SameNumbers
<1> QED
  BY <1>9 DEF rs, rt, s, enc

-----------------------------------------------------------------------------
(* Division by the constant rounds down: the floor and the rest, which may *)
(* be the divisor for a negative word, give back the word.                 *)
FloorOf(w) == Minus(Quotient(w, Divisor), Sign(w))
RestOf(w) == Plus(Remainder(w, Divisor), Times(Sign(w), Divisor))
Divided(w, f, r) ==
    /\ f \in Int /\ r \in 0 .. Divisor
    /\ WordOf(FloorOf(w), f) /\ WordOf(RestOf(w), r) /\ WordOf(w, Divisor * f + r)

(* The divisor is a word, and below half of the words.                     *)
LEMMA DivisorFacts ==
    ASSUME SharingAssumption
    PROVE  /\ BitsAssumption /\ Divisor \in Nat /\ Divisor > 0 /\ Divisor \in Word
           /\ Size \in Nat /\ Size > 1 /\ Size \div 2 \in Nat /\ Divisor <= Size \div 2 - 1
           /\ 2 * (Size \div 2) <= Size
<1>1. BitsAssumption /\ Divisor \in 1 .. Size \div 2 - 1
  BY DEF SharingAssumption
<1>2. Size \in Nat /\ Size > 1
  BY <1>1, Reduces
<1> QED
  BY <1>1, <1>2 DEF Word

(* Every word has a floor and a rest that divide it.                       *)
LEMMA WordIsDivided ==
    ASSUME SharingAssumption, NEW w \in Word
    PROVE  \E f, r : Divided(w, f, r)
<1> DEFINE d == Divisor
           n == Size - w
           u == n \div d
           v == n % d
           q == w \div d
           m == w % d
<1>1. /\ BitsAssumption /\ d \in Nat /\ d > 0 /\ d \in Word /\ Size \in Nat /\ Size > 1
      /\ w \in Int /\ 0 <= w /\ w < Size /\ n \in Int
  BY DivisorFacts, Reduces DEF Word
<1>2. WordOf(w, w) /\ WordOf(d, d) /\ WordOf(0, 0) /\ WordOf(1, 1)
  BY <1>1, Reduces, WordsOfWords
<1>3. u \in Int /\ v \in 0 .. d - 1 /\ n = d * u + v
  <2> HIDE DEF d, n
  <2> QED BY <1>1, Divides
<1>4. q \in Int /\ m \in 0 .. d - 1 /\ w = d * q + m
  <2> HIDE DEF d
  <2> QED BY <1>1, Divides
<1>5. CASE IsNegative(w)
  <2> DEFINE f == 0 - u - 1
             r == d - v
  <2>1. Sign(w) = 1 /\ Quotient(w, d) = (0 - u) % Size
    BY <1>5 DEF Sign, Quotient
  <2>2. WordOf(Quotient(w, d), 0 - u)
    BY <1>3, <2>1 DEF WordOf
  <2>3. WordOf(FloorOf(w), f)
    <3>1. WordOf(Minus(Quotient(w, d), 1), (0 - u) - 1)
      <4> HIDE DEF u, d
      <4> QED BY <1>1, <1>2, <2>2, WordsOfResults
    <3> QED BY <2>1, <3>1 DEF FloorOf
  <2>4. WordOf(Times(d, Quotient(w, d)), d * (0 - u))
    <3> HIDE DEF u, d
    <3> QED BY <1>1, <1>2, <2>2, WordsOfResults
  <2>5. WordOf(Remainder(w, d), w - d * (0 - u))
    <3> HIDE DEF u, d
    <3> QED BY <1>1, <1>2, <2>4, WordsOfResults DEF Remainder
  <2>6. WordOf(Times(1, d), 1 * d)
    <3> HIDE DEF d
    <3> QED BY <1>1, <1>2, WordsOfResults
  <2>7. WordOf(RestOf(w), (w - d * (0 - u)) + 1 * d)
    <3> HIDE DEF u, d
    <3>1. WordOf(Plus(Remainder(w, d), Times(1, d)), (w - d * (0 - u)) + 1 * d)
      BY <1>1, <2>5, <2>6, WordsOfResults
    <3> QED BY <2>1, <3>1 DEF RestOf, d
  <2> DEFINE big == (w - d * (0 - u)) + 1 * d
  <2> HIDE DEF d, u, v
  <2>8. big + Size * (0 - 0) \in Int /\ big = Size + r
    BY <1>1, <1>3
  <2>9. WordOf(RestOf(w), r)
    <3> HIDE DEF big, r
    <3>1. WordOf(RestOf(w), big)
      BY <2>7 DEF big
    <3>2. 0 - 1 \in Int /\ big + Size * (0 - 1) = r
      BY <1>1, <1>3, <2>8 DEF r
    <3>3. \A k \in Int : WordOf(RestOf(w), big + Size * k)
      BY <1>1, <3>1, SameWord
    <3> QED BY <3>2, <3>3
  <2>10. w + Size * (0 - 1) = d * f + r /\ 0 - 1 \in Int
    BY <1>1, <1>3
  <2>11. WordOf(w, d * f + r)
    <3>1. \A k \in Int : WordOf(w, w + Size * k)
      BY <1>1, <1>2, SameWord
    <3> HIDE DEF f, r
    <3> QED BY <2>10, <3>1
  <2>12. f \in Int /\ r \in 0 .. d
    BY <1>1, <1>3
  <2> HIDE DEF f, r
  <2>13. Divided(w, f, r)
    BY <2>3, <2>9, <2>11, <2>12 DEF Divided, d
  <2> QED BY <2>13
<1>6. CASE ~ IsNegative(w)
  <2>1. Sign(w) = 0 /\ Quotient(w, d) = q
    BY <1>6 DEF Sign, Quotient
  <2>2. q \in Word
    <3> HIDE DEF d
    <3>1. q \in 0 .. w
      <4>1. CASE q < 0
        <5>1. d * q <= d * (0 - 1)
          BY <1>1, <1>4, <4>1
        <5> QED BY <1>1, <1>4, <5>1
      <4>2. CASE q > w
        <5>1. d * q >= 1 * q
          BY <1>1, <1>4, <4>2
        <5> QED BY <1>1, <1>4, <4>2, <5>1
      <4> QED BY <1>1, <1>4, <4>1, <4>2
    <3> QED BY <1>1, <3>1 DEF Word
  <2>3. WordOf(q, q)
    BY <1>1, <2>2, WordsOfWords
  <2> HIDE DEF d, q, m
  <2>4. WordOf(FloorOf(w), q - 0)
    <3>1. WordOf(Minus(q, 0), q - 0)
      BY <1>1, <1>2, <2>3, WordsOfResults
    <3> QED BY <2>1, <3>1 DEF FloorOf, d
  <2>5. WordOf(Remainder(w, d), w - d * q)
    <3>1. WordOf(Times(d, q), d * q)
      BY <1>1, <1>2, <2>3, WordsOfResults
    <3>2. WordOf(Minus(w, Times(d, q)), w - d * q)
      BY <1>1, <1>2, <3>1, WordsOfResults
    <3> QED BY <2>1, <3>2 DEF Remainder
  <2>6. WordOf(Times(0, d), 0 * d)
    BY <1>1, <1>2, WordsOfResults
  <2>7. WordOf(RestOf(w), (w - d * q) + 0 * d)
    <3>1. WordOf(Plus(Remainder(w, d), Times(0, d)), (w - d * q) + 0 * d)
      BY <1>1, <2>5, <2>6, WordsOfResults
    <3> QED BY <2>1, <3>1 DEF RestOf, d
  <2>8. (w - d * q) + 0 * d = m /\ q - 0 = q /\ d * q + m = w /\ m \in 0 .. d
    BY <1>1, <1>4
  <2>9. Divided(w, q, m)
    BY <1>2, <1>4, <2>4, <2>7, <2>8 DEF Divided, d
  <2> QED BY <2>9
<1> QED
  BY <1>5, <1>6

(* The quotient and the error of two halves, as the abstract machine has   *)
(* them.                                                                   *)
LEMMA HalvesDivide ==
    ASSUME SharingAssumption, NEW w1, NEW f1, NEW r1, Divided(w1, f1, r1),
           NEW w2, NEW f2, NEW r2, Divided(w2, f2, r2),
           NEW q, WordOf(q, f1 + f2), NEW e, WordOf(e, r1 + r2 - Divisor),
           NEW x, WordOf(x, Divisor * (f1 + f2) + r1 + r2)
    PROVE  Signed(e) \in -Divisor .. Divisor /\ Plus(Times(Divisor, Plus(q, 1)), e) = x
<1> DEFINE d == Divisor
           s == Size
           h == s \div 2
           c == r1 + r2 - d
           f == f1 + f2
<1>1. /\ BitsAssumption /\ d \in Nat /\ d > 0 /\ d \in Word /\ s \in Nat /\ s > 1
      /\ h \in Nat /\ d <= h - 1 /\ 2 * h <= s
  BY DivisorFacts
<1>2. f1 \in Int /\ f2 \in Int /\ r1 \in 0 .. d /\ r2 \in 0 .. d
  BY DEF Divided
<1>3. c \in -d .. d /\ f \in Int /\ e = c % s
  <2>1. e = c % s
    BY DEF WordOf
  <2> HIDE DEF s
  <2> QED BY <1>1, <1>2, <2>1
<1>4. Signed(e) \in -d .. d
  <2> HIDE DEF d, c, s, h
  <2>1. CASE c >= 0
    <3>1. (s * 0 + c) % s = c
      BY <1>1, <1>3, <2>1, DividesOnce
    <3>2. s * 0 + c = c
      BY <1>1, <1>3
    <3>3. e = c
      BY <1>3, <3>1, <3>2
    <3>4. ~ (e >= h)
      BY <1>1, <1>3, <2>1, <3>3
    <3>5. Signed(e) = e
      BY <3>4 DEF Signed, IsNegative, h, s
    <3> QED BY <1>3, <3>3, <3>5
  <2>2. CASE c < 0
    <3> DEFINE k == 0 - 1
               b == c + s
    <3>1. k \in Int /\ b \in Int /\ 0 <= b /\ b < s /\ s * k + b = c
      BY <1>1, <1>3, <2>2
    <3> HIDE DEF k, b
    <3>2. (s * k + b) % s = b
      BY <1>1, <3>1, DividesOnce
    <3>3. e = b
      BY <1>3, <3>1, <3>2
    <3>4. e >= h
      BY <1>1, <1>3, <3>3 DEF b
    <3>5. Signed(e) = e - s
      BY <3>4 DEF Signed, IsNegative, h, s
    <3>6. e - s = c
      BY <1>1, <1>3, <3>3 DEF b
    <3> QED BY <1>3, <3>5, <3>6
  <2> QED BY <1>3, <2>1, <2>2
<1>5. Plus(Times(d, Plus(q, 1)), e) = x
  <2>1. WordOf(d, d) /\ WordOf(1, 1)
    BY <1>1, Reduces, WordsOfWords
  <2>2. WordOf(q, f) /\ WordOf(e, c)
    OBVIOUS
  <2> HIDE DEF d, c, f, s, h
  <2>3. WordOf(Plus(q, 1), f + 1)
    BY <1>1, <2>1, <2>2, WordsOfResults
  <2>4. WordOf(Times(d, Plus(q, 1)), d * (f + 1))
    BY <1>1, <2>1, <2>3, WordsOfResults
  <2>5. WordOf(Plus(Times(d, Plus(q, 1)), e), d * (f + 1) + c)
    BY <1>1, <2>2, <2>4, WordsOfResults
  <2>6. d * (f + 1) + c = d * f + r1 + r2
    BY <1>1, <1>2, <1>3 DEF c
  <2>7. WordOf(x, d * f + r1 + r2)
    BY DEF d, f
  <2> QED BY <2>5, <2>6, <2>7, OneWord
<1> QED
  BY <1>4, <1>5

-----------------------------------------------------------------------------
(* Four parties, each with the shares from its own on but one.             *)
FourShares == SharingAssumption /\ NumParties = 4 /\ ReplicationNumber = 3

(* What their numbers are, written out.                                    *)
LEMMA FourFacts ==
    ASSUME FourShares
    PROVE  /\ TwoToFour /\ FewParties /\ SharingAssumption /\ BitsAssumption
           /\ Parties = 0 .. 3 /\ Index = 0 .. 2 /\ 0 \in Word
           /\ 0 \in Parties /\ 1 \in Parties /\ 2 \in Parties /\ 3 \in Parties
           /\ 0 \in Index /\ 1 \in Index /\ 2 \in Index
           /\ \A p \in Parties : p = 0 \/ p = 1 \/ p = 2 \/ p = 3
           /\ \A p, d : ShareOf(p, d) = Rank(p, d)
           /\ \A p \in Parties : Rank(p, 0) = p
           /\ Rank(0, 1) = 1 /\ Rank(1, 1) = 2 /\ Rank(2, 1) = 3 /\ Rank(3, 1) = 0
           /\ Rank(0, 2) = 2 /\ Rank(1, 2) = 3 /\ Rank(2, 2) = 0 /\ Rank(3, 2) = 1
           /\ Rank(0, 3) = 3 /\ Rank(1, 3) = 0 /\ Rank(2, 3) = 1 /\ Rank(3, 3) = 2
<1>1. TwoToFour /\ FewParties /\ SharingAssumption /\ BitsAssumption
  BY TwoToFourAreFew DEF FourShares, TwoToFour, SharingAssumption
<1>2. NumParties = 4 /\ ReplicationNumber = 3
  BY DEF FourShares
<1>3. Parties = 0 .. 3 /\ Index = 0 .. 2
  BY <1>2 DEF Parties, Index
<1>4. \A p, d : Rank(p, d) = (p + d) % 4 /\ ShareOf(p, d) = Rank(p, d)
  BY <1>2 DEF Rank, ShareOf
<1>5. \A p \in Parties : Rank(p, 0) = p
  BY <1>3, <1>4
<1>6. /\ Rank(0, 1) = 1 /\ Rank(1, 1) = 2 /\ Rank(2, 1) = 3 /\ Rank(3, 1) = 0
      /\ Rank(0, 2) = 2 /\ Rank(1, 2) = 3 /\ Rank(2, 2) = 0 /\ Rank(3, 2) = 1
      /\ Rank(0, 3) = 3 /\ Rank(1, 3) = 0 /\ Rank(2, 3) = 1 /\ Rank(3, 3) = 2
  BY <1>4
<1>7. 0 \in Word
  BY <1>1, Reduces
<1> QED
  BY <1>1, <1>3, <1>4, <1>5, <1>6, <1>7

(* The numbers of four first shares add up to that of the vector.          *)
LEMMA FourAddUp ==
    ASSUME FourShares, NEW enc, NEW i \in Places, NEW s \in Shares,
           NEW a, Num(enc, i, s[0][0], a), NEW b, Num(enc, i, s[1][0], b),
           NEW c, Num(enc, i, s[2][0], c), NEW d, Num(enc, i, s[3][0], d)
    PROVE  Num(enc, i, Reconstruct(enc, s), a + b + c + d)
<1> DEFINE n == [p \in Parties |-> CASE p = 0 -> a [] p = 1 -> b [] p = 2 -> c [] p = 3 -> d]
<1>1. Parties = 0 .. 3
  BY FourFacts
<1>2. n[0] = a /\ n[1] = b /\ n[2] = c /\ n[3] = d
  BY <1>1
<1> HIDE DEF n
<1>3. \A p \in Parties : p = 0 \/ p = 1 \/ p = 2 \/ p = 3
  BY <1>1
<1>4. Firsts(enc, i, s, n)
  BY <1>2, <1>3 DEF Firsts
<1>5. a \in Int /\ b \in Int /\ c \in Int /\ d \in Int
  BY DEF Num
<1>6. Total(Parties, n) = a + b + c + d
  <2>1. \A k \in 0 .. 3 : n[k] \in Int
    BY <1>1, <1>2, <1>3, <1>5
  <2>2. Total(0 .. 3, n) = n[0] + n[1] + n[2] + n[3]
    BY <2>1, TotalOfFew
  <2> QED BY <1>1, <1>2, <2>2
<1> QED
  BY <1>4, <1>6, FourFacts, ReconstructNumber

(* The numbers a[0] to a[3] of the shares, of which each party has three.  *)
FourInts(a) == a[0] \in Int /\ a[1] \in Int /\ a[2] \in Int /\ a[3] \in Int
FourHold(enc, i, s, a) ==
    /\ \A p \in Parties : /\ Num(enc, i, s[p][0], a[p])
                          /\ Num(enc, i, s[p][1], a[Rank(p, 1)])
                          /\ Num(enc, i, s[p][2], a[Rank(p, 2)])
    /\ FourInts(a)
    /\ Num(enc, i, Reconstruct(enc, s), a[0] + a[1] + a[2] + a[3])

(* Shares that agree have the numbers of four words.                       *)
LEMMA SharesFourHold ==
    ASSUME FourShares, NEW enc, NEW i \in Places, NEW s \in Shares, Agrees(s)
    PROVE  \E a : FourHold(enc, i, s, a)
<1>1. PICK a : Firsts(enc, i, s, a)
  BY FourFacts, SharesHaveNumbers
<1>2. \A p \in Parties : Num(enc, i, s[p][0], a[p])
  BY <1>1 DEF Firsts
<1>3. \A p \in Parties : Rank(p, 1) \in Parties /\ Rank(p, 2) \in Parties
  BY FourFacts
<1>4. \A p \in Parties : s[p][1] = s[Rank(p, 1)][0] /\ s[p][2] = s[Rank(p, 2)][0]
  <2> TAKE p \in Parties
  <2>1. ShareOf(p, 1) = ShareOf(Rank(p, 1), 0) /\ ShareOf(p, 2) = ShareOf(Rank(p, 2), 0)
    BY <1>3, FourFacts
  <2> QED BY <1>3, <2>1, FourFacts DEF Agrees
<1>5. \A p \in Parties : /\ Num(enc, i, s[p][1], a[Rank(p, 1)])
                         /\ Num(enc, i, s[p][2], a[Rank(p, 2)])
  <2> TAKE p \in Parties
  <2> QED BY <1>2, <1>3, <1>4
<1>6. Num(enc, i, Reconstruct(enc, s), a[0] + a[1] + a[2] + a[3])
  BY <1>2, FourFacts, FourAddUp
<1>7. FourInts(a)
  BY <1>2, FourFacts DEF Num, FourInts
<1> QED
  BY <1>2, <1>5, <1>6, <1>7 DEF FourHold

(* A vector of which one share is negated, is.                             *)
LEMMA FourNot ==
    ASSUME FourShares, NEW s \in Shares, NEW u \in Shares, NEW k \in Parties,
           \A p \in Parties : u[p][0] = IF p = k THEN Complement(s[p][0]) ELSE s[p][0]
    PROVE  Reconstruct("B", u) = Complement(Reconstruct("B", s))
<1> DEFINE w == Reconstruct("B", s)
           v == Reconstruct("B", u)
<1>1. w \in Word /\ v \in Word /\ BitsAssumption /\ FewParties
  BY FourFacts, ReconstructIsWord
<1>2. \A p \in Parties : s[p][0] \in Word
  BY FourFacts DEF Shares
<1>3. ASSUME NEW i \in Places
      PROVE  \E n : Num("B", i, v, n) /\ Num("B", i, Complement(w), n)
  <2>1. PICK a : Firsts("B", i, s, a)
    BY <1>1, SharesHaveNumbers
  <2>2. \A p \in Parties : Num("B", i, s[p][0], a[p]) /\ a[p] \in Int
    BY <2>1 DEF Firsts, Num
  <2> DEFINE b(p) == IF p = k THEN a[p] + 1 ELSE a[p]
  <2>3. \A p \in Parties : Num("B", i, u[p][0], b(p))
    <3>1. \A p \in Parties : Num("B", i, Complement(s[p][0]), a[p] + 1)
      BY <1>1, <1>2, <2>2, NumbersOfBits
    <3> QED BY <2>2, <3>1
  <2>4. Num("B", i, v, b(0) + b(1) + b(2) + b(3))
    <3>1. /\ Num("B", i, u[0][0], b(0)) /\ Num("B", i, u[1][0], b(1))
          /\ Num("B", i, u[2][0], b(2)) /\ Num("B", i, u[3][0], b(3))
      BY <2>3, FourFacts
    <3> HIDE DEF b
    <3> QED BY <3>1, FourAddUp
  <2>5. Num("B", i, w, a[0] + a[1] + a[2] + a[3])
    BY <2>2, FourFacts, FourAddUp
  <2>6. Num("B", i, Complement(w), (a[0] + a[1] + a[2] + a[3]) + 1)
    <3> HIDE DEF w
    <3> QED BY <1>1, <2>5, NumbersOfBits
  <2>7. b(0) + b(1) + b(2) + b(3) = (a[0] + a[1] + a[2] + a[3]) + 1
    BY <2>2, FourFacts
  <2> HIDE DEF b, w, v
  <2> QED BY <2>4, <2>6, <2>7
<1> HIDE DEF w, v
<1>4. v = Complement(w)
  BY <1>1, <1>3, OnOneWord, SameNumbers
<1> QED
  BY <1>4 DEF w, v

(* One share with its last bit negated negates the last bit of the         *)
(* plaintext.                                                              *)
LEMMA FourNot1 ==
    ASSUME FourShares, NEW s \in Shares, NEW u \in Shares, NEW k \in Parties,
           \A p \in Parties : u[p][0] = IF p = k THEN LogicalNot(LSB(s[p][0])) ELSE LSB(s[p][0])
    PROVE  Reconstruct("B", u) = 1 - LSB(Reconstruct("B", s))
<1> DEFINE w == Reconstruct("B", s)
           v == Reconstruct("B", u)
<1>1. w \in Word /\ v \in Word /\ BitsAssumption /\ FewParties
  BY FourFacts, ReconstructIsWord
<1>2. \A p \in Parties : s[p][0] \in Word
  BY FourFacts DEF Shares
<1>3. 0 \in Places
  BY <1>1 DEF Places, BitsAssumption
<1>4. ASSUME NEW i \in Places
      PROVE  \E n : Num("B", i, v, n) /\ Num("B", i, LogicalNot(LSB(w)), n)
  <2>1. PICK a : Firsts("B", 0, s, a)
    BY <1>1, <1>3, SharesHaveNumbers
  <2>2. \A p \in Parties : Num("B", 0, s[p][0], a[p]) /\ a[p] \in Int
    BY <2>1 DEF Firsts, Num
  <2> DEFINE b(p) == IF i = 0 THEN (IF p = k THEN a[p] + 1 ELSE a[p]) ELSE 0
  <2>3. \A p \in Parties : Num("B", i, u[p][0], b(p))
    <3>1. \A p \in Parties : /\ Num("B", i, LSB(s[p][0]), IF i = 0 THEN a[p] ELSE 0)
                             /\ Num("B", i, LogicalNot(LSB(s[p][0])), IF i = 0 THEN a[p] + 1 ELSE 0)
      BY <1>1, <1>2, <2>2, NumbersOfBits
    <3> QED BY <2>2, <3>1
  <2>4. Num("B", i, v, b(0) + b(1) + b(2) + b(3))
    <3>1. /\ Num("B", i, u[0][0], b(0)) /\ Num("B", i, u[1][0], b(1))
          /\ Num("B", i, u[2][0], b(2)) /\ Num("B", i, u[3][0], b(3))
      BY <2>3, FourFacts
    <3> HIDE DEF b
    <3> QED BY <3>1, FourAddUp
  <2>5. Num("B", 0, w, a[0] + a[1] + a[2] + a[3])
    BY <1>3, <2>2, FourFacts, FourAddUp
  <2>6. Num("B", i, LogicalNot(LSB(w)), IF i = 0 THEN (a[0] + a[1] + a[2] + a[3]) + 1 ELSE 0)
    <3> HIDE DEF w
    <3> QED BY <1>1, <2>5, NumbersOfBits
  <2>7. b(0) + b(1) + b(2) + b(3) = IF i = 0 THEN (a[0] + a[1] + a[2] + a[3]) + 1 ELSE 0
    BY <2>2, FourFacts
  <2> HIDE DEF b, w, v
  <2> QED BY <2>4, <2>6, <2>7
<1> HIDE DEF w, v
<1>5. v = LogicalNot(LSB(w))
  BY <1>1, <1>4, OnOneWord, SameNumbers
<1>6. LogicalNot(LSB(w)) = 1 - LSB(w)
  BY <1>1, LastBit DEF LogicalNot
<1> QED
  BY <1>5, <1>6 DEF w, v

(* A word of which one party has drawn a part d and another party has the  *)
(* rest is shared.                                                         *)
LEMMA FourInput ==
    ASSUME FourShares, NEW enc, NEW s \in Shares, NEW w \in Word, NEW d \in Word,
           NEW k \in Parties, NEW l \in Parties, k # l,
           \A p \in Parties : s[p][0] = IF p = k THEN d ELSE IF p = l THEN Sub(enc, w, d) ELSE 0
    PROVE  Reconstruct(enc, s) = w
<1> DEFINE v == Reconstruct(enc, s)
<1>1. v \in Word /\ BitsAssumption /\ FewParties
  BY FourFacts, ReconstructIsWord
<1>2. ASSUME NEW i \in Places
      PROVE  \E n : Num(enc, i, v, n) /\ Num(enc, i, w, n)
  <2>1. PICK a : Num(enc, i, w, a)
    BY <1>1, HasNumber
  <2>2. PICK b : Num(enc, i, d, b)
    BY <1>1, HasNumber
  <2>3. a \in Int /\ b \in Int /\ Num(enc, i, 0, 0) /\ Num(enc, i, Sub(enc, w, d), a - b)
    <3>1. a \in Int /\ b \in Int
      BY <2>1, <2>2 DEF Num
    <3>2. Num(enc, i, 0, 0)
      BY <1>1, ZeroNumber
    <3>3. Num(enc, i, Sub(enc, w, d), a - b)
      BY <1>1, <2>1, <2>2, NumbersCompute
    <3> QED BY <3>1, <3>2, <3>3
  <2> DEFINE o(p) == IF p = k THEN b ELSE IF p = l THEN a - b ELSE 0
  <2>4. \A p \in Parties : Num(enc, i, s[p][0], o(p))
    BY <2>2, <2>3
  <2>5. Num(enc, i, v, o(0) + o(1) + o(2) + o(3))
    <3>1. /\ Num(enc, i, s[0][0], o(0)) /\ Num(enc, i, s[1][0], o(1))
          /\ Num(enc, i, s[2][0], o(2)) /\ Num(enc, i, s[3][0], o(3))
      BY <2>4, FourFacts
    <3> HIDE DEF o
    <3> QED BY <3>1, FourAddUp
  <2>6. o(0) + o(1) + o(2) + o(3) = a
    BY <2>3, FourFacts
  <2> HIDE DEF o, v
  <2> QED BY <2>1, <2>5, <2>6
<1> HIDE DEF v
<1>3. v = w
  BY <1>1, <1>2, SameNumbers
<1> QED
  BY <1>3 DEF v

(* A word that is one of the shares, the others being zero, is shared.     *)
LEMMA FourPublic ==
    ASSUME FourShares, NEW enc, NEW s \in Shares, NEW w \in Word, NEW k \in Parties,
           \A p \in Parties : s[p][0] = IF p = k THEN w ELSE 0
    PROVE  Reconstruct(enc, s) = w
<1>1. BitsAssumption /\ 0 \in Word
  BY FourFacts
<1>2. Sub(enc, w, 0) = w
  <2>1. Sub(enc, w, 0) \in Word
    BY <1>1, SharesClosed
  <2>2. ASSUME NEW i \in Places
        PROVE  \E n : Num(enc, i, Sub(enc, w, 0), n) /\ Num(enc, i, w, n)
    <3>1. PICK a : Num(enc, i, w, a)
      BY <1>1, HasNumber
    <3>2. a \in Int /\ Num(enc, i, 0, 0)
      BY <1>1, <3>1, ZeroNumber DEF Num
    <3>3. Num(enc, i, Sub(enc, w, 0), a - 0)
      BY <1>1, <3>1, <3>2, NumbersCompute
    <3>4. a - 0 = a
      BY <3>2
    <3> QED BY <3>1, <3>3, <3>4
  <2> QED BY <1>1, <2>1, <2>2, SameNumbers
<1>3. PICK l \in Parties : l # k
  BY FourFacts
<1>4. \A p \in Parties : s[p][0] = IF p = l THEN 0 ELSE IF p = k THEN Sub(enc, w, 0) ELSE 0
  BY <1>2, <1>3
<1> QED
  BY <1>1, <1>3, <1>4, FourInput

(* What a party opens: its own three shares and the one of its             *)
(* predecessor.                                                            *)
LEMMA FourOpened ==
    ASSUME FourShares, NEW enc, NEW s \in Shares, Agrees(s), NEW p \in Parties
    PROVE  Add(enc, SumOver(enc, Index, s[p]), s[Rank(p, 3)][0]) = Reconstruct(enc, s)
<1> DEFINE q == Rank(p, 3)
           own == SumOver(enc, Index, s[p])
           v == Reconstruct(enc, s)
           u == Add(enc, own, s[q][0])
<1>1. /\ BitsAssumption /\ FewParties /\ Index = 0 .. 2 /\ p \in {0, 1, 2, 3}
      /\ Rank(0, 1) = 1 /\ Rank(1, 1) = 2 /\ Rank(2, 1) = 3 /\ Rank(3, 1) = 0
      /\ Rank(0, 2) = 2 /\ Rank(1, 2) = 3 /\ Rank(2, 2) = 0 /\ Rank(3, 2) = 1
      /\ Rank(0, 3) = 3 /\ Rank(1, 3) = 0 /\ Rank(2, 3) = 1 /\ Rank(3, 3) = 2
  BY FourFacts
<1>2. q \in Parties /\ 0 \in Index
  BY <1>1, FourFacts
<1>3. \A k \in Parties, j \in Index : s[k][j] \in Word
  BY DEF Shares
<1>4. own \in Word
  <2>1. IsFiniteSet(Index)
    <3>1. PICK zero \in Int, two \in Int : zero = 0 /\ two = 2
      OBVIOUS
    <3>2. IsFiniteSet(zero .. two)
      BY FS_Interval
    <3> QED BY <1>1, <3>1, <3>2
  <2> QED BY <1>1, <1>3, <2>1, SumIsWord
<1>5. s[q][0] \in Word
  BY <1>2, <1>3
<1>6. v \in Word
  BY <1>1, ReconstructIsWord
<1>7. u \in Word
  <2> HIDE DEF own
  <2> QED BY <1>1, <1>4, <1>5, SharesClosed
<1>8. ASSUME NEW i \in Places
      PROVE  \E n : Num(enc, i, u, n) /\ Num(enc, i, v, n)
  <2>1. PICK a : FourHold(enc, i, s, a)
    BY SharesFourHold
  <2> DEFINE b == [j \in 0 .. 2 |-> IF j = 0 THEN a[p] ELSE IF j = 1 THEN a[Rank(p, 1)] ELSE a[Rank(p, 2)]]
  <2>2. /\ Num(enc, i, s[p][0], a[p]) /\ Num(enc, i, s[p][1], a[Rank(p, 1)])
        /\ Num(enc, i, s[p][2], a[Rank(p, 2)]) /\ Num(enc, i, s[q][0], a[q])
        /\ Num(enc, i, v, a[0] + a[1] + a[2] + a[3])
    BY <1>2, <2>1 DEF FourHold
  <2>3. /\ b[0] = a[p] /\ b[1] = a[Rank(p, 1)] /\ b[2] = a[Rank(p, 2)]
        /\ \A j \in 0 .. 2 : j = 0 \/ j = 1 \/ j = 2
    OBVIOUS
  <2> HIDE DEF b, q, own, v, u
  <2>4. Nums(enc, i, 0 .. 2, s[p], b)
    BY <1>1, <1>3, <2>2, <2>3 DEF Nums
  <2>5. Num(enc, i, own, Total(0 .. 2, b))
    <3>1. 0 .. 2 \subseteq 0 .. 6
      OBVIOUS
    <3> QED BY <1>1, <2>4, <3>1, SumNumber DEF own
  <2>6. PICK k \in Int, l \in Int, m \in Int, n \in Int :
            k = a[p] /\ l = a[Rank(p, 1)] /\ m = a[Rank(p, 2)] /\ n = a[q]
    BY <2>2 DEF Num
  <2>7. Total(0 .. 2, b) = k + l + m
    <3>1. \A j \in 0 .. 2 : b[j] \in Int
      BY <2>3, <2>6
    <3>2. Total(0 .. 2, b) = b[0] + b[1] + b[2]
      BY <3>1, TotalOfFew
    <3> QED BY <2>3, <2>6, <3>2
  <2>8. Num(enc, i, u, (k + l + m) + n)
    <3>1. Num(enc, i, own, k + l + m) /\ Num(enc, i, s[q][0], n)
      BY <2>2, <2>5, <2>6, <2>7
    <3> QED BY <1>1, <1>4, <1>5, <3>1, NumbersCompute DEF u
  <2>9. PICK x \in Int, y \in Int, z \in Int, w \in Int :
            x = a[0] /\ y = a[1] /\ z = a[2] /\ w = a[3]
    BY <2>1 DEF FourHold, FourInts
  <2>10. (k + l + m) + n = x + y + z + w
    <3>1. \/ k = x /\ l = y /\ m = z /\ n = w
          \/ k = y /\ l = z /\ m = w /\ n = x
          \/ k = z /\ l = w /\ m = x /\ n = y
          \/ k = w /\ l = x /\ m = y /\ n = z
      BY <1>1, <2>6, <2>9 DEF q
    <3> QED BY <3>1
  <2>11. Num(enc, i, v, x + y + z + w)
    BY <2>2, <2>9
  <2> QED BY <2>8, <2>10, <2>11
<1> HIDE DEF u, v
<1>9. u = v
  BY <1>1, <1>6, <1>7, <1>8, SameNumbers
<1> QED
  BY <1>9 DEF u, v

(* A vector of numbers is the sum of two shares and that of the others.    *)
LEMMA FourHalves ==
    ASSUME FourShares, NEW s \in Shares
    PROVE  /\ Reconstruct("A", s) = Plus(Plus(s[3][0], s[0][0]), Plus(s[1][0], s[2][0]))
           /\ Reconstruct("A", s) = Plus(Plus(s[0][0], s[1][0]), Plus(s[2][0], s[3][0]))
<1> DEFINE v == Reconstruct("A", s)
<1>1. BitsAssumption /\ \A p \in Parties : s[p][0] \in Word
  BY FourFacts DEF Shares
<1>2. PICK k, l, m, n : /\ WordOf(s[0][0], k) /\ WordOf(s[1][0], l)
                        /\ WordOf(s[2][0], m) /\ WordOf(s[3][0], n)
  BY <1>1, FourFacts, WordsOfWords
<1>3. k \in Int /\ l \in Int /\ m \in Int /\ n \in Int
  BY <1>2 DEF WordOf
<1>4. WordOf(v, k + l + m + n)
  <2>1. 0 \in Places
    BY <1>1 DEF Places, BitsAssumption
  <2>2. /\ Num("A", 0, s[0][0], k) /\ Num("A", 0, s[1][0], l)
        /\ Num("A", 0, s[2][0], m) /\ Num("A", 0, s[3][0], n)
    BY <1>2, <1>3 DEF Num
  <2>3. Num("A", 0, v, k + l + m + n)
    BY <2>1, <2>2, FourAddUp
  <2> QED BY <2>3 DEF Num
<1>5. /\ WordOf(Plus(s[3][0], s[0][0]), n + k) /\ WordOf(Plus(s[1][0], s[2][0]), l + m)
      /\ WordOf(Plus(s[0][0], s[1][0]), k + l) /\ WordOf(Plus(s[2][0], s[3][0]), m + n)
  BY <1>1, <1>2, WordsOfResults
<1>6. /\ WordOf(Plus(Plus(s[3][0], s[0][0]), Plus(s[1][0], s[2][0])), (n + k) + (l + m))
      /\ WordOf(Plus(Plus(s[0][0], s[1][0]), Plus(s[2][0], s[3][0])), (k + l) + (m + n))
  BY <1>1, <1>5, WordsOfResults
<1>7. (n + k) + (l + m) = k + l + m + n /\ (k + l) + (m + n) = k + l + m + n
  BY <1>3
<1> HIDE DEF v
<1> QED
  BY <1>4, <1>6, <1>7, OneWord DEF v

(* What is left of a sum when one part is taken off.                       *)
LEMMA PlusMinus ==
    ASSUME BitsAssumption, NEW v \in Word, NEW w \in Word
    PROVE  Minus(Plus(v, w), v) = w
<1>1. WordOf(v, v) /\ WordOf(w, w) /\ v \in Int /\ w \in Int
  BY WordsOfWords, Reduces
<1>2. WordOf(Plus(v, w), v + w)
  BY <1>1, WordsOfResults
<1>3. WordOf(Minus(Plus(v, w), v), (v + w) - v)
  BY <1>1, <1>2, WordsOfResults
<1>4. (v + w) - v = w
  BY <1>1
<1> QED
  BY <1>1, <1>3, <1>4, OneWord

(* The last bits of two halves, and that of the vector.                    *)
LEMMA FourHalfBits ==
    ASSUME FourShares, NEW s \in Shares
    PROVE  \E b, c \in {0, 1} :
               /\ b = Xor(LSB(s[3][0]), LSB(s[0][0])) /\ c = Xor(LSB(s[1][0]), LSB(s[2][0]))
               /\ LSB(Reconstruct("B", s)) = (b + c) % 2
<1> DEFINE w == Reconstruct("B", s)
<1>1. /\ BitsAssumption /\ FewParties /\ 0 \in Parties /\ 1 \in Parties /\ 2 \in Parties /\ 3 \in Parties
      /\ w \in Word /\ \A p \in Parties : s[p][0] \in Word
  BY FourFacts, ReconstructIsWord DEF Shares
<1>2. 0 \in Places
  BY <1>1 DEF Places, BitsAssumption
<1>3. PICK a : Firsts("B", 0, s, a)
  BY <1>1, <1>2, SharesHaveNumbers
<1>4. /\ Num("B", 0, s[0][0], a[0]) /\ Num("B", 0, s[1][0], a[1])
      /\ Num("B", 0, s[2][0], a[2]) /\ Num("B", 0, s[3][0], a[3])
  BY <1>1, <1>3 DEF Firsts
<1>5. PICK k \in Int, l \in Int, m \in Int, n \in Int : k = a[0] /\ l = a[1] /\ m = a[2] /\ n = a[3]
  BY <1>4 DEF Num
<1>6. Num("B", 0, w, k + l + m + n)
  BY <1>2, <1>4, <1>5, FourAddUp
<1>7. LSB(w) = (k + l + m + n) % 2
  <2> HIDE DEF w
  <2> QED BY <1>1, <1>6, LastBit
<1>8. /\ LSB(s[0][0]) \in {0, 1} /\ LSB(s[0][0]) = k % 2
      /\ LSB(s[1][0]) \in {0, 1} /\ LSB(s[1][0]) = l % 2
      /\ LSB(s[2][0]) \in {0, 1} /\ LSB(s[2][0]) = m % 2
      /\ LSB(s[3][0]) \in {0, 1} /\ LSB(s[3][0]) = n % 2
  BY <1>1, <1>4, <1>5, LastBit
<1>9. PICK e \in {0, 1}, f \in {0, 1}, g \in {0, 1}, h \in {0, 1} :
          e = LSB(s[0][0]) /\ f = LSB(s[1][0]) /\ g = LSB(s[2][0]) /\ h = LSB(s[3][0])
  BY <1>8
<1>10. Xor(h, e) = (h + e) % 2 /\ Xor(f, g) = (f + g) % 2
  BY <1>1, XorOfBits
<1>11. e = k % 2 /\ f = l % 2 /\ g = m % 2 /\ h = n % 2
  BY <1>8, <1>9
<1>12. /\ (h + e) % 2 \in {0, 1} /\ (f + g) % 2 \in {0, 1}
       /\ (((h + e) % 2) + ((f + g) % 2)) % 2 = (k + l + m + n) % 2
  BY <1>11
<1> HIDE DEF w
<1> WITNESS (h + e) % 2 \in {0, 1}, (f + g) % 2 \in {0, 1}
<1> QED
  BY <1>7, <1>9, <1>10, <1>12 DEF w

(* The square of the difference of two bits is their exclusive or.         *)
LEMMA BitSquare ==
    ASSUME BitsAssumption, NEW b \in {0, 1}, NEW c \in {0, 1}
    PROVE  Times(Minus(b, c), Minus(b, c)) = (b + c) % 2
<1>1. b \in Word /\ c \in Word /\ (b + c) % 2 \in Word /\ b \in Int /\ c \in Int
  <2>1. (b + c) % 2 \in {0, 1}
    OBVIOUS
  <2> QED BY <2>1, Reduces
<1>2. WordOf(b, b) /\ WordOf(c, c) /\ WordOf((b + c) % 2, (b + c) % 2)
  BY <1>1, WordsOfWords
<1> DEFINE m == Minus(b, c)
<1>3. WordOf(m, b - c)
  BY <1>2, WordsOfResults
<1> HIDE DEF m
<1>4. WordOf(Times(m, m), (b - c) * (b - c))
  BY <1>3, WordsOfResults
<1>5. (b - c) * (b - c) = (b + c) % 2
  OBVIOUS
<1>6. WordOf(Times(m, m), (b + c) % 2)
  BY <1>4, <1>5
<1> QED
  BY <1>2, <1>6, OneWord DEF m

(* Two halves, divided each for itself, are the word divided.              *)
LEMMA HalvesCombine ==
    ASSUME SharingAssumption, NEW v \in Word, NEW w \in Word,
           NEW q, q = Plus(FloorOf(v), FloorOf(w)),
           NEW e, e = Plus(Minus(RestOf(v), Divisor), RestOf(w))
    PROVE  /\ Signed(e) \in -Divisor .. Divisor
           /\ Plus(Times(Divisor, Plus(q, 1)), e) = Plus(v, w)
<1>1. BitsAssumption /\ Divisor \in Int /\ WordOf(Divisor, Divisor)
  <2>1. BitsAssumption /\ Divisor \in Word /\ Divisor \in Nat
    BY DivisorFacts
  <2> QED BY <2>1, WordsOfWords
<1>2. PICK f, r : Divided(v, f, r)
  BY WordIsDivided
<1>3. PICK g, t : Divided(w, g, t)
  BY WordIsDivided
<1>4. /\ f \in Int /\ r \in Int /\ WordOf(FloorOf(v), f) /\ WordOf(RestOf(v), r)
      /\ WordOf(v, Divisor * f + r)
      /\ g \in Int /\ t \in Int /\ WordOf(FloorOf(w), g) /\ WordOf(RestOf(w), t)
      /\ WordOf(w, Divisor * g + t)
  <2>1. \A n \in 0 .. Divisor : n \in Int
    BY <1>1
  <2> QED BY <1>2, <1>3, <2>1 DEF Divided
<1>5. WordOf(q, f + g)
  BY <1>1, <1>4, WordsOfResults
<1>6. WordOf(e, (r - Divisor) + t)
  <2>1. WordOf(Minus(RestOf(v), Divisor), r - Divisor)
    BY <1>1, <1>4, WordsOfResults
  <2> QED BY <1>1, <1>4, <2>1, WordsOfResults
<1>7. WordOf(e, r + t - Divisor)
  <2>1. (r - Divisor) + t = r + t - Divisor
    BY <1>1, <1>4
  <2> QED BY <1>6, <2>1
<1>8. WordOf(Plus(v, w), Divisor * (f + g) + r + t)
  <2>1. WordOf(Plus(v, w), (Divisor * f + r) + (Divisor * g + t))
    BY <1>1, <1>4, WordsOfResults
  <2>2. PICK m \in Int, n \in Int : m = Divisor * f /\ n = Divisor * g
    BY <1>1, <1>4
  <2>3. Divisor * (f + g) = m + n
    BY <1>1, <1>4, <2>2
  <2>4. (m + r) + (n + t) = (m + n) + r + t
    BY <1>4
  <2>5. (Divisor * f + r) + (Divisor * g + t) = Divisor * (f + g) + r + t
    BY <2>2, <2>3, <2>4
  <2> QED BY <2>1, <2>5
<1> DEFINE x == Plus(v, w)
<1>9. WordOf(x, Divisor * (f + g) + r + t)
  BY <1>8
<1> HIDE DEF x
<1>10. Signed(e) \in -Divisor .. Divisor /\ Plus(Times(Divisor, Plus(q, 1)), e) = x
  BY <1>2, <1>3, <1>5, <1>7, <1>9, HalvesDivide
<1> QED
  BY <1>10 DEF x

(* The product of two sums of four: the squares and the six cross terms.   *)
LEMMA SixteenTerms ==
    ASSUME NEW a, FourInts(a), NEW b, FourInts(b)
    PROVE  (a[0] + a[1] + a[2] + a[3]) * (b[0] + b[1] + b[2] + b[3])
               = (a[0] * b[0] + a[1] * b[1] + a[2] * b[2] + a[3] * b[3])
                 + (a[0] * b[1] + a[1] * b[0]) + (a[0] * b[2] + a[2] * b[0])
                 + (a[0] * b[3] + a[3] * b[0]) + (a[1] * b[2] + a[2] * b[1])
                 + (a[1] * b[3] + a[3] * b[1]) + (a[2] * b[3] + a[3] * b[2])
<1>1. PICK k \in Int, l \in Int, m \in Int, n \in Int, t \in Int, u \in Int, v \in Int, w \in Int :
          /\ k = a[0] /\ l = a[1] /\ m = a[2] /\ n = a[3]
          /\ t = b[0] /\ u = b[1] /\ v = b[2] /\ w = b[3]
  BY DEF FourInts
<1>2. (k + l + m + n) * (t + u + v + w)
          = (k * t + l * u + m * v + n * w) + (k * u + l * t) + (k * v + m * t)
            + (k * w + n * t) + (l * v + m * u) + (l * w + n * u) + (m * w + n * v)
  OBVIOUS
<1> QED
  BY <1>1, <1>2, Zenon
-----------------------------------------------------------------------------
(* Two parties with one share each: a vector is the sum of its two words.  *)
TwoShares == SharingAssumption /\ NumParties = 2 /\ ReplicationNumber = 1

LEMMA TwoFacts ==
    ASSUME TwoShares
    PROVE  /\ TwoToFour /\ FewParties /\ SharingAssumption /\ BitsAssumption
           /\ Parties = {0, 1} /\ Index = {0} /\ 0 \in Word
           /\ Rank(0, 1) = 1 /\ Rank(1, 1) = 0
<1>1. TwoToFour /\ FewParties /\ BitsAssumption
  BY TwoToFourAreFew DEF TwoToFour, TwoShares, SharingAssumption
<1>2. Parties = {0, 1} /\ Index = {0}
  BY DEF TwoShares, Parties, Index
<1>3. Rank(0, 1) = 1 /\ Rank(1, 1) = 0
  <2>1. (0 + 1) % 2 = 1 /\ (1 + 1) % 2 = 0
    BY Mod2
  <2> QED BY <2>1 DEF TwoShares, Rank
<1>4. 0 \in Word
  BY <1>1, Reduces
<1> QED
  BY <1>1, <1>2, <1>3, <1>4 DEF TwoShares

(* Two first shares reconstruct to the sum of their numbers,               *)
LEMMA TwoAddUp ==
    ASSUME TwoShares, NEW enc, NEW i \in Places, NEW s \in Shares,
           NEW a, Num(enc, i, s[0][0], a), NEW b, Num(enc, i, s[1][0], b)
    PROVE  Num(enc, i, Reconstruct(enc, s), a + b)
<1> DEFINE e == [p \in 0 .. 1 |-> IF p = 0 THEN a ELSE b]
<1>1. Parties = 0 .. 1 /\ FewParties
  BY TwoFacts
<1>2. e[0] = a /\ e[1] = b /\ a \in Int /\ b \in Int
  BY DEF Num
<1> HIDE DEF e
<1>3. Firsts(enc, i, s, e)
  BY <1>1, <1>2 DEF Firsts
<1>4. Total(0 .. 1, e) = a + b
  BY <1>2, TotalOfFew
<1> QED
  BY <1>1, <1>3, <1>4, ReconstructNumber

(* that is, to their sum.                                                  *)
LEMMA TwoSum ==
    ASSUME TwoShares, NEW enc, NEW s \in Shares
    PROVE  /\ s[0][0] \in Word /\ s[1][0] \in Word
           /\ Reconstruct(enc, s) = Add(enc, s[0][0], s[1][0])
<1> DEFINE u == s[0][0]
           v == s[1][0]
           w == Reconstruct(enc, s)
<1>1. u \in Word /\ v \in Word /\ BitsAssumption /\ w \in Word
  BY TwoFacts, FewFacts, ReconstructIsWord
<1>2. ASSUME NEW i \in Places
      PROVE  \E n : Num(enc, i, w, n) /\ Num(enc, i, Add(enc, u, v), n)
  <2> HIDE DEF u, v, w
  <2>1. PICK a, b : Num(enc, i, u, a) /\ Num(enc, i, v, b)
    BY <1>1, HasNumber
  <2>2. Num(enc, i, Add(enc, u, v), a + b)
    BY <1>1, <2>1, NumbersCompute
  <2>3. Num(enc, i, w, a + b)
    BY <2>1, TwoAddUp DEF u, v, w
  <2> QED BY <2>2, <2>3
<1> HIDE DEF u, v, w
<1>3. w = Add(enc, u, v)
  BY <1>1, <1>2, SharesClosed, SameNumbers
<1> QED
  BY <1>1, <1>3 DEF u, v, w

(* A zero adds nothing; a complement or a negated bit is carried through   *)
(* an exclusive or, whose last bit is that of the last bits.               *)
LEMMA AddsNothing ==
    ASSUME BitsAssumption, NEW enc, NEW w \in Word
    PROVE  Add(enc, w, 0) = w /\ Add(enc, 0, w) = w
<1>1. 0 \in Word
  BY Reduces
<1>2. Add(enc, w, 0) \in Word /\ Add(enc, 0, w) = Add(enc, w, 0)
  BY <1>1, SharesClosed
<1>3. ASSUME NEW i \in Places
      PROVE  \E n : Num(enc, i, Add(enc, w, 0), n) /\ Num(enc, i, w, n)
  <2>1. PICK a : Num(enc, i, w, a)
    BY HasNumber
  <2>2. a \in Int /\ Num(enc, i, 0, 0)
    BY <2>1, ZeroNumber DEF Num
  <2>3. Num(enc, i, Add(enc, w, 0), a + 0)
    BY <1>1, <2>1, <2>2, NumbersCompute
  <2>4. a + 0 = a
    BY <2>2
  <2> QED BY <2>1, <2>3, <2>4
<1> QED
  BY <1>2, <1>3, SameNumbers

LEMMA XorOfComplement ==
    ASSUME BitsAssumption, NEW u \in Word, NEW v \in Word
    PROVE  Xor(Complement(u), v) = Complement(Xor(u, v))
<1>1. /\ Complement(u) \in Word /\ Xor(u, v) \in Word /\ Xor(Complement(u), v) \in Word
      /\ Complement(Xor(u, v)) \in Word
  BY OnOneWord, Closed
<1>2. ASSUME NEW i \in Places
      PROVE  Bit(Xor(Complement(u), v), i) = Bit(Complement(Xor(u, v)), i)
  <2>1. /\ Bit(Xor(Complement(u), v), i) = (Bit(Complement(u), i) + Bit(v, i)) % 2
        /\ Bit(Xor(u, v), i) = (Bit(u, i) + Bit(v, i)) % 2
    BY <1>1, BitsOfTables
  <2>2. Bit(Complement(u), i) = 1 - Bit(u, i) /\ Bit(Complement(Xor(u, v)), i) = 1 - Bit(Xor(u, v), i)
    BY <1>1, ComplementBits
  <2>3. u \in Int /\ v \in Int /\ i \in Nat
    BY Reduces DEF Places
  <2>4. PICK b \in {0, 1}, c \in {0, 1} : b = Bit(u, i) /\ c = Bit(v, i)
    BY <2>3, BitIsBit
  <2>5. ((1 - b) + c) % 2 = 1 - ((b + c) % 2)
    OBVIOUS
  <2> QED BY <2>1, <2>2, <2>4, <2>5
<1> QED
  BY <1>1, <1>2, SameBits

LEMMA LastBitOfXor ==
    ASSUME BitsAssumption, NEW u \in Word, NEW v \in Word
    PROVE  LSB(u) \in {0, 1} /\ LSB(v) \in {0, 1} /\ LSB(Xor(u, v)) = (LSB(u) + LSB(v)) % 2
<1>1. Xor(u, v) \in Word /\ 0 \in Places
  BY Closed DEF Places, BitsAssumption
<1> QED
  BY <1>1, BitsOfTables, EndBits, LastBit

LEMMA NegatedBit ==
    ASSUME BitsAssumption, NEW b \in {0, 1}, NEW c \in {0, 1}
    PROVE  Xor(LogicalNot(b), c) = 1 - LSB(Xor(b, c))
<1>1. LogicalNot(b) \in {0, 1} /\ LogicalNot(b) = 1 - b
  BY DEF LogicalNot
<1>2. Xor(LogicalNot(b), c) = (LogicalNot(b) + c) % 2 /\ Xor(b, c) = (b + c) % 2
  BY <1>1, XorOfBits
<1>3. ((1 - b) + c) % 2 = 1 - (((b + c) % 2) % 2)
  OBVIOUS
<1> QED
  BY <1>1, <1>2, <1>3 DEF LSB

(* What a party opens: its share and the other one.                        *)
LEMMA TwoOpened ==
    ASSUME TwoShares, NEW enc, NEW s \in Shares, NEW p \in Parties
    PROVE  /\ Rank(p, 1) \in Parties
           /\ Add(enc, SumOver(enc, Index, s[p]), s[Rank(p, 1)][0]) = Reconstruct(enc, s)
<1> DEFINE u == s[p][0]
           own == SumOver(enc, Index, s[p])
<1>1. /\ BitsAssumption /\ p \in {0, 1} /\ Rank(0, 1) = 1 /\ Rank(1, 1) = 0 /\ Index = {0}
      /\ Parties = {0, 1} /\ s[0][0] \in Word /\ s[1][0] \in Word
      /\ Reconstruct(enc, s) = Add(enc, s[0][0], s[1][0])
  BY TwoFacts, TwoSum
<1>2. u \in Word
  BY <1>1
<1>3. own \in Word
  <2>1. IsFiniteSet(Index)
    BY <1>1, FS_Singleton
  <2>2. \A i \in Index : s[p][i] \in Word
    BY <1>1
  <2> QED BY <1>1, <2>1, <2>2, SumIsWord
<1>4. ASSUME NEW i \in Places
      PROVE  \E n : Num(enc, i, own, n) /\ Num(enc, i, u, n)
  <2>1. PICK a : Num(enc, i, u, a)
    BY <1>1, <1>2, HasNumber
  <2> DEFINE e == [j \in {0} |-> a]
  <2>2. e[0] = a /\ a \in Int /\ Index = 0 .. 0 /\ 0 .. 0 \subseteq 0 .. 6
    BY <1>1, <2>1 DEF Num
  <2> HIDE DEF e
  <2>3. Nums(enc, i, 0 .. 0, s[p], e)
    BY <1>2, <2>1, <2>2 DEF Nums
  <2>4. Num(enc, i, SumOver(enc, 0 .. 0, s[p]), Total(0 .. 0, e))
    BY <1>1, <2>2, <2>3, SumNumber
  <2>5. Total(0 .. 0, e) = a
    BY <2>2, TotalOfFew
  <2> QED BY <2>1, <2>2, <2>4, <2>5
<1> HIDE DEF u, own
<1>5. own = u
  BY <1>1, <1>2, <1>3, <1>4, SameNumbers
<1>6. Add(enc, s[0][0], s[1][0]) = Add(enc, s[1][0], s[0][0])
  BY <1>1, SharesClosed
<1>7. Rank(p, 1) \in Parties /\ Add(enc, u, s[Rank(p, 1)][0]) = Reconstruct(enc, s)
  BY <1>1, <1>6 DEF u
<1> QED
  BY <1>5, <1>7 DEF own

(* Two numbers for the shares of a vector.                                 *)
LEMMA TwoNumbers ==
    ASSUME TwoShares, NEW enc, NEW i \in Places, NEW s \in Shares
    PROVE  \E a, b : /\ Num(enc, i, s[0][0], a) /\ Num(enc, i, s[1][0], b)
                     /\ a \in Int /\ b \in Int
<1>1. s[0][0] \in Word /\ s[1][0] \in Word
  BY TwoFacts, FewFacts
<1> QED
  BY <1>1, TwoFacts, HasNumber DEF Num

(* The terms of the triple make up the product of its factors, and those   *)
(* of the product what is multiplied.                                      *)
LEMMA TripleTerms ==
    ASSUME NEW l0 \in Int, NEW l1 \in Int, NEW l2 \in Int,
           NEW r0 \in Int, NEW r1 \in Int, NEW r2 \in Int
    PROVE  (l1 * r1 + ((l1 * l2 - l0) + (r1 * r2 - r0))) + (r2 * l2 + (l0 + r0))
               = (l1 + r2) * (r1 + l2)
OBVIOUS

LEMMA BeaverTerms ==
    ASSUME NEW x0 \in Int, NEW x1 \in Int, NEW y0 \in Int, NEW y1 \in Int,
           NEW a0 \in Int, NEW a1 \in Int, NEW b0 \in Int, NEW b1 \in Int,
           NEW c0 \in Int, NEW c1 \in Int, c0 + c1 = (a0 + a1) * (b0 + b1),
           NEW u \in Int, u = (x0 + a0) + (x1 + a1), NEW v \in Int, v = (y0 + b0) + (y1 + b1)
    PROVE  ((y0 * u - a0 * v) + c0) + ((y1 * u - a1 * v) + c1) = (x0 + x1) * (y0 + y1)
OBVIOUS

(* The numbers of the words a product is made of: a sum that is opened,    *)
(* the third words of a triple, and the share that comes of them.          *)
LEMMA MaskedNumber ==
    ASSUME BitsAssumption, NEW enc, NEW i \in Places,
           NEW x \in Word, NEW m, Num(enc, i, x, m), NEW a \in Word, NEW k, Num(enc, i, a, k),
           NEW y \in Word, NEW n, Num(enc, i, y, n), NEW b \in Word, NEW j, Num(enc, i, b, j)
    PROVE  Num(enc, i, Add(enc, Add(enc, x, a), Add(enc, y, b)), (m + k) + (n + j))
<1>1. Num(enc, i, Add(enc, x, a), m + k) /\ Add(enc, x, a) \in Word
  BY NumbersCompute, SharesClosed
<1>2. Num(enc, i, Add(enc, y, b), n + j) /\ Add(enc, y, b) \in Word
  BY NumbersCompute, SharesClosed
<1> QED BY <1>1, <1>2, NumbersCompute

LEMMA FactoredNumber ==
    ASSUME BitsAssumption, NEW enc, NEW i \in Places,
           NEW x \in Word, NEW m, Num(enc, i, x, m), NEW y \in Word, NEW n, Num(enc, i, y, n),
           NEW a \in Word, NEW k, Num(enc, i, a, k)
    PROVE  /\ Num(enc, i, Sub(enc, Mul(enc, x, y), a), m * n - k)
           /\ Sub(enc, Mul(enc, x, y), a) \in Word
<1>1. Num(enc, i, Mul(enc, x, y), m * n) /\ Mul(enc, x, y) \in Word
  BY NumbersCompute, SharesClosed
<1> QED BY <1>1, NumbersCompute, SharesClosed

LEMMA ThirdNumber ==
    ASSUME BitsAssumption, NEW enc, NEW i \in Places,
           NEW a \in Word, NEW k, Num(enc, i, a, k), NEW b \in Word, NEW j, Num(enc, i, b, j),
           NEW x \in Word, NEW m, Num(enc, i, x, m), NEW y \in Word, NEW n, Num(enc, i, y, n)
    PROVE  Num(enc, i, Add(enc, Mul(enc, a, b), Add(enc, x, y)), k * j + (m + n))
<1>1. Num(enc, i, Mul(enc, a, b), k * j) /\ Mul(enc, a, b) \in Word
  BY NumbersCompute, SharesClosed
<1>2. Num(enc, i, Add(enc, x, y), m + n) /\ Add(enc, x, y) \in Word
  BY NumbersCompute, SharesClosed
<1> QED BY <1>1, <1>2, NumbersCompute

LEMMA ShareNumber ==
    ASSUME BitsAssumption, NEW enc, NEW i \in Places,
           NEW y \in Word, NEW n, Num(enc, i, y, n), NEW A \in Word, NEW u, Num(enc, i, A, u),
           NEW a \in Word, NEW k, Num(enc, i, a, k), NEW B \in Word, NEW v, Num(enc, i, B, v),
           NEW c \in Word, NEW j, Num(enc, i, c, j)
    PROVE  Num(enc, i, Add(enc, Sub(enc, Mul(enc, y, A), Mul(enc, a, B)), c), (n * u - k * v) + j)
<1>1. Num(enc, i, Mul(enc, a, B), k * v) /\ Mul(enc, a, B) \in Word
  BY NumbersCompute, SharesClosed
<1>2. /\ Num(enc, i, Sub(enc, Mul(enc, y, A), Mul(enc, a, B)), n * u - k * v)
      /\ Sub(enc, Mul(enc, y, A), Mul(enc, a, B)) \in Word
  BY <1>1, FactoredNumber
<1> QED BY <1>2, NumbersCompute

(* One complement, or one negated bit, is that of the plaintext.           *)
LEMMA TwoNot ==
    ASSUME TwoShares, NEW s \in Shares, NEW u \in Shares,
           u[0][0] = Complement(s[0][0]), u[1][0] = s[1][0]
    PROVE  Reconstruct("B", u) = Complement(Reconstruct("B", s))
BY TwoFacts, TwoSum, XorOfComplement DEF Add

LEMMA TwoNot1 ==
    ASSUME TwoShares, NEW s \in Shares, s[0][0] \in {0, 1}, s[1][0] \in {0, 1}, NEW u \in Shares,
           u[0][0] = LogicalNot(s[0][0]), u[1][0] = s[1][0]
    PROVE  Reconstruct("B", u) = 1 - LSB(Reconstruct("B", s))
BY TwoFacts, TwoSum, NegatedBit DEF Add

(* A word that one of the parties holds, the other one zero, is shared.    *)
LEMMA TwoPublic ==
    ASSUME TwoShares, NEW enc, NEW w \in Word, NEW u \in Shares,
           \/ u[0][0] = w /\ u[1][0] = 0
           \/ u[0][0] = 0 /\ u[1][0] = w
    PROVE  Reconstruct(enc, u) = w
BY TwoFacts, TwoSum, AddsNothing

(* The square of the difference of two shared bits is their exclusive or.  *)
LEMMA TwoBits ==
    ASSUME TwoShares, NEW s \in Shares, NEW t \in Shares,
           t[0][0] = LSB(s[0][0]), t[1][0] = Minus(0, LSB(s[1][0]))
    PROVE  Mul("A", Reconstruct("A", t), Reconstruct("A", t)) = LSB(Reconstruct("B", s))
<1> DEFINE b == LSB(s[0][0])
           c == LSB(s[1][0])
<1>1. /\ BitsAssumption /\ 0 \in Word /\ s[0][0] \in Word /\ s[1][0] \in Word
      /\ Reconstruct("B", s) = Xor(s[0][0], s[1][0])
      /\ Reconstruct("A", t) = Plus(b, Minus(0, c))
  BY TwoFacts, TwoSum DEF Add
<1>2. b \in {0, 1} /\ c \in {0, 1} /\ LSB(Xor(s[0][0], s[1][0])) = (b + c) % 2
  BY <1>1, LastBitOfXor
<1> HIDE DEF b, c
<1>3. Plus(b, Minus(0, c)) = Minus(b, c)
  <2>1. WordOf(b, b) /\ WordOf(c, c) /\ WordOf(0, 0)
    BY <1>1, <1>2, Reduces, WordsOfWords
  <2>2. WordOf(Minus(b, c), b - c) /\ WordOf(Minus(0, c), 0 - c)
    BY <1>1, <2>1, WordsOfResults
  <2>3. WordOf(Plus(b, Minus(0, c)), b + (0 - c))
    BY <1>1, <2>1, <2>2, WordsOfResults
  <2>4. b + (0 - c) = b - c
    BY <1>2
  <2> QED BY <2>2, <2>3, <2>4, OneWord
<1>4. Times(Minus(b, c), Minus(b, c)) = (b + c) % 2
  BY <1>1, <1>2, BitSquare
<1> QED
  BY <1>1, <1>2, <1>3, <1>4 DEF Mul

(* Each party divides its own share.                                       *)
LEMMA TwoDivided ==
    ASSUME TwoShares, NEW s \in Shares,
           NEW u \in Shares, u[0][0] = FloorOf(s[0][0]), u[1][0] = FloorOf(s[1][0]),
           NEW e \in Shares, e[0][0] = RestOf(s[0][0]), e[1][0] = Minus(RestOf(s[1][0]), Divisor),
           NEW q, q = Reconstruct("A", u), NEW r, r = Reconstruct("A", e)
    PROVE  /\ q \in Word /\ r \in Word
           /\ Signed(r) \in -Divisor .. Divisor
           /\ Plus(Times(Divisor, Plus(q, 1)), r) = Reconstruct("A", s)
<1>1. /\ BitsAssumption /\ SharingAssumption /\ s[0][0] \in Word /\ s[1][0] \in Word
      /\ u[0][0] \in Word /\ u[1][0] \in Word /\ e[0][0] \in Word /\ e[1][0] \in Word
      /\ Reconstruct("A", s) = Plus(s[0][0], s[1][0])
      /\ q = Plus(u[0][0], u[1][0]) /\ r = Plus(e[0][0], e[1][0])
  BY TwoFacts, TwoSum DEF Add
<1>2. /\ Reconstruct("A", s) = Plus(s[1][0], s[0][0])
      /\ q = Plus(FloorOf(s[1][0]), FloorOf(s[0][0]))
      /\ r = Plus(Minus(RestOf(s[1][0]), Divisor), RestOf(s[0][0]))
      /\ q \in Word /\ r \in Word
  BY <1>1, Closed
<1> QED
  BY <1>1, <1>2, HalvesCombine

(* Floors and rests are words.                                             *)
LEMMA PartsAreWords ==
    ASSUME SharingAssumption, NEW w \in Word
    PROVE  FloorOf(w) \in Word /\ RestOf(w) \in Word /\ Minus(RestOf(w), Divisor) \in Word
<1>1. BitsAssumption /\ Divisor \in Word /\ Divisor > 0
  BY DivisorFacts
<1>2. Sign(w) \in Word /\ Quotient(w, Divisor) \in Word /\ Remainder(w, Divisor) \in Word
  BY <1>1, OnOneWord, DivisionClosed
<1>3. Times(Sign(w), Divisor) \in Word
  BY <1>1, <1>2, Closed
<1> QED
  BY <1>1, <1>2, <1>3, Closed DEF FloorOf, RestOf

(* A product by a triple: the opened words A and B leave of the masks what *)
(* the third words of the triple take away.                                *)
LEMMA TwoProduct ==
    ASSUME TwoShares, NEW enc, NEW s \in Shares, NEW t \in Shares, NEW u \in Shares,
           NEW l, l[0] \in Word, l[1] \in Word, l[2] \in Word,
           NEW r, r[0] \in Word, r[1] \in Word, r[2] \in Word,
           NEW c, c = Add(enc, Mul(enc, l[1], r[1]), Add(enc, Sub(enc, Mul(enc, l[1], l[2]), l[0]),
                                                              Sub(enc, Mul(enc, r[1], r[2]), r[0]))),
           NEW d, d = Add(enc, Mul(enc, r[2], l[2]), Add(enc, l[0], r[0])),
           NEW A, A = Add(enc, Add(enc, s[0][0], l[1]), Add(enc, s[1][0], r[2])),
           NEW B, B = Add(enc, Add(enc, t[0][0], r[1]), Add(enc, t[1][0], l[2])),
           u[0][0] = Add(enc, Sub(enc, Mul(enc, t[0][0], A), Mul(enc, l[1], B)), c),
           u[1][0] = Add(enc, Sub(enc, Mul(enc, t[1][0], A), Mul(enc, r[2], B)), d)
    PROVE  Reconstruct(enc, u) = Mul(enc, Reconstruct(enc, s), Reconstruct(enc, t))
<1>1. /\ BitsAssumption /\ s[0][0] \in Word /\ s[1][0] \in Word /\ t[0][0] \in Word /\ t[1][0] \in Word
  BY TwoFacts, TwoSum
<1>2. /\ Sub(enc, Mul(enc, l[1], l[2]), l[0]) \in Word /\ Sub(enc, Mul(enc, r[1], r[2]), r[0]) \in Word
      /\ c \in Word /\ d \in Word
  BY <1>1, SharesClosed
<1>3. A \in Word /\ B \in Word
  BY <1>1, SharesClosed
<1>4. ASSUME NEW i \in Places
      PROVE  \E n : /\ Num(enc, i, Reconstruct(enc, u), n)
                    /\ Num(enc, i, Mul(enc, Reconstruct(enc, s), Reconstruct(enc, t)), n)
  <2>1. PICK x0, x1 : Num(enc, i, s[0][0], x0) /\ Num(enc, i, s[1][0], x1) /\ x0 \in Int /\ x1 \in Int
    BY TwoNumbers
  <2>2. PICK y0, y1 : Num(enc, i, t[0][0], y0) /\ Num(enc, i, t[1][0], y1) /\ y0 \in Int /\ y1 \in Int
    BY TwoNumbers
  <2>3. PICK l0, l1, l2, r0, r1, r2 :
            /\ Num(enc, i, l[0], l0) /\ Num(enc, i, l[1], l1) /\ Num(enc, i, l[2], l2)
            /\ Num(enc, i, r[0], r0) /\ Num(enc, i, r[1], r1) /\ Num(enc, i, r[2], r2)
            /\ l0 \in Int /\ l1 \in Int /\ l2 \in Int /\ r0 \in Int /\ r1 \in Int /\ r2 \in Int
    <3>1. \A w \in Word : \E n : Num(enc, i, w, n) /\ n \in Int
      BY <1>1, HasNumber DEF Num
    <3> QED BY <3>1
  <2>4. PICK c0 \in Int, d0 \in Int : /\ c0 = l1 * r1 + ((l1 * l2 - l0) + (r1 * r2 - r0))
                                      /\ d0 = r2 * l2 + (l0 + r0)
    BY <2>3
  <2>5. PICK v \in Int, w \in Int : v = (x0 + l1) + (x1 + r2) /\ w = (y0 + r1) + (y1 + l2)
    BY <2>1, <2>2, <2>3
  <2>6. Num(enc, i, c, c0)
    <3> DEFINE f == Sub(enc, Mul(enc, l[1], l[2]), l[0])
               g == Sub(enc, Mul(enc, r[1], r[2]), r[0])
    <3>1. Num(enc, i, f, l1 * l2 - l0) /\ Num(enc, i, g, r1 * r2 - r0) /\ f \in Word /\ g \in Word
      BY <1>1, <2>3, FactoredNumber
    <3>2. c = Add(enc, Mul(enc, l[1], r[1]), Add(enc, f, g))
      OBVIOUS
    <3> HIDE DEF f, g
    <3>3. Num(enc, i, Add(enc, Mul(enc, l[1], r[1]), Add(enc, f, g)),
              l1 * r1 + ((l1 * l2 - l0) + (r1 * r2 - r0)))
      BY <1>1, <2>3, <3>1, ThirdNumber
    <3> QED BY <2>4, <3>2, <3>3
  <2>7. Num(enc, i, d, d0)
    <3>1. Num(enc, i, Add(enc, Mul(enc, r[2], l[2]), Add(enc, l[0], r[0])), r2 * l2 + (l0 + r0))
      BY <1>1, <2>3, ThirdNumber
    <3> QED BY <2>4, <3>1
  <2>8. Num(enc, i, A, v) /\ Num(enc, i, B, w)
    BY <1>1, <2>1, <2>2, <2>3, <2>5, MaskedNumber
  <2>9. /\ Num(enc, i, u[0][0], (y0 * v - l1 * w) + c0)
        /\ Num(enc, i, u[1][0], (y1 * v - r2 * w) + d0)
    <3>1. Num(enc, i, Add(enc, Sub(enc, Mul(enc, t[0][0], A), Mul(enc, l[1], B)), c),
              (y0 * v - l1 * w) + c0)
      BY <1>1, <1>2, <1>3, <2>2, <2>3, <2>6, <2>8, ShareNumber
    <3>2. Num(enc, i, Add(enc, Sub(enc, Mul(enc, t[1][0], A), Mul(enc, r[2], B)), d),
              (y1 * v - r2 * w) + d0)
      BY <1>1, <1>2, <1>3, <2>2, <2>3, <2>7, <2>8, ShareNumber
    <3> QED BY <3>1, <3>2
  <2>10. PICK m \in Int, n \in Int : m = (y0 * v - l1 * w) + c0 /\ n = (y1 * v - r2 * w) + d0
    BY <2>2, <2>3
  <2>11. c0 + d0 = (l1 + r2) * (r1 + l2)
    BY <2>3, <2>4, TripleTerms
  <2>12. m + n = (x0 + x1) * (y0 + y1)
    BY <2>1, <2>2, <2>3, <2>5, <2>10, <2>11, BeaverTerms
  <2>13. Num(enc, i, Reconstruct(enc, u), m + n)
    BY <2>9, <2>10, TwoAddUp
  <2>14. Num(enc, i, Reconstruct(enc, s), x0 + x1) /\ Num(enc, i, Reconstruct(enc, t), y0 + y1)
    BY <2>1, <2>2, TwoAddUp
  <2>15. Num(enc, i, Mul(enc, Reconstruct(enc, s), Reconstruct(enc, t)), (x0 + x1) * (y0 + y1))
    <3>1. Reconstruct(enc, s) \in Word /\ Reconstruct(enc, t) \in Word
      BY TwoFacts, ReconstructIsWord
    <3> QED BY <1>1, <2>14, <3>1, NumbersCompute
  <2> QED BY <2>12, <2>13, <2>15
<1>5. /\ Reconstruct(enc, u) \in Word /\ Reconstruct(enc, s) \in Word /\ Reconstruct(enc, t) \in Word
  BY TwoFacts, ReconstructIsWord
<1>6. Mul(enc, Reconstruct(enc, s), Reconstruct(enc, t)) \in Word
  BY <1>1, <1>5, SharesClosed
<1> QED
  BY <1>1, <1>4, <1>5, <1>6, SameNumbers
=============================================================================
