----------------------- MODULE CommittedSeeds_proofs -----------------------
(***************************************************************************)
(* Proofs about the queues of committed seeds, for any number of parties,  *)
(* any batch and threshold that last from one check to the next, and any   *)
(* number of checks.                                                       *)
(*                                                                         *)
(* All parties make the same calls, so there is one sequential execution   *)
(* in which each call is made by all of them at once.  The invariant says  *)
(* that whatever the interleaving, a party that is at some point of some   *)
(* call has exactly what it has there in that execution, and a channel     *)
(* exactly the messages between the points of its two parties.             *)
(***************************************************************************)
EXTENDS CommittedSeeds, TLAPS, WellFoundedInduction, FiniteSetTheorems, SequenceTheorems

-----------------------------------------------------------------------------
(* The sequential execution.                                               *)

Groups(c) == Call(c).group

Start ==
    [stored |-> 0,                              \* seeds stored of each party
     used |-> [q \in Parties |-> 0],            \* seeds of q opened
     refilled |-> << >>,                        \* decisions of the checks
     sent |-> [p \in Parties |-> [q \in Parties |-> 0]]]   \* messages from p to q

Needed(s) == s.stored - s.used[0] < Threshold
Refills(c, s) == Call(c).kind = "repopulate" \/ (Call(c).kind = "check" /\ Needed(s))

After(c, s) ==
    [stored |-> IF Refills(c, s) THEN s.stored + BatchSize ELSE s.stored,
     used |-> [q \in Parties |-> IF q \in Groups(c) THEN s.used[q] + 1 ELSE s.used[q]],
     refilled |-> IF Call(c).kind = "check" THEN Append(s.refilled, Needed(s)) ELSE s.refilled,
     sent |-> [p \in Parties |-> [q \in Parties |->
         IF Refills(c, s) THEN s.sent[p][q] + 2
         ELSE IF {p, q} \subseteq Groups(c) THEN s.sent[p][q] + 1 ELSE s.sent[p][q]]]]

(* What there is before call c.                                            *)
Before[c \in Nat] == IF c <= 1 THEN Start ELSE After(c - 1, Before[c - 1])

StoredAt(c) == Before[c].stored
UsedAt(q, c) == Before[c].used[q]
RefilledAt(c) == Before[c].refilled
SentAt(p, q, c) == Before[c].sent[p][q]
RefillsAt(c) == Refills(c, Before[c])

-----------------------------------------------------------------------------
(* What a party has when it is in call c and mode m.                       *)

Slice(f, a, b) == [k \in 1 .. b - a |-> f[a + k]]
Seeds == [n \in Nat |-> n]

GeneratedIn(c, m) == StoredAt(IF m \in {"committed", "stored"} THEN c + 1 ELSE c)
StoredIn(c, m) == StoredAt(IF m = "stored" THEN c + 1 ELSE c)
SeedsIn(p, c, m) == Slice(Seeds, UsedAt(p, IF m = "opened" THEN c + 1 ELSE c), StoredIn(c, m))
HeldIn(p, c, m) ==
    [q \in Parties |-> IF q = p THEN << >> ELSE Slice(Seeds, UsedAt(q, c), StoredIn(c, m))]
RefilledIn(c, m) == RefilledAt(IF m \in {"refill", "committed", "stored"} THEN c + 1 ELSE c)
Generator(c) == {<<q, UsedAt(q, c) + 1>> : q \in Groups(c)}
GeneratorsIn(p, c, m) == [i \in 1 .. NumCalls |->
    IF i < c /\ p \in Groups(i) THEN Generator(i)
    ELSE IF i = c /\ m = "opened" THEN {<<p, UsedAt(p, c) + 1>>} ELSE {}]

(* The messages between two parties, and how many it has sent and received.*)
Message(p, c, k) ==
    IF Call(c).kind = "open" THEN [kind |-> "opening", body |-> UsedAt(p, c) + 1]
    ELSE IF k = 1
         THEN [kind |-> "commitments", body |-> Slice(Seeds, StoredAt(c), StoredAt(c + 1))]
         ELSE [kind |-> "hashes", body |-> [q \in Others(p) |->
                 Slice(Seeds, UsedAt(q, c), StoredAt(c + 1))]]
CallOf(p, q, n) == CHOOSE c \in 1 .. NumCalls : n \in SentAt(p, q, c) + 1 .. SentAt(p, q, c + 1)
Messages(p, q) == [n \in Nat |-> Message(p, CallOf(p, q, n), n - SentAt(p, q, CallOf(p, q, n)))]

SentIn(p, q, c, m) ==
    CASE m = "committed" -> SentAt(p, q, c) + 1
      [] m \in {"stored", "opened"} -> SentAt(p, q, c + 1)
      [] OTHER -> SentAt(p, q, c)
ReceivedIn(p, q, c, m) == IF m = "stored" THEN SentAt(p, q, c) + 1 ELSE SentAt(p, q, c)

SentNow(p, q) == SentIn(p, q, at[p], mode[p])
ReceivedNow(p, q) == ReceivedIn(p, q, at[p], mode[p])

-----------------------------------------------------------------------------
(* The inductive invariant.                                                *)

(* A mode is one of the call's.                                            *)
Fits(p, c, m) ==
    /\ m # "ready" => c <= NumCalls
    /\ m = "refill" => Call(c).kind = "check" /\ RefillsAt(c)
    /\ m \in {"committed", "stored"} => RefillsAt(c)
    /\ m = "opened" => p \in Groups(c)

InCalls ==
    /\ at \in [Parties -> 1 .. NumCalls + 1]
    /\ mode \in [Parties -> {"ready", "refill", "committed", "stored", "opened"}]
    /\ \A p \in Parties : Fits(p, at[p], mode[p])

Local ==
    /\ generated = [p \in Parties |-> GeneratedIn(at[p], mode[p])]
    /\ localSeeds = [p \in Parties |-> SeedsIn(p, at[p], mode[p])]
    /\ commitments = [p \in Parties |-> HeldIn(p, at[p], mode[p])]
    /\ prg = [p \in Parties |-> GeneratorsIn(p, at[p], mode[p])]
    /\ refilled = [p \in Parties |-> RefilledIn(at[p], mode[p])]
    /\ failed = [p \in Parties |-> FALSE]

InTransit ==
    /\ channel = [p \in Parties |-> [q \in Parties |-> IF p = q THEN << >> ELSE
           Slice(Messages(p, q), ReceivedNow(q, p), SentNow(p, q))]]
    /\ \A p \in Parties : \A q \in Others(p) : ReceivedNow(q, p) <= SentNow(p, q)

IInv == InCalls /\ Local /\ InTransit
-----------------------------------------------------------------------------
(* Numbers and sequences.                                                  *)

(* Induction from 1, for what a set collects.                              *)
LEMMA FromOne ==
    ASSUME NEW S, 1 \in S, \A n \in Nat \ {0} : n \in S => n + 1 \in S
    PROVE  Nat \ {0} \subseteq S
<1> SUFFICES ASSUME NEW x \in Nat \ {0}, x \notin S
             PROVE  FALSE
  OBVIOUS
<1> DEFINE Missing == {n \in Nat \ {0} : n \notin S}
           R == {xy \in Nat \X Nat : xy[1] < xy[2]}
<1>1. IsWellFoundedOn(R, Nat)
  BY NatLessThanWellFounded, Zenon DEF OpToRel
<1>2. PICK n \in Missing : \A o \in Missing : ~ (<<o, n>> \in R)
  <2>1. Missing \subseteq Nat /\ Missing # {}
    OBVIOUS
  <2> HIDE DEF R, Missing
  <2> QED BY <2>1, <1>1, WFMin
<1>3. n # 1 /\ n - 1 \in Nat \ {0} /\ n - 1 < n
  BY <1>2
<1>4. n - 1 \notin Missing
  <2>1. <<n - 1, n>>[1] = n - 1 /\ <<n - 1, n>>[2] = n /\ <<n - 1, n>> \in Nat \X Nat
    BY <1>3
  <2>2. <<n - 1, n>> \in R
    BY <2>1, <1>3
  <2> QED BY <1>2, <2>2
<1> QED
  BY <1>3, <1>4

(* A number is its quotient times the divisor and its remainder.           *)
LEMMA Euclid ==
    ASSUME NEW n \in Int, n > 1, NEW x \in Int
    PROVE  x = n * (x \div n) + (x % n)
BY SMTT(30)

(* The remainder is what is left of a multiple.                            *)
LEMMA RemainderIs ==
    ASSUME NEW n \in Nat, n > 1, NEW x \in Nat, NEW q \in Int, NEW r \in 0 .. n - 1,
           x = n * q + r
    PROVE  x % n = r
<1> DEFINE u == x \div n
           s == x % n
<1>1. n * q + r = n * u + s /\ u \in Int
  BY Euclid
<1>2. s \in 0 .. n - 1
  OBVIOUS
<1> HIDE DEF u, s
<1>3. CASE q < u
  <2>1. u - q >= 1 /\ u - q \in Int
    BY <1>1, <1>3
  <2>2. n * (u - q) >= n
    BY <2>1
  <2> QED BY <1>1, <1>2, <2>2
<1>4. CASE q > u
  <2>1. q - u >= 1 /\ q - u \in Int
    BY <1>1, <1>4
  <2>2. n * (q - u) >= n
    BY <2>1
  <2> QED BY <1>1, <1>2, <2>2
<1> QED
  BY <1>1, <1>2, <1>3, <1>4 DEF s

(* Remainders of successive numbers.                                       *)
LEMMA NextRemainder ==
    ASSUME NEW n \in Nat, n > 1, NEW x \in Nat
    PROVE  /\ x % n \in 0 .. n - 1
           /\ x % n < n - 1 => (x + 1) % n = (x % n) + 1
           /\ x % n = n - 1 => (x + 1) % n = 0
           /\ 0 % n = 0
<1> DEFINE q == x \div n
           y == x + 1
           r == x % n
<1>1. x = n * q + r /\ q \in Int /\ y \in Nat /\ y = x + 1 /\ r \in 0 .. n - 1
  BY Euclid
<1>2. 0 = n * 0 + 0
  OBVIOUS
<1> HIDE DEF q, y, r
<1>3. r < n - 1 => y % n = r + 1
  <2>1. y = n * q + (r + 1)
    BY <1>1
  <2>2. r < n - 1 => r + 1 \in 0 .. n - 1
    BY <1>1
  <2> QED BY <1>1, <2>1, <2>2, RemainderIs
<1>4. r = n - 1 => y % n = 0
  <2>1. r = n - 1 => y = n * (q + 1) + 0
    BY <1>1
  <2>2. q + 1 \in Int
    BY <1>1
  <2> QED BY <1>1, <2>1, <2>2, 0 \in 0 .. n - 1, RemainderIs
<1>5. 0 % n = 0
  BY <1>2, RemainderIs
<1> QED
  BY <1>1, <1>3, <1>4, <1>5 DEF y, r

(* A slice of a list is a sequence.                                        *)
LEMMA SliceIs ==
    ASSUME NEW f, NEW a \in Nat, NEW b \in Nat, a <= b
    PROVE  /\ Slice(f, a, b) \in Seq({f[n] : n \in Nat})
           /\ Len(Slice(f, a, b)) = b - a
           /\ \A k \in 1 .. b - a : Slice(f, a, b)[k] = f[a + k]
<1>1. b - a \in Nat /\ \A k \in 1 .. b - a : a + k \in Nat
  OBVIOUS
<1> QED
  BY <1>1 DEF Slice

(* What reading and extending a slice gives.                               *)
LEMMA Slices ==
    ASSUME NEW f, NEW a \in Nat, NEW b \in Nat, a <= b
    PROVE  /\ Len(Slice(f, a, b)) = b - a
           /\ Slice(f, a, b) = << >> <=> a = b
           /\ a < b => Head(Slice(f, a, b)) = f[a + 1] /\ Tail(Slice(f, a, b)) = Slice(f, a + 1, b)
           /\ Append(Slice(f, a, b), f[b + 1]) = Slice(f, a, b + 1)
<1> DEFINE T == {f[n] : n \in Nat}
<1>1. ASSUME NEW c \in Nat, NEW d \in Nat, c <= d
      PROVE  /\ Slice(f, c, d) \in Seq(T)
             /\ Len(Slice(f, c, d)) = d - c
             /\ \A k \in 1 .. d - c : Slice(f, c, d)[k] = f[c + k]
  BY <1>1, SliceIs
<1>2. f[b + 1] \in T
  OBVIOUS
<1> HIDE DEF T
<1>3. Slice(f, a, b) = << >> <=> a = b
  <2>1. Slice(f, a, b) \in Seq(T) /\ Len(Slice(f, a, b)) = b - a
    BY <1>1
  <2>2. Slice(f, a, b) # << >> => Len(Slice(f, a, b)) \in Nat \ {0}
    BY <2>1, EmptySeq
  <2>3. Slice(f, a, b) = << >> => Len(Slice(f, a, b)) = 0
    BY EmptySeq
  <2> QED
    BY <2>1, <2>2, <2>3
<1>4. ASSUME a < b
      PROVE  Head(Slice(f, a, b)) = f[a + 1] /\ Tail(Slice(f, a, b)) = Slice(f, a + 1, b)
  <2>1. Head(Slice(f, a, b)) = f[a + 1]
    <3>1. Slice(f, a, b)[1] = f[a + 1]
      BY <1>1, <1>4
    <3> QED BY <3>1
  <2>2. /\ Tail(Slice(f, a, b)) \in Seq(T)
        /\ Len(Tail(Slice(f, a, b))) = b - (a + 1)
        /\ \A k \in 1 .. b - (a + 1) : Tail(Slice(f, a, b))[k] = Slice(f, a, b)[k + 1]
    BY <1>1, <1>3, <1>4, HeadTailProperties
  <2>3. \A k \in 1 .. b - (a + 1) : Slice(f, a, b)[k + 1] = Slice(f, a + 1, b)[k]
    <3> SUFFICES ASSUME NEW k \in 1 .. b - (a + 1)
                 PROVE  Slice(f, a, b)[k + 1] = Slice(f, a + 1, b)[k]
      OBVIOUS
    <3>1. Slice(f, a, b)[k + 1] = f[a + (k + 1)]
      BY <1>1
    <3>2. Slice(f, a + 1, b)[k] = f[(a + 1) + k]
      BY <1>1, <1>4
    <3> QED BY <3>1, <3>2
  <2>4. Slice(f, a + 1, b) \in Seq(T) /\ Len(Slice(f, a + 1, b)) = b - (a + 1)
    <3>1. a + 1 \in Nat /\ a + 1 <= b
      BY <1>4
    <3> QED BY <1>1, <3>1
  <2>5. Tail(Slice(f, a, b)) = Slice(f, a + 1, b)
    BY <2>2, <2>3, <2>4, SeqEqual
  <2> QED
    BY <2>1, <2>5
<1>5. Append(Slice(f, a, b), f[b + 1]) = Slice(f, a, b + 1)
  <2> DEFINE t == Append(Slice(f, a, b), f[b + 1])
  <2>1. /\ t \in Seq(T) /\ Len(t) = b - a + 1
        /\ \A k \in 1 .. b - a : t[k] = f[a + k]
        /\ t[b - a + 1] = f[b + 1]
    <3>1. Slice(f, a, b) \in Seq(T) /\ Len(Slice(f, a, b)) = b - a
      BY <1>1
    <3>2. \A k \in 1 .. b - a : Slice(f, a, b)[k] = f[a + k]
      BY <1>1
    <3> QED BY <1>2, <3>1, <3>2, AppendProperties
  <2>2. /\ Slice(f, a, b + 1) \in Seq(T) /\ Len(Slice(f, a, b + 1)) = b + 1 - a
        /\ \A k \in 1 .. b + 1 - a : Slice(f, a, b + 1)[k] = f[a + k]
    BY <1>1
  <2> HIDE DEF t
  <2>3. \A k \in 1 .. Len(t) : t[k] = Slice(f, a, b + 1)[k]
    <3>1. a + (b - a + 1) = b + 1 /\ Len(t) = b - a + 1
      BY <2>1
    <3> SUFFICES ASSUME NEW k \in 1 .. b - a + 1
                 PROVE  t[k] = Slice(f, a, b + 1)[k]
      BY <3>1
    <3>2. Slice(f, a, b + 1)[k] = f[a + k]
      BY <2>2, b + 1 - a = b - a + 1
    <3>3. CASE k = b - a + 1
      BY <2>1, <3>1, <3>2, <3>3
    <3>4. CASE k \in 1 .. b - a
      BY <2>1, <3>2, <3>4
    <3> QED BY <3>3, <3>4
  <2>4. t = Slice(f, a, b + 1)
    BY <2>1, <2>2, <2>3, SeqEqual
  <2> QED BY <2>4 DEF t
<1> QED
  BY <1>1, <1>3, <1>4, <1>5

(* Two adjacent slices make one.                                           *)
LEMMA Joined ==
    ASSUME NEW f, NEW a \in Nat, NEW b \in Nat, NEW c \in Nat, a <= b, b <= c
    PROVE  Slice(f, a, b) \o Slice(f, b, c) = Slice(f, a, c)
<1> DEFINE T == {f[n] : n \in Nat}
<1>0. ASSUME NEW d \in Nat, NEW e \in Nat, d <= e
      PROVE  /\ Slice(f, d, e) \in Seq(T)
             /\ Len(Slice(f, d, e)) = e - d
             /\ \A k \in 1 .. e - d : Slice(f, d, e)[k] = f[d + k]
  BY <1>0, SliceIs
<1> HIDE DEF T
<1> DEFINE t == Slice(f, a, b) \o Slice(f, b, c)
<1>1. /\ t \in Seq(T) /\ Len(t) = c - a
      /\ \A k \in 1 .. c - a : t[k] = IF k <= b - a THEN Slice(f, a, b)[k] ELSE Slice(f, b, c)[k - (b - a)]
  <2>1. Slice(f, a, b) \in Seq(T) /\ Len(Slice(f, a, b)) = b - a
    BY <1>0
  <2>2. Slice(f, b, c) \in Seq(T) /\ Len(Slice(f, b, c)) = c - b
    BY <1>0
  <2>3. (b - a) + (c - b) = c - a
    OBVIOUS
  <2>4. /\ t \in Seq(T) /\ Len(t) = (b - a) + (c - b)
        /\ \A k \in 1 .. (b - a) + (c - b) :
               t[k] = IF k <= b - a THEN Slice(f, a, b)[k] ELSE Slice(f, b, c)[k - (b - a)]
    <3> DEFINE u == Slice(f, a, b)
               v == Slice(f, b, c)
    <3>1. u \in Seq(T) /\ v \in Seq(T) /\ Len(u) = b - a /\ Len(v) = c - b
      BY <2>1, <2>2
    <3> HIDE DEF u, v
    <3>2. /\ u \o v \in Seq(T) /\ Len(u \o v) = Len(u) + Len(v)
          /\ \A k \in 1 .. Len(u) + Len(v) :
                 (u \o v)[k] = IF k <= Len(u) THEN u[k] ELSE v[k - Len(u)]
      BY <3>1, ConcatProperties
    <3> QED BY <3>1, <3>2 DEF u, v
  <2> QED BY <2>3, <2>4
<1>2. /\ Slice(f, a, c) \in Seq(T) /\ Len(Slice(f, a, c)) = c - a
      /\ \A k \in 1 .. c - a : Slice(f, a, c)[k] = f[a + k]
  BY <1>0
<1>3. ASSUME NEW k \in 1 .. c - a, k > b - a
      PROVE  Slice(f, b, c)[k - (b - a)] = f[a + k]
  <2>1. k - (b - a) \in 1 .. c - b /\ b + (k - (b - a)) = a + k
    BY <1>3
  <2> QED BY <1>0, <2>1
<1> HIDE DEF t
<1>4. \A k \in 1 .. Len(t) : t[k] = Slice(f, a, c)[k]
  <2>1. \A k \in 1 .. c - a : k > b - a \/ k \in 1 .. b - a
    OBVIOUS
  <2>2. \A k \in 1 .. b - a : Slice(f, a, b)[k] = f[a + k]
    BY <1>0
  <2> QED BY <1>1, <1>2, <1>3, <2>1, <2>2
<1>5. t = Slice(f, a, c)
  BY <1>1, <1>2, <1>4, SeqEqual
<1> QED BY <1>5 DEF t

-----------------------------------------------------------------------------
(* The sequential execution.                                               *)

(* It is the one its recursion describes.                                  *)
LEMMA BeforeUnfolds ==
    Before[1] = Start /\ \A c \in Nat \ {0} : Before[c + 1] = After(c, Before[c])
<1> DEFINE Step(f, c) == IF c <= 1 THEN Start ELSE After(c - 1, f[c - 1])
           UpTo(n, g) == \A c \in 1 .. n : g[c] = Step(g, c)
           G(n) == CHOOSE g : UpTo(n, g)
           f == [c \in Nat |-> IF c <= 1 THEN Start ELSE G(c)[c]]
<1>1. \A n \in Nat \ {0} : \E g : UpTo(n, g)
  <2> DEFINE S == {n \in Nat \ {0} : \E g : UpTo(n, g)}
  <2>1. 1 \in S
    <3>1. UpTo(1, [c \in 1 .. 1 |-> Start])
      OBVIOUS
    <3> HIDE DEF UpTo
    <3> QED BY <3>1
  <2>2. ASSUME NEW n \in Nat \ {0}, n \in S
        PROVE  n + 1 \in S
    <3>1. PICK g : UpTo(n, g)
      BY <2>2, Zenon
    <3> DEFINE h == [c \in 1 .. n + 1 |-> IF c = n + 1 THEN After(n, g[n]) ELSE g[c]]
    <3>2. \A c \in 1 .. n : h[c] = g[c]
      OBVIOUS
    <3>3. h[n + 1] = After(n, h[n])
      BY <3>2
    <3>4. ASSUME NEW c \in 1 .. n + 1
          PROVE  h[c] = Step(h, c)
      <4>1. CASE c = n + 1
        BY <3>3, <4>1
      <4>2. CASE c # n + 1
        <5>1. h[c] = g[c] /\ g[c] = Step(g, c)
          BY <3>1, <3>2, <4>2
        <5>2. c > 1 => g[c - 1] = h[c - 1]
          BY <3>2, <4>2
        <5> QED BY <5>1, <5>2
      <4> QED BY <4>1, <4>2
    <3> HIDE DEF h, Step
    <3> QED BY <3>4
  <2> HIDE DEF S
  <2>3. Nat \ {0} \subseteq S
    BY <2>1, <2>2, FromOne
  <2> QED BY <2>3 DEF S
<1>2. \A n \in Nat \ {0} : \A g, h : UpTo(n, g) /\ UpTo(n, h) => g[n] = h[n]
  <2> DEFINE S == {n \in Nat \ {0} : \A g, h : UpTo(n, g) /\ UpTo(n, h) => g[n] = h[n]}
  <2>1. 1 \in S
    OBVIOUS
  <2>2. ASSUME NEW n \in Nat \ {0}, n \in S
        PROVE  n + 1 \in S
    <3> SUFFICES ASSUME NEW g, NEW h, UpTo(n + 1, g), UpTo(n + 1, h)
                 PROVE  g[n + 1] = h[n + 1]
      OBVIOUS
    <3>1. UpTo(n, g) /\ UpTo(n, h)
      <4> HIDE DEF Step
      <4> QED OBVIOUS
    <3>2. g[n] = h[n]
      <4> HIDE DEF UpTo
      <4> QED BY <2>2, <3>1
    <3> QED BY <3>2
  <2> HIDE DEF S
  <2>3. Nat \ {0} \subseteq S
    BY <2>1, <2>2, FromOne
  <2> QED BY <2>3 DEF S
<1>3. \A n \in Nat \ {0} : UpTo(n, G(n))
  <2> HIDE DEF UpTo
  <2> QED BY <1>1
<1>4. ASSUME NEW c \in Nat
      PROVE  f[c] = Step(f, c)
  <2>1. CASE c <= 1
    BY <2>1
  <2>2. CASE c > 1
    <3>1. UpTo(c, G(c)) /\ UpTo(c - 1, G(c - 1))
      <4> HIDE DEF UpTo, G
      <4> QED BY <1>3, <2>2
    <3>2. UpTo(c - 1, G(c))
      <4> HIDE DEF Step, G
      <4> QED BY <3>1, <2>2
    <3>3. G(c)[c - 1] = G(c - 1)[c - 1]
      <4> HIDE DEF UpTo, G
      <4> QED BY <1>2, <2>2, <3>1, <3>2
    <3>4. f[c - 1] = G(c - 1)[c - 1]
      <4>1. c - 1 = 1 => G(c - 1)[c - 1] = Start
        <5> HIDE DEF G
        <5> QED BY <3>1
      <4> HIDE DEF G
      <4> QED BY <2>2, <4>1
    <3>5. G(c)[c] = After(c - 1, G(c)[c - 1])
      <4> HIDE DEF G
      <4> QED BY <3>1, <2>2
    <3> HIDE DEF G
    <3> QED BY <2>2, <3>3, <3>4, <3>5
  <2> QED BY <2>1, <2>2
<1>5. f = [c \in Nat |-> IF c <= 1 THEN Start ELSE After(c - 1, f[c - 1])]
  <2>1. f = [c \in Nat |-> f[c]]
    <3> HIDE DEF G
    <3> QED OBVIOUS
  <2> HIDE DEF f
  <2> QED BY <1>4, <2>1
<1>6. Before = [c \in Nat |-> IF c <= 1 THEN Start ELSE After(c - 1, Before[c - 1])]
  <2> HIDE DEF f
  <2> QED BY <1>5, Zenon DEF Before
<1>7. \A c \in Nat : Before[c] = IF c <= 1 THEN Start ELSE After(c - 1, Before[c - 1])
  <2> HIDE DEF f
  <2> DEFINE F == [c \in Nat |-> IF c <= 1 THEN Start ELSE After(c - 1, Before[c - 1])]
  <2>1. \A c \in Nat : F[c] = IF c <= 1 THEN Start ELSE After(c - 1, Before[c - 1])
    OBVIOUS
  <2> HIDE DEF F
  <2>2. Before = F
    BY <1>6 DEF F
  <2> QED BY <2>1, <2>2
<1>8. ASSUME NEW c \in Nat \ {0}
      PROVE  Before[c + 1] = After(c, Before[c])
  <2> DEFINE d == c + 1
  <2>1. d \in Nat /\ ~ (d <= 1) /\ d - 1 = c
    OBVIOUS
  <2> HIDE DEF d
  <2>2. Before[d] = After(d - 1, Before[d - 1])
    BY <1>7, <2>1
  <2> QED BY <2>1, <2>2 DEF d
<1> QED
  BY <1>7, <1>8

(* What a call changes.                                                    *)
LEMMA Changes ==
    ASSUME NEW c \in Nat \ {0}
    PROVE  /\ StoredAt(c + 1) = IF RefillsAt(c) THEN StoredAt(c) + BatchSize ELSE StoredAt(c)
           /\ \A q \in Parties :
                 UsedAt(q, c + 1) = IF q \in Groups(c) THEN UsedAt(q, c) + 1 ELSE UsedAt(q, c)
           /\ RefilledAt(c + 1) = IF Call(c).kind = "check"
                                  THEN Append(RefilledAt(c), RefillsAt(c)) ELSE RefilledAt(c)
           /\ \A p, q \in Parties :
                 SentAt(p, q, c + 1) = IF RefillsAt(c) THEN SentAt(p, q, c) + 2
                                       ELSE IF {p, q} \subseteq Groups(c) THEN SentAt(p, q, c) + 1
                                       ELSE SentAt(p, q, c)
<1> DEFINE s == Before[c]
<1>1. Before[c + 1] = After(c, s)
  BY BeforeUnfolds
<1> HIDE DEF s
<1>2. /\ After(c, s).stored = IF Refills(c, s) THEN s.stored + BatchSize ELSE s.stored
      /\ \A q \in Parties :
            After(c, s).used[q] = IF q \in Groups(c) THEN s.used[q] + 1 ELSE s.used[q]
      /\ After(c, s).refilled = IF Call(c).kind = "check" THEN Append(s.refilled, Needed(s))
                                ELSE s.refilled
      /\ \A p, q \in Parties :
            After(c, s).sent[p][q] = IF Refills(c, s) THEN s.sent[p][q] + 2
                                     ELSE IF {p, q} \subseteq Groups(c) THEN s.sent[p][q] + 1
                                     ELSE s.sent[p][q]
  BY DEF After
<1>3. Call(c).kind = "check" => (Needed(s) <=> Refills(c, s))
  BY DEF Refills
<1>4. Call(c).kind = "check" => Needed(s) = Refills(c, s)
  BY <1>3 DEF Refills, Needed
<1> QED
  BY <1>1, <1>2, <1>4 DEF s, StoredAt, UsedAt, RefilledAt, SentAt, RefillsAt

(* Nothing has been done before the first call.                            *)
LEMMA AtTheStart ==
    /\ StoredAt(1) = 0 /\ RefilledAt(1) = << >>
    /\ \A q \in Parties : UsedAt(q, 1) = 0
    /\ \A p, q \in Parties : SentAt(p, q, 1) = 0
BY BeforeUnfolds DEF Start, StoredAt, UsedAt, RefilledAt, SentAt

(* The counts are numbers.                                                 *)
LEMMA Counts ==
    ASSUME NEW c \in Nat \ {0}
    PROVE  /\ StoredAt(c) \in Nat /\ RefilledAt(c) \in Seq(BOOLEAN)
           /\ \A q \in Parties : UsedAt(q, c) \in Nat
           /\ \A p, q \in Parties : SentAt(p, q, c) \in Nat /\ SentAt(p, q, c) = SentAt(q, p, c)
<1> DEFINE P(n) == /\ StoredAt(n) \in Nat
                   /\ RefilledAt(n) \in Seq(BOOLEAN)
                   /\ \A q \in Parties : UsedAt(q, n) \in Nat
                   /\ \A p, q \in Parties : SentAt(p, q, n) \in Nat /\ SentAt(p, q, n) = SentAt(q, p, n)
           S == {n \in Nat \ {0} : P(n)}
<1>1. 1 \in S
  <2>1. RefilledAt(1) \in Seq(BOOLEAN)
    BY AtTheStart, EmptySeq
  <2>2. \A p, q \in Parties : SentAt(p, q, 1) = SentAt(q, p, 1)
    BY AtTheStart
  <2> QED BY AtTheStart, <2>1, <2>2
<1>2. ASSUME NEW n \in Nat \ {0}, n \in S
      PROVE  n + 1 \in S
  <2>1. StoredAt(n) \in Nat
    BY <1>2
  <2>2. RefilledAt(n) \in Seq(BOOLEAN)
    BY <1>2
  <2>3. \A q \in Parties : UsedAt(q, n) \in Nat
    BY <1>2
  <2>4. \A p, q \in Parties : SentAt(p, q, n) \in Nat /\ SentAt(p, q, n) = SentAt(q, p, n)
    BY <1>2
  <2>5. StoredAt(n + 1) \in Nat
    BY <2>1, Changes, SizesAssumption
  <2>6. RefilledAt(n + 1) \in Seq(BOOLEAN)
    <3> DEFINE s == RefilledAt(n)
               b == RefillsAt(n)
    <3>1. s \in Seq(BOOLEAN) /\ b \in BOOLEAN
      BY <2>2 DEF RefillsAt, Refills, Needed
    <3>2. RefilledAt(n + 1) = IF Call(n).kind = "check" THEN Append(s, b) ELSE s
      BY Changes
    <3> HIDE DEF s, b
    <3>3. Append(s, b) \in Seq(BOOLEAN)
      BY <3>1, AppendProperties
    <3> QED BY <3>1, <3>2, <3>3
  <2>7. \A q \in Parties : UsedAt(q, n + 1) \in Nat
    BY <2>3, Changes
  <2>8. \A p, q \in Parties :
            SentAt(p, q, n + 1) \in Nat /\ SentAt(p, q, n + 1) = SentAt(q, p, n + 1)
    BY <2>4, Changes
  <2> QED BY <2>5, <2>6, <2>7, <2>8
<1> HIDE DEF S
<1>3. c \in S
  BY <1>1, <1>2, FromOne
<1> QED
  BY <1>3 DEF S

(* The place of a call in its round: 0 for the refill, then the groups in  *)
(* order; the setup ends with one more call.                               *)
Phase(c) == IF c <= Setup THEN c - 1 ELSE (c - Setup - 1) % Round

(* What call there is in each place, and which place comes next.           *)
LEMMA Calls ==
    ASSUME NEW c \in Nat \ {0}
    PROVE  /\ Phase(c) \in 0 .. NumParties + 1
           /\ Phase(c) = 0 => /\ Call(c).kind = IF c = 1 THEN "repopulate" ELSE "check"
                              /\ Groups(c) = {}
           /\ Phase(c) # 0 => /\ Call(c).kind = "open"
                              /\ Groups(c) = IF Phase(c) <= NumParties
                                             THEN Parties \ {NumParties - Phase(c)} ELSE Parties
           /\ Phase(c) = NumParties + 1 <=> c = Setup
           /\ Phase(c + 1) = IF Phase(c) < NumParties \/ c < Setup THEN Phase(c) + 1 ELSE 0
           /\ Setup = NumParties + 2
<1>1. /\ Len(GroupList) = NumParties
      /\ \A k \in 1 .. NumParties : GroupList[k] = Parties \ {NumParties - k}
  BY PartiesAssumption DEF GroupList
<1>2. Round = NumParties + 1 /\ Setup = NumParties + 2
  BY <1>1 DEF Round, Setup
<1> DEFINE x == c - Setup - 1
<1>3. ASSUME c > Setup
      PROVE  /\ x \in Nat /\ Round > 1 /\ Round \in Nat
             /\ x % Round \in 0 .. Round - 1
             /\ x % Round < Round - 1 => (x + 1) % Round = (x % Round) + 1
             /\ x % Round = Round - 1 => (x + 1) % Round = 0
  <2>1. x \in Nat /\ Round > 1 /\ Round \in Nat
    BY <1>2, <1>3, PartiesAssumption
  <2> HIDE DEF x
  <2> QED BY <2>1, NextRemainder
<1>4. CASE c < Setup
  <2>1. Phase(c) = c - 1 /\ Phase(c + 1) = c /\ Phase(c) \in 0 .. NumParties
    BY <1>2, <1>4, PartiesAssumption DEF Phase
  <2>2. c = 1 => Call(c) = Repopulate
    BY <1>2, <1>4, PartiesAssumption DEF Call
  <2>3. c # 1 => Call(c) = OpenTo(GroupList[c - 1])
    BY <1>2, <1>4, PartiesAssumption DEF Call
  <2>4. CASE c = 1
    BY <1>2, <1>4, <2>1, <2>2, <2>4, PartiesAssumption DEF Groups, Repopulate
  <2>5. CASE c # 1
    BY <1>1, <1>2, <1>4, <2>1, <2>3, <2>5, PartiesAssumption DEF Groups, OpenTo
  <2> QED BY <2>4, <2>5
<1>5. CASE c = Setup
  <2>1. 0 % Round = 0
    BY <1>2, PartiesAssumption, NextRemainder
  <2>2. Phase(c) = NumParties + 1 /\ Phase(c + 1) = 0
    BY <1>2, <1>5, <2>1, PartiesAssumption DEF Phase
  <2>3. Call(c) = OpenTo(Parties)
    BY <1>2, <1>5, PartiesAssumption DEF Call
  <2> QED
    BY <1>2, <1>5, <2>2, <2>3, PartiesAssumption DEF Groups, OpenTo
<1>6. CASE c > Setup
  <2> DEFINE k == x % Round
  <2>1. Phase(c) = k /\ k \in 0 .. NumParties
    <3>1. Phase(c) = k
      BY <1>2, <1>6, PartiesAssumption DEF Phase
    <3> QED BY <1>2, <1>3, <1>6, <3>1, PartiesAssumption
  <2>2. Call(c) = IF k = 0 THEN RefillIfLow ELSE OpenTo(GroupList[k])
    BY <1>2, <1>6, PartiesAssumption DEF Call
  <2>3. Phase(c + 1) = (x + 1) % Round
    <3> DEFINE d == c + 1
               y == d - Setup - 1
    <3>1. y = x + 1 /\ ~ (d <= Setup)
      BY <1>2, <1>6, PartiesAssumption
    <3>2. Phase(d) = y % Round
      <4> HIDE DEF d
      <4> QED BY <3>1 DEF Phase
    <3> HIDE DEF y
    <3> QED BY <3>1, <3>2
  <2>4. Phase(c + 1) = IF k < NumParties THEN k + 1 ELSE 0
    BY <1>2, <1>3, <1>6, <2>1, <2>3, PartiesAssumption
  <2> HIDE DEF k
  <2>5. CASE k = 0
    BY <1>2, <1>6, <2>1, <2>2, <2>4, <2>5, PartiesAssumption DEF Groups, RefillIfLow
  <2>6. CASE k # 0
    BY <1>1, <1>2, <1>6, <2>1, <2>2, <2>4, <2>6, PartiesAssumption DEF Groups, OpenTo
  <2> QED
    BY <2>5, <2>6
<1> QED
  BY <1>2, <1>4, <1>5, <1>6, PartiesAssumption

(* Every round uses the same number of seeds of every party, and what is   *)
(* stored when it begins lasts until it ends: Turn counts the seeds of a   *)
(* party that the calls before a place of the round opened, Reserve those  *)
(* the round may open in all.                                              *)
Turn(q, k) == IF k = 0 THEN 0 ELSE IF NumParties - q < k THEN k - 2 ELSE k - 1
Reserve(c) ==
    IF c = 1 THEN 0 ELSE IF c <= Setup THEN NumParties
    ELSE IF Phase(c) = 0 THEN 0 ELSE NumParties - 1
InRound(c, base) ==
    /\ \A q \in Parties : UsedAt(q, c) = base + Turn(q, Phase(c))
    /\ base + Reserve(c) <= StoredAt(c)
    /\ c <= Setup => base = 0

(* Each call is in a round that began with as many seeds of every party.   *)
LEMMA Rounds ==
    ASSUME NEW c \in Nat \ {0}
    PROVE  \E base \in Nat : InRound(c, base)
<1> DEFINE S == {n \in Nat \ {0} : \E base \in Nat : InRound(n, base)}
<1>1. 1 \in S
  <2>1. Phase(1) = 0
    BY Calls, PartiesAssumption DEF Phase
  <2>2. InRound(1, 0)
    BY <2>1, AtTheStart DEF InRound, Turn, Reserve
  <2> QED BY <2>2
<1>2. ASSUME NEW n \in Nat \ {0}, n \in S
      PROVE  n + 1 \in S
  <2>1. PICK base \in Nat : InRound(n, base)
    BY <1>2
  <2> DEFINE k == Phase(n)
             stored == StoredAt(n)
             next == Phase(n + 1)
  <2>2. /\ k \in 0 .. NumParties + 1
        /\ k = 0 => Groups(n) = {}
        /\ k # 0 => Groups(n) = IF k <= NumParties THEN Parties \ {NumParties - k} ELSE Parties
        /\ k = NumParties + 1 <=> n = Setup
        /\ next = IF k < NumParties \/ n < Setup THEN k + 1 ELSE 0
        /\ Setup = NumParties + 2
        /\ n <= Setup => k = n - 1
    BY Calls DEF Phase
  <2>3. /\ \A q \in Parties : UsedAt(q, n) = base + Turn(q, k)
        /\ base + Reserve(n) <= stored /\ stored \in Nat
        /\ n <= Setup => base = 0
    BY <2>1, Counts DEF InRound
  <2>4. /\ StoredAt(n + 1) = IF RefillsAt(n) THEN stored + BatchSize ELSE stored
        /\ \A q \in Parties :
              UsedAt(q, n + 1) = IF q \in Groups(n) THEN UsedAt(q, n) + 1 ELSE UsedAt(q, n)
    BY Changes
  <2>5. k = 0 => Call(n).kind = IF n = 1 THEN "repopulate" ELSE "check"
    BY Calls
  <2>6. /\ n = 1 => RefillsAt(n)
        /\ k = 0 => RefillsAt(n) \/ ~ (stored - UsedAt(0, n) < Threshold)
    <3>1. n = 1 => k = 0
      BY <2>2, PartiesAssumption
    <3> QED BY <2>5, <3>1 DEF RefillsAt, Refills, Needed, UsedAt, StoredAt
  <2>7. 0 \in Parties /\ \A q \in Parties : q \in Nat /\ q < NumParties
    BY PartiesAssumption DEF Parties
  <2> HIDE DEF k, stored, next
  <2>8. CASE n <= Setup /\ n # Setup
    BY <2>2, <2>3, <2>4, <2>5, <2>6, <2>7, <2>8, PartiesAssumption, SizesAssumption,
       EnoughAssumption DEF InRound, Turn, Reserve, next
  <2>9. CASE n = Setup
    BY <2>2, <2>3, <2>4, <2>5, <2>6, <2>7, <2>9, PartiesAssumption, SizesAssumption,
       EnoughAssumption DEF InRound, Turn, Reserve, next
  <2>10. CASE n > Setup /\ k = 0
    <3>1. next = 1 /\ Reserve(n + 1) = NumParties - 1 /\ Reserve(n) = 0
      BY <2>2, <2>10, PartiesAssumption DEF Reserve, k, next
    <3>2. \A q \in Parties : Turn(q, next) = 0 /\ Turn(q, k) = 0
      BY <2>7, <2>10, <3>1, PartiesAssumption DEF Turn
    <3>3. \A q \in Parties : UsedAt(q, n) = base /\ UsedAt(q, n + 1) = base
      BY <2>2, <2>3, <2>4, <2>10, <3>2
    <3>4. base + (NumParties - 1) <= StoredAt(n + 1)
      BY <2>3, <2>4, <2>6, <2>7, <2>10, <3>1, <3>3, PartiesAssumption, SizesAssumption, EnoughAssumption
    <3> QED BY <2>2, <2>10, <3>1, <3>2, <3>3, <3>4, PartiesAssumption DEF InRound, next
  <2>11. CASE n > Setup /\ k # 0
    <3>1. StoredAt(n + 1) = stored /\ Reserve(n) = NumParties - 1 /\ k \in 1 .. NumParties
      <4>1. ~ RefillsAt(n)
        BY <2>11, Calls DEF RefillsAt, Refills, k
      <4> QED BY <2>2, <2>4, <2>11, <4>1, PartiesAssumption DEF Reserve, k
    <3>2. \A q \in Parties : q \in Groups(n) <=> NumParties - q # k
      BY <2>2, <2>7, <3>1, PartiesAssumption
    <3>3. CASE k < NumParties
      <4>1. next = k + 1 /\ Reserve(n + 1) = NumParties - 1
        BY <2>2, <2>11, <3>1, <3>3, PartiesAssumption DEF Reserve, next
      <4>2. \A q \in Parties : UsedAt(q, n + 1) = base + Turn(q, next)
        BY <2>3, <2>4, <2>7, <3>1, <3>2, <3>3, <4>1, PartiesAssumption DEF Turn
      <4> QED BY <2>2, <2>3, <2>11, <3>1, <4>1, <4>2, PartiesAssumption DEF InRound, next
    <3>4. CASE k = NumParties
      <4>1. next = 0 /\ Reserve(n + 1) = 0
        BY <2>2, <2>11, <3>1, <3>4, PartiesAssumption DEF Reserve, next
      <4>2. \A q \in Parties : UsedAt(q, n + 1) = base + (NumParties - 1) + Turn(q, next)
        BY <2>3, <2>4, <2>7, <3>1, <3>2, <3>4, <4>1, PartiesAssumption DEF Turn
      <4>3. InRound(n + 1, base + (NumParties - 1))
        BY <2>2, <2>3, <2>11, <3>1, <4>1, <4>2, PartiesAssumption DEF InRound, next
      <4> QED BY <4>3, PartiesAssumption
    <3> QED BY <3>1, <3>3, <3>4, PartiesAssumption
  <2> QED BY <2>2, <2>8, <2>9, <2>10, <2>11, PartiesAssumption
<1> HIDE DEF S
<1>3. c \in S
  BY <1>1, <1>2, FromOne
<1> QED
  BY <1>3 DEF S

(* A seed of every party is there when it is to be opened, and the parties *)
(* are even when a check looks at the queues.                              *)
LEMMA Enough ==
    ASSUME NEW c \in Nat \ {0}, NEW q \in Parties
    PROVE  /\ UsedAt(q, c) <= StoredAt(c)
           /\ q \in Groups(c) => UsedAt(q, c) < StoredAt(c)
           /\ Call(c).kind = "check" => UsedAt(q, c) = UsedAt(0, c)
<1>1. PICK base \in Nat : InRound(c, base)
  BY Rounds
<1>2. q \in Nat /\ q < NumParties /\ 0 \in Parties
  BY PartiesAssumption DEF Parties
<1>3. /\ UsedAt(q, c) = base + Turn(q, Phase(c))
      /\ UsedAt(0, c) = base + Turn(0, Phase(c))
      /\ base + Reserve(c) <= StoredAt(c) /\ StoredAt(c) \in Nat
      /\ c <= Setup => base = 0
  BY <1>1, <1>2, Counts DEF InRound
<1>4. /\ Phase(c) \in 0 .. NumParties + 1
      /\ Phase(c) = NumParties + 1 <=> c = Setup
      /\ Setup = NumParties + 2
      /\ c <= Setup => Phase(c) = c - 1
  BY Calls DEF Phase
<1>5. CASE Phase(c) = 0
  BY <1>2, <1>3, <1>4, <1>5, Calls, PartiesAssumption DEF Turn, Reserve
<1>6. CASE Phase(c) # 0
  <2>1. /\ Call(c).kind = "open"
        /\ Groups(c) = IF Phase(c) <= NumParties THEN Parties \ {NumParties - Phase(c)} ELSE Parties
    BY <1>6, Calls
  <2> DEFINE k == Phase(c)
  <2> HIDE DEF k
  <2>2. base + (NumParties - 1) <= StoredAt(c) /\ (c <= Setup => NumParties <= StoredAt(c))
    BY <1>3, <1>4, <1>6, PartiesAssumption DEF Reserve
  <2>3. k \in 1 .. NumParties + 1 /\ (k = NumParties + 1 => c <= Setup)
    BY <1>4, <1>6, PartiesAssumption DEF k
  <2>4. UsedAt(q, c) = base + Turn(q, k) /\ (c <= Setup => base = 0)
    BY <1>3 DEF k
  <2>5. q \in Groups(c) => k = NumParties + 1 \/ NumParties - q # k
    BY <1>2, <1>4, <2>1, <2>3, PartiesAssumption DEF k
  <2>6. Turn(q, k) <= NumParties - 1 /\ Turn(q, k) \in Int
    BY <1>2, <2>3, PartiesAssumption DEF Turn
  <2>7. k <= NumParties /\ NumParties - q # k => Turn(q, k) < NumParties - 1
    BY <1>2, <2>3, PartiesAssumption DEF Turn
  <2> QED
    BY <1>2, <1>3, <2>1, <2>2, <2>3, <2>4, <2>5, <2>6, <2>7, PartiesAssumption
<1> QED
  BY <1>5, <1>6

(* The counts never fall, and seeds are stored only with two messages to   *)
(* everybody.                                                              *)
LEMMA Growth ==
    ASSUME NEW a \in Nat \ {0}, NEW b \in Nat \ {0}, a <= b
    PROVE  /\ StoredAt(a) <= StoredAt(b)
           /\ \A q \in Parties : UsedAt(q, a) <= UsedAt(q, b)
           /\ \A p, q \in Parties : SentAt(p, q, a) <= SentAt(p, q, b)
           /\ \A p, q \in Parties : SentAt(p, q, a) = SentAt(p, q, b) => StoredAt(a) = StoredAt(b)
           /\ Len(RefilledAt(a)) <= Len(RefilledAt(b))
           /\ \A k \in 1 .. Len(RefilledAt(a)) : RefilledAt(b)[k] = RefilledAt(a)[k]
<1> DEFINE Grown(n) ==
           /\ StoredAt(a) <= StoredAt(n)
           /\ \A q \in Parties : UsedAt(q, a) <= UsedAt(q, n)
           /\ \A p, q \in Parties : SentAt(p, q, a) <= SentAt(p, q, n)
           /\ \A p, q \in Parties : SentAt(p, q, a) = SentAt(p, q, n) => StoredAt(a) = StoredAt(n)
           /\ Len(RefilledAt(a)) <= Len(RefilledAt(n))
           /\ \A k \in 1 .. Len(RefilledAt(a)) : RefilledAt(n)[k] = RefilledAt(a)[k]
           S == {n \in Nat \ {0} : a <= n => Grown(n)}
<1>1. 1 \in S
  <2>1. Grown(a)
    BY Counts
  <2> HIDE DEF Grown
  <2>2. a <= 1 => a = 1
    OBVIOUS
  <2> QED BY <2>1, <2>2
<1>2. ASSUME NEW n \in Nat \ {0}, n \in S
      PROVE  n + 1 \in S
  <2> SUFFICES ASSUME a <= n + 1
               PROVE  Grown(n + 1)
    OBVIOUS
  <2>1. CASE a = n + 1
    BY <2>1, Counts
  <2>2. CASE a <= n
    <3>1. /\ StoredAt(a) <= StoredAt(n)
          /\ \A q \in Parties : UsedAt(q, a) <= UsedAt(q, n)
          /\ \A p, q \in Parties : SentAt(p, q, a) <= SentAt(p, q, n)
          /\ \A p, q \in Parties : SentAt(p, q, a) = SentAt(p, q, n) => StoredAt(a) = StoredAt(n)
      BY <1>2, <2>2
    <3>2. StoredAt(a) \in Nat /\ StoredAt(n) \in Nat /\ StoredAt(n + 1) \in Nat
      BY Counts
    <3>3. \A q \in Parties : UsedAt(q, a) \in Nat /\ UsedAt(q, n) \in Nat
      BY Counts
    <3>4. \A p, q \in Parties : SentAt(p, q, a) \in Nat /\ SentAt(p, q, n) \in Nat
      BY Counts
    <3>5. StoredAt(a) <= StoredAt(n + 1)
      BY <3>1, <3>2, Changes, SizesAssumption
    <3>6. \A q \in Parties : UsedAt(q, a) <= UsedAt(q, n + 1)
      BY <3>1, <3>3, Changes
    <3>7. ASSUME NEW p \in Parties, NEW q \in Parties
          PROVE  /\ SentAt(p, q, a) <= SentAt(p, q, n + 1)
                 /\ SentAt(p, q, a) = SentAt(p, q, n + 1) => StoredAt(a) = StoredAt(n + 1)
      <4>1. SentAt(p, q, n + 1) = IF RefillsAt(n) THEN SentAt(p, q, n) + 2
                                  ELSE IF {p, q} \subseteq Groups(n) THEN SentAt(p, q, n) + 1
                                  ELSE SentAt(p, q, n)
        BY Changes
      <4>2. StoredAt(n + 1) = IF RefillsAt(n) THEN StoredAt(n) + BatchSize ELSE StoredAt(n)
        BY Changes
      <4> QED BY <3>1, <3>2, <3>4, <4>1, <4>2
    <3>8. /\ Len(RefilledAt(a)) <= Len(RefilledAt(n + 1))
          /\ \A k \in 1 .. Len(RefilledAt(a)) : RefilledAt(n + 1)[k] = RefilledAt(a)[k]
      <4> DEFINE r == RefilledAt(a)
                 s == RefilledAt(n)
                 t == RefilledAt(n + 1)
                 d == RefillsAt(n)
      <4>1. /\ r \in Seq(BOOLEAN) /\ s \in Seq(BOOLEAN) /\ d \in BOOLEAN
            /\ t = IF Call(n).kind = "check" THEN Append(s, d) ELSE s
            /\ Len(r) <= Len(s) /\ \A k \in 1 .. Len(r) : s[k] = r[k]
        BY <1>2, <2>2, Counts, Changes DEF RefillsAt, Refills, Needed
      <4> HIDE DEF r, s, t, d
      <4>2. Len(Append(s, d)) = Len(s) + 1 /\ \A k \in 1 .. Len(s) : Append(s, d)[k] = s[k]
        BY <4>1, AppendProperties
      <4>3. Len(r) \in Nat /\ Len(s) \in Nat
        BY <4>1, LenProperties
      <4>4. Len(r) <= Len(t) /\ \A k \in 1 .. Len(r) : t[k] = r[k]
        BY <4>1, <4>2, <4>3
      <4> QED BY <4>4 DEF r, t
    <3> QED BY <3>5, <3>6, <3>7, <3>8
  <2> QED BY <2>1, <2>2
<1> HIDE DEF S
<1>3. b \in S
  BY <1>1, <1>2, FromOne
<1> QED
  BY <1>3 DEF S

(* The messages of a call are those between its counts.                    *)
LEMMA MessageIs ==
    ASSUME NEW p \in Parties, NEW q \in Parties, NEW c \in 1 .. NumCalls,
           NEW n \in SentAt(p, q, c) + 1 .. SentAt(p, q, c + 1)
    PROVE  Messages(p, q)[n] = Message(p, c, n - SentAt(p, q, c))
<1>1. c \in Nat \ {0} /\ SentAt(p, q, c) \in Nat /\ SentAt(p, q, c + 1) \in Nat
  BY Counts
<1>2. n \in Nat
  BY <1>1
<1> DEFINE d == CallOf(p, q, n)
<1>3. d \in 1 .. NumCalls /\ n \in SentAt(p, q, d) + 1 .. SentAt(p, q, d + 1)
  BY DEF CallOf
<1> HIDE DEF d
<1>4. d \in Nat \ {0} /\ SentAt(p, q, d) \in Nat /\ SentAt(p, q, d + 1) \in Nat
  <2>1. d \in Nat \ {0} /\ d + 1 \in Nat \ {0}
    BY <1>3
  <2> QED BY <2>1, Counts
<1>5. d = c
  <2>1. CASE d < c
    <3>1. d + 1 <= c /\ d + 1 \in Nat \ {0}
      BY <1>1, <1>4, <2>1
    <3>2. SentAt(p, q, d + 1) <= SentAt(p, q, c)
      BY <1>1, <3>1, Growth
    <3> QED BY <1>1, <1>3, <1>4, <3>2
  <2>2. CASE c < d
    <3>1. c + 1 <= d /\ c + 1 \in Nat \ {0}
      BY <1>1, <1>4, <2>2
    <3>2. SentAt(p, q, c + 1) <= SentAt(p, q, d)
      BY <1>4, <3>1, Growth
    <3> QED BY <1>1, <1>3, <1>4, <3>2
  <2> QED BY <1>1, <1>4, <2>1, <2>2
<1> QED
  BY <1>2, <1>5 DEF Messages, d

(* There are finitely many calls.                                          *)
LEMMA NumbersOfCalls == NumCalls \in Nat /\ Setup \in Nat
<1>1. Setup = NumParties + 2 /\ Round = NumParties + 1
  BY PartiesAssumption DEF Setup, Round, GroupList
<1>2. Checks * Round \in Nat
  BY <1>1, PartiesAssumption, SizesAssumption
<1> QED
  BY <1>1, <1>2, PartiesAssumption DEF NumCalls

-----------------------------------------------------------------------------
(* The invariant is kept.                                                  *)

Moves(p, c, m) == at' = [at EXCEPT ![p] = c] /\ mode' = [mode EXCEPT ![p] = m]

(* A party that moves to another point of its calls takes along what is    *)
(* its own.                                                                *)
LEMMA LocalKept ==
    ASSUME InCalls, Local, NEW p \in Parties, NEW c, NEW m,
           Moves(p, c, m),
           generated' = [generated EXCEPT ![p] = GeneratedIn(c, m)],
           localSeeds' = [localSeeds EXCEPT ![p] = SeedsIn(p, c, m)],
           commitments' = [commitments EXCEPT ![p] = HeldIn(p, c, m)],
           prg' = [prg EXCEPT ![p] = GeneratorsIn(p, c, m)],
           refilled' = [refilled EXCEPT ![p] = RefilledIn(c, m)],
           failed' = failed
    PROVE  Local'
<1>1. \A o \in Parties : /\ at'[o] = IF o = p THEN c ELSE at[o]
                         /\ mode'[o] = IF o = p THEN m ELSE mode[o]
  BY DEF InCalls, Moves
<1>2. generated' = [o \in Parties |-> GeneratedIn(at'[o], mode'[o])]
  BY <1>1 DEF Local
<1>3. localSeeds' = [o \in Parties |-> SeedsIn(o, at'[o], mode'[o])]
  BY <1>1 DEF Local
<1>4. commitments' = [o \in Parties |-> HeldIn(o, at'[o], mode'[o])]
  BY <1>1 DEF Local
<1>5. prg' = [o \in Parties |-> GeneratorsIn(o, at'[o], mode'[o])]
  BY <1>1 DEF Local
<1>6. refilled' = [o \in Parties |-> RefilledIn(at'[o], mode'[o])]
  BY <1>1 DEF Local
<1> QED
  BY <1>2, <1>3, <1>4, <1>5, <1>6 DEF Local

(* The channels follow it.                                                 *)
MovedTo(p, c, m) ==
    [o \in Parties |-> [q \in Parties |->
        IF o = q THEN << >>
        ELSE IF o = p THEN Slice(Messages(p, q), ReceivedNow(q, p), SentIn(p, q, c, m))
        ELSE IF q = p THEN Slice(Messages(o, p), ReceivedIn(p, o, c, m), SentNow(o, p))
        ELSE channel[o][q]]]

(* The messages in transit are still those between the points of the two   *)
(* parties when the channels follow the party that moved.                  *)
LEMMA InTransitKept ==
    ASSUME InCalls, InTransit, NEW p \in Parties, NEW c, NEW m,
           Moves(p, c, m),
           channel' = MovedTo(p, c, m),
           \A q \in Others(p) : /\ ReceivedNow(q, p) <= SentIn(p, q, c, m)
                                /\ ReceivedIn(p, q, c, m) <= SentNow(q, p)
    PROVE  InTransit'
<1>1. \A o \in Parties : /\ at'[o] = IF o = p THEN c ELSE at[o]
                         /\ mode'[o] = IF o = p THEN m ELSE mode[o]
  BY DEF InCalls, Moves
<1>2. \A o, q \in Parties :
          /\ SentNow(o, q)' = IF o = p THEN SentIn(p, q, c, m) ELSE SentNow(o, q)
          /\ ReceivedNow(o, q)' = IF o = p THEN ReceivedIn(p, q, c, m) ELSE ReceivedNow(o, q)
  BY <1>1 DEF SentNow, ReceivedNow
<1>3. channel' = [o \in Parties |-> [q \in Parties |-> IF o = q THEN << >> ELSE
           Slice(Messages(o, q), ReceivedNow(q, o)', SentNow(o, q)')]]
  BY <1>2 DEF MovedTo, InTransit
<1>4. \A o \in Parties : \A q \in Others(o) : ReceivedNow(q, o)' <= SentNow(o, q)'
  BY <1>2 DEF InTransit, Others
<1> QED
  BY <1>3, <1>4 DEF InTransit

(* The next message a party has from another, and what receiving it and    *)
(* sending one do to the channel.                                          *)
LEMMA Receiving ==
    ASSUME InCalls, InTransit, NEW p \in Parties, NEW q \in Others(p)
    PROVE  /\ ReceivedNow(p, q) \in Nat /\ SentNow(q, p) \in Nat
           /\ channel[q][p] = Slice(Messages(q, p), ReceivedNow(p, q), SentNow(q, p))
           /\ channel[q][p] # << >> =>
                 /\ ReceivedNow(p, q) + 1 <= SentNow(q, p)
                 /\ Received(p, q) = Messages(q, p)[ReceivedNow(p, q) + 1]
                 /\ Tail(channel[q][p]) = Slice(Messages(q, p), ReceivedNow(p, q) + 1, SentNow(q, p))
<1>1. q \in Parties /\ q # p
  BY DEF Others
<1>2. /\ channel[q][p] = Slice(Messages(q, p), ReceivedNow(p, q), SentNow(q, p))
      /\ ReceivedNow(p, q) <= SentNow(q, p)
  BY <1>1 DEF InTransit, Others
<1>3. \A o, r \in Parties : /\ SentAt(o, r, at[o]) \in Nat /\ SentAt(o, r, at[o] + 1) \in Nat
  <2>1. \A o \in Parties : at[o] \in Nat \ {0} /\ at[o] + 1 \in Nat \ {0}
    BY NumbersOfCalls DEF InCalls
  <2> QED BY <2>1, Counts
<1>4. ReceivedNow(p, q) \in Nat /\ SentNow(q, p) \in Nat
  BY <1>1, <1>3 DEF ReceivedNow, ReceivedIn, SentNow, SentIn, InCalls
<1> DEFINE a == ReceivedNow(p, q)
           b == SentNow(q, p)
           f == Messages(q, p)
<1>5. a \in Nat /\ b \in Nat /\ a <= b /\ channel[q][p] = Slice(f, a, b)
  BY <1>2, <1>4
<1> HIDE DEF a, b, f
<1>6. channel[q][p] # << >> => a < b
  <2>1. Slice(f, a, b) = << >> <=> a = b
    BY <1>5, Slices, Zenon
  <2> QED BY <1>5, <2>1
<1>7. a < b => /\ Head(Slice(f, a, b)) = f[a + 1]
               /\ Tail(Slice(f, a, b)) = Slice(f, a + 1, b)
  BY <1>5, Slices, Zenon
<1> QED
  BY <1>5, <1>6, <1>7 DEF a, b, f, Received

(* The messages in transit to a peer, with the next one a party sends it.  *)
LEMMA Sending ==
    ASSUME InCalls, InTransit, NEW p \in Parties, NEW q \in Others(p)
    PROVE  /\ ReceivedNow(q, p) \in Nat /\ SentNow(p, q) \in Nat
           /\ ReceivedNow(q, p) <= SentNow(p, q)
           /\ Append(channel[p][q], Messages(p, q)[SentNow(p, q) + 1])
              = Slice(Messages(p, q), ReceivedNow(q, p), SentNow(p, q) + 1)
<1>1. q \in Parties /\ p \in Others(q)
  BY DEF Others
<1>2. /\ ReceivedNow(q, p) \in Nat /\ SentNow(p, q) \in Nat
      /\ channel[p][q] = Slice(Messages(p, q), ReceivedNow(q, p), SentNow(p, q))
  BY <1>1, Receiving
<1>3. ReceivedNow(q, p) <= SentNow(p, q)
  BY DEF InTransit
<1> DEFINE a == ReceivedNow(q, p)
           b == SentNow(p, q)
           f == Messages(p, q)
<1>4. a \in Nat /\ b \in Nat /\ a <= b /\ channel[p][q] = Slice(f, a, b)
  BY <1>2, <1>3
<1> HIDE DEF a, b, f
<1>5. Append(Slice(f, a, b), f[b + 1]) = Slice(f, a, b + 1)
  BY <1>4, Slices
<1> QED
  BY <1>4, <1>5 DEF a, b, f

(* An exchange: one message to each of some peers, one from each of some.  *)
Exchanged(p, to, from, message) ==
    [o \in Parties |-> [q \in Parties |->
        IF o = p THEN IF q \in to THEN Append(channel[p][q], message) ELSE channel[p][q]
        ELSE IF q = p /\ o \in from THEN Tail(channel[o][p]) ELSE channel[o][q]]]

(* A party that exchanges the messages that lie between two of its points  *)
(* keeps the messages in transit in step.                                  *)
LEMMA Exchanges ==
    ASSUME InCalls, InTransit, NEW p \in Parties, NEW c, NEW m,
           Moves(p, c, m),
           NEW to \in SUBSET Others(p), NEW from \in SUBSET Others(p), NEW message,
           Arrived(p, from),
           channel' = Exchanged(p, to, from, message),
           \A q \in to : message = Messages(p, q)[SentNow(p, q) + 1],
           \A q \in Others(p) :
               /\ SentIn(p, q, c, m) = IF q \in to THEN SentNow(p, q) + 1 ELSE SentNow(p, q)
               /\ ReceivedIn(p, q, c, m) = IF q \in from THEN ReceivedNow(p, q) + 1
                                           ELSE ReceivedNow(p, q)
    PROVE  InTransit'
<1>1. p \notin to /\ p \notin from /\ channel[p][p] = << >>
  BY DEF Others, InTransit
<1>2. \A q \in Others(p) :
          (IF q \in to THEN Append(channel[p][q], message) ELSE channel[p][q])
          = Slice(Messages(p, q), ReceivedNow(q, p), SentIn(p, q, c, m))
  <2> SUFFICES ASSUME NEW q \in Others(p)
               PROVE  (IF q \in to THEN Append(channel[p][q], message) ELSE channel[p][q])
                      = Slice(Messages(p, q), ReceivedNow(q, p), SentIn(p, q, c, m))
    OBVIOUS
  <2>1. channel[p][q] = Slice(Messages(p, q), ReceivedNow(q, p), SentNow(p, q))
    BY DEF Others, InTransit
  <2> QED BY <2>1, Sending
<1>3. \A o \in Others(p) :
          (IF o \in from THEN Tail(channel[o][p]) ELSE channel[o][p])
          = Slice(Messages(o, p), ReceivedIn(p, o, c, m), SentNow(o, p))
  BY Receiving DEF Arrived
<1>4. channel' = MovedTo(p, c, m)
  <2>1. \A o \in Parties : o = p \/ o \in Others(p)
    BY DEF Others
  <2>2. \A o \in Parties : channel[o][o] = << >>
    BY DEF InTransit
  <2> QED BY <1>1, <1>2, <1>3, <2>1, <2>2 DEF MovedTo, Exchanged
<1>5. \A q \in Others(p) : ReceivedNow(q, p) <= SentIn(p, q, c, m)
  BY Sending
<1>6. \A q \in Others(p) : ReceivedIn(p, q, c, m) <= SentNow(q, p)
  <2> SUFFICES ASSUME NEW q \in Others(p)
               PROVE  ReceivedIn(p, q, c, m) <= SentNow(q, p)
    OBVIOUS
  <2>1. ReceivedNow(p, q) <= SentNow(q, p)
    BY DEF InTransit, Others
  <2> QED BY <2>1, Receiving DEF Arrived
<1> QED
  BY <1>4, <1>5, <1>6, InTransitKept

(* Where a party is.                                                       *)
LEMMA InCallsKept ==
    ASSUME InCalls, NEW p \in Parties, NEW c \in 1 .. NumCalls + 1,
           NEW m \in {"ready", "refill", "committed", "stored", "opened"}, Fits(p, c, m),
           Moves(p, c, m)
    PROVE  InCalls'
<1>1. \A o \in Parties : /\ at'[o] = IF o = p THEN c ELSE at[o]
                         /\ mode'[o] = IF o = p THEN m ELSE mode[o]
  BY DEF InCalls, Moves
<1> QED
  BY <1>1 DEF InCalls, Moves

(* What the invariant says of one party.                                   *)
LEMMA Has ==
    ASSUME IInv, NEW p \in Parties
    PROVE  /\ at[p] \in 1 .. NumCalls + 1 /\ at[p] \in Nat \ {0}
           /\ Fits(p, at[p], mode[p])
           /\ generated[p] = GeneratedIn(at[p], mode[p])
           /\ localSeeds[p] = SeedsIn(p, at[p], mode[p])
           /\ commitments[p] = HeldIn(p, at[p], mode[p])
           /\ prg[p] = GeneratorsIn(p, at[p], mode[p])
           /\ refilled[p] = RefilledIn(at[p], mode[p])
           /\ ~failed[p]
           /\ ~Through(p) => at[p] \in 1 .. NumCalls
BY NumbersOfCalls DEF IInv, InCalls, Local, Through

(* A refill of the queues: what call it is, and how it counts.             *)
LEMMA RefillCounts ==
    ASSUME NEW c \in Nat \ {0}, RefillsAt(c)
    PROVE  /\ StoredAt(c) \in Nat /\ StoredAt(c + 1) = StoredAt(c) + BatchSize
           /\ \A q \in Parties : UsedAt(q, c) \in Nat /\ UsedAt(q, c + 1) = UsedAt(q, c)
           /\ \A p, q \in Parties : SentAt(p, q, c) \in Nat
                                    /\ SentAt(p, q, c + 1) = SentAt(p, q, c) + 2
           /\ Groups(c) = {} /\ Call(c).kind # "open"
<1>1. Groups(c) = {} /\ Call(c).kind # "open"
  BY Calls DEF RefillsAt, Refills
<1> QED
  BY <1>1, Changes, Counts

(* The batch of a refill.                                                  *)
LEMMA Batch ==
    ASSUME NEW c \in Nat \ {0}, RefillsAt(c)
    PROVE  [k \in 1 .. BatchSize |-> StoredAt(c) + k] = Slice(Seeds, StoredAt(c), StoredAt(c + 1))
<1> DEFINE s == StoredAt(c)
           t == StoredAt(c + 1)
<1>1. s \in Nat /\ t = s + BatchSize /\ BatchSize \in Nat
  BY RefillCounts, SizesAssumption
<1> HIDE DEF s, t
<1>2. t - s = BatchSize /\ \A k \in 1 .. BatchSize : s + k \in Nat
  BY <1>1
<1>3. \A k \in 1 .. BatchSize : Seeds[s + k] = s + k
  BY <1>2 DEF Seeds
<1>4. [k \in 1 .. BatchSize |-> s + k] = Slice(Seeds, s, t)
  BY <1>2, <1>3 DEF Slice
<1> QED
  BY <1>4 DEF s, t

(* The first step of a refill keeps the invariant: the party makes its     *)
(* batch of seeds, and sends the commitments to all others.                *)
LEMMA CommitKeeps ==
    ASSUME IInv, NEW p \in Parties, Commit(p)
    PROVE  IInv'
<1> DEFINE c == at[p]
           m == mode[p]
           batch == [k \in 1 .. BatchSize |-> generated[p] + k]
           message == [kind |-> "commitments", body |-> batch]
<1>1. /\ Moves(p, c, "committed")
      /\ m = "refill" \/ (m = "ready" /\ Call(c).kind = "repopulate")
      /\ c \in 1 .. NumCalls
      /\ generated' = [generated EXCEPT ![p] = @ + BatchSize]
      /\ channel' = SentTo(p, Others(p), message)
      /\ UNCHANGED <<localSeeds, commitments, prg, refilled, failed>>
  BY Has DEF Commit, Running, Goes, Moves, IInv, InCalls
<1>2. c \in Nat \ {0} /\ RefillsAt(c) /\ m \notin {"committed", "stored", "opened"}
  BY <1>1, Has DEF Fits, RefillsAt, Refills
<1>0. InCalls /\ Local /\ InTransit
  BY DEF IInv
<1>3. InCalls'
  <2>1. Fits(p, c, "committed") /\ c \in 1 .. NumCalls + 1
    BY <1>1, <1>2, Has DEF Fits
  <2> QED
    BY <1>0, <1>1, <2>1, InCallsKept
<1>4. Local'
  <2>1. generated[p] + BatchSize = GeneratedIn(c, "committed")
    BY <1>2, Has, RefillCounts DEF GeneratedIn
  <2>2. localSeeds[p] = SeedsIn(p, c, "committed")
    BY <1>2, Has DEF SeedsIn, StoredIn
  <2>3. commitments[p] = HeldIn(p, c, "committed")
    BY <1>2, Has DEF HeldIn, StoredIn
  <2>4. prg[p] = GeneratorsIn(p, c, "committed")
    BY <1>2, Has DEF GeneratorsIn
  <2>5. refilled[p] = RefilledIn(c, "committed")
    BY <1>1, <1>2, Has, Changes DEF RefilledIn
  <2> QED
    BY <1>1, <2>1, <2>2, <2>3, <2>4, <2>5, LocalKept DEF IInv, Local
<1>5. InTransit'
  <2>1. \A q \in Others(p) : /\ SentIn(p, q, c, "committed") = SentNow(p, q) + 1
                             /\ SentNow(p, q) = SentAt(p, q, c)
                             /\ ReceivedIn(p, q, c, "committed") = ReceivedNow(p, q)
    BY <1>1 DEF SentIn, SentNow, ReceivedIn, ReceivedNow
  <2>2. \A q \in Others(p) : message = Messages(p, q)[SentNow(p, q) + 1]
    <3> SUFFICES ASSUME NEW q \in Others(p)
                 PROVE  message = Messages(p, q)[SentNow(p, q) + 1]
      OBVIOUS
    <3>1. /\ SentAt(p, q, c) \in Nat /\ SentAt(p, q, c + 1) = SentAt(p, q, c) + 2
          /\ q \in Parties
      BY <1>2, RefillCounts DEF Others
    <3>2. Messages(p, q)[SentAt(p, q, c) + 1] = Message(p, c, SentAt(p, q, c) + 1 - SentAt(p, q, c))
      BY <1>1, <3>1, MessageIs
    <3>3. Message(p, c, 1) = message
      BY <1>2, Has, RefillCounts, Batch DEF Message, GeneratedIn
    <3> QED
      BY <2>1, <3>1, <3>2, <3>3
  <2>3. channel' = Exchanged(p, Others(p), {}, message)
    BY <1>1 DEF SentTo, Exchanged, IInv, InTransit
  <2>4. Arrived(p, {}) /\ {} \in SUBSET Others(p) /\ Others(p) \in SUBSET Others(p)
    BY DEF Arrived
  <2>5. \A q \in Others(p) :
            /\ SentIn(p, q, c, "committed") = IF q \in Others(p) THEN SentNow(p, q) + 1
                                              ELSE SentNow(p, q)
            /\ ReceivedIn(p, q, c, "committed") = IF q \in {} THEN ReceivedNow(p, q) + 1
                                                  ELSE ReceivedNow(p, q)
    BY <2>1
  <2> HIDE DEF message, c, m
  <2> QED
    BY <1>0, <1>1, <2>2, <2>3, <2>4, <2>5, Exchanges
<1> QED
  BY <1>3, <1>4, <1>5 DEF IInv

(* The two messages of a refill.                                           *)
LEMMA RefillMessages ==
    ASSUME NEW c \in 1 .. NumCalls, RefillsAt(c), NEW p \in Parties, NEW q \in Parties
    PROVE  /\ Messages(p, q)[SentAt(p, q, c) + 1] =
                  [kind |-> "commitments", body |-> Slice(Seeds, StoredAt(c), StoredAt(c + 1))]
           /\ Messages(p, q)[SentAt(p, q, c) + 1 + 1] =
                  [kind |-> "hashes", body |-> [j \in Others(p) |->
                      Slice(Seeds, UsedAt(j, c), StoredAt(c + 1))]]
<1> DEFINE a == SentAt(p, q, c)
<1>1. /\ a \in Nat /\ SentAt(p, q, c + 1) = a + 2 /\ Call(c).kind # "open"
  BY RefillCounts
<1>2. Messages(p, q)[a + 1] = Message(p, c, a + 1 - a)
  BY <1>1, MessageIs
<1>3. Messages(p, q)[a + 1 + 1] = Message(p, c, a + 1 + 1 - a)
  <2> DEFINE n == a + 1 + 1
  <2>1. n \in SentAt(p, q, c) + 1 .. SentAt(p, q, c + 1)
    BY <1>1
  <2> HIDE DEF n
  <2>2. Messages(p, q)[n] = Message(p, c, n - SentAt(p, q, c))
    BY <2>1, MessageIs
  <2>3. n - SentAt(p, q, c) = a + 1 + 1 - a
    BY <1>1 DEF n
  <2> QED BY <2>2, <2>3 DEF n
<1>4. a + 1 - a = 1 /\ a + 1 + 1 - a = 2
  BY <1>1
<1> HIDE DEF a
<1> QED
  BY <1>1, <1>2, <1>3, <1>4 DEF Message, a

(* The second step keeps it: all commitments received are of the same      *)
(* batch, and join the queues.                                             *)
LEMMA StoreCommitmentsKeeps ==
    ASSUME IInv, NEW p \in Parties, StoreCommitments(p)
    PROVE  IInv'
<1> DEFINE c == at[p]
           m == mode[p]
           held == [q \in Parties |-> IF q = p THEN << >>
                                      ELSE commitments[p][q] \o Received(p, q).body]
           message == [kind |-> "hashes", body |-> [q \in Others(p) |-> held[q]]]
           rest == ReceivedFrom(p, Others(p))
<1>0. InCalls /\ Local /\ InTransit
  BY DEF IInv
<1>1. /\ Moves(p, c, "stored")
      /\ m = "committed" /\ c \in 1 .. NumCalls
      /\ Arrived(p, Others(p))
      /\ commitments' = [commitments EXCEPT ![p] = held]
      /\ localSeeds' = [localSeeds EXCEPT ![p] = @ \o Newest(p)]
      /\ channel' = [rest EXCEPT ![p] = [q \in Parties |-> IF q = p THEN @[q] ELSE Append(@[q], message)]]
      /\ UNCHANGED <<generated, prg, refilled, failed>>
  BY Has, Zenon DEF StoreCommitments, AfterStoring, Running, Goes, Moves, IInv, InCalls
<1>2. c \in Nat \ {0} /\ RefillsAt(c)
  BY <1>1, Has DEF Fits
<1>3. InCalls'
  <2>1. Fits(p, c, "stored") /\ c \in 1 .. NumCalls + 1
    BY <1>1, <1>2, Has DEF Fits
  <2> QED
    BY <1>0, <1>1, <2>1, InCallsKept
<1>4. /\ StoredAt(c) \in Nat /\ StoredAt(c + 1) \in Nat /\ StoredAt(c) <= StoredAt(c + 1)
      /\ \A q \in Parties : UsedAt(q, c) \in Nat /\ UsedAt(q, c) <= StoredAt(c)
  BY <1>2, RefillCounts, SizesAssumption, Enough
<1>5. \A q \in Others(p) :
          /\ SentNow(p, q) = SentAt(p, q, c) + 1
          /\ SentIn(p, q, c, "stored") = SentAt(p, q, c) + 2
          /\ SentAt(p, q, c) \in Nat
          /\ ReceivedNow(p, q) = SentAt(p, q, c)
          /\ ReceivedIn(p, q, c, "stored") = SentAt(p, q, c) + 1
          /\ SentAt(p, q, c) = SentAt(q, p, c)
  BY <1>1, <1>2, RefillCounts, Counts DEF SentIn, SentNow, ReceivedIn, ReceivedNow, Others
<1>6. \A q \in Others(p) : Received(p, q).body = Slice(Seeds, StoredAt(c), StoredAt(c + 1))
  <2> SUFFICES ASSUME NEW q \in Others(p)
               PROVE  Received(p, q).body = Slice(Seeds, StoredAt(c), StoredAt(c + 1))
    OBVIOUS
  <2>1. Received(p, q) = Messages(q, p)[SentAt(q, p, c) + 1]
    BY <1>0, <1>1, <1>5, Receiving DEF Arrived
  <2>2. q \in Parties
    BY DEF Others
  <2>3. Messages(q, p)[SentAt(q, p, c) + 1] =
            [kind |-> "commitments", body |-> Slice(Seeds, StoredAt(c), StoredAt(c + 1))]
    <3> HIDE DEF c, m
    <3> QED BY <1>1, <1>2, <2>2, RefillMessages
  <2> QED
    BY <2>1, <2>3
<1>7. \A q \in Others(p) : held[q] = Slice(Seeds, UsedAt(q, c), StoredAt(c + 1))
  <2> SUFFICES ASSUME NEW q \in Others(p)
               PROVE  held[q] = Slice(Seeds, UsedAt(q, c), StoredAt(c + 1))
    OBVIOUS
  <2>1. commitments[p][q] = Slice(Seeds, UsedAt(q, c), StoredAt(c)) /\ q \in Parties /\ q # p
    BY <1>1, Has DEF HeldIn, StoredIn, Others
  <2>2. held[q] = Slice(Seeds, UsedAt(q, c), StoredAt(c)) \o Slice(Seeds, StoredAt(c), StoredAt(c + 1))
    BY <1>6, <2>1
  <2> QED
    BY <1>4, <2>1, <2>2, Joined
<1>8. held = HeldIn(p, c, "stored")
  BY <1>7 DEF HeldIn, StoredIn, Others
<1>9. Local'
  <2>1. generated[p] = GeneratedIn(c, "stored")
    BY <1>1, Has DEF GeneratedIn
  <2>2. localSeeds[p] \o Newest(p) = SeedsIn(p, c, "stored")
    <3>1. localSeeds[p] = Slice(Seeds, UsedAt(p, c), StoredAt(c))
      BY <1>1, Has DEF SeedsIn, StoredIn
    <3>2. Newest(p) = [k \in 1 .. BatchSize |-> StoredAt(c) + k]
      <4>1. generated[p] - BatchSize = StoredAt(c)
        BY <1>1, <1>2, Has, RefillCounts, SizesAssumption DEF GeneratedIn
      <4> QED BY <4>1 DEF Newest
    <3>3. SeedsIn(p, c, "stored") = Slice(Seeds, UsedAt(p, c), StoredAt(c + 1))
      BY DEF SeedsIn, StoredIn
    <3>4. Newest(p) = Slice(Seeds, StoredAt(c), StoredAt(c + 1))
      BY <1>2, <3>2, Batch
    <3> HIDE DEF c, m
    <3> QED
      BY <1>4, <3>1, <3>3, <3>4, Joined
  <2>3. prg[p] = GeneratorsIn(p, c, "stored")
    BY <1>1, Has DEF GeneratorsIn
  <2>4. refilled[p] = RefilledIn(c, "stored")
    BY <1>1, Has DEF RefilledIn
  <2> HIDE DEF held, c, m
  <2> QED
    BY <1>0, <1>1, <1>8, <2>1, <2>2, <2>3, <2>4, LocalKept DEF Local
<1>10. InTransit'
  <2>1. \A q \in Others(p) : message = Messages(p, q)[SentNow(p, q) + 1]
    <3>1. message.body = [q \in Others(p) |-> Slice(Seeds, UsedAt(q, c), StoredAt(c + 1))]
      BY <1>7
    <3>2. message = [kind |-> "hashes", body |-> message.body]
      OBVIOUS
    <3> HIDE DEF message
    <3> SUFFICES ASSUME NEW q \in Others(p)
                 PROVE  message = Messages(p, q)[SentNow(p, q) + 1]
      OBVIOUS
    <3>3. q \in Parties /\ SentNow(p, q) + 1 = SentAt(p, q, c) + 1 + 1
      BY <1>5 DEF Others
    <3>4. Messages(p, q)[SentAt(p, q, c) + 1 + 1] =
              [kind |-> "hashes", body |-> [j \in Others(p) |->
                  Slice(Seeds, UsedAt(j, c), StoredAt(c + 1))]]
      <4> HIDE DEF c, m
      <4> QED BY <1>1, <1>2, <3>3, RefillMessages
    <3> QED
      BY <3>1, <3>2, <3>3, <3>4
  <2>2. channel' = Exchanged(p, Others(p), Others(p), message)
    <3> HIDE DEF message
    <3> QED BY <1>0, <1>1 DEF ReceivedFrom, Exchanged, InTransit, Others
  <2>3. Others(p) \in SUBSET Others(p)
    OBVIOUS
  <2>4. \A q \in Others(p) :
            /\ SentIn(p, q, c, "stored") = IF q \in Others(p) THEN SentNow(p, q) + 1
                                           ELSE SentNow(p, q)
            /\ ReceivedIn(p, q, c, "stored") = IF q \in Others(p) THEN ReceivedNow(p, q) + 1
                                               ELSE ReceivedNow(p, q)
    BY <1>5
  <2> HIDE DEF message, c, m
  <2> QED
    BY <1>0, <1>1, <2>1, <2>2, <2>3, <2>4, Exchanges
<1> QED
  BY <1>3, <1>9, <1>10 DEF IInv

(* The third step keeps it: the hashes match, since all parties hold the   *)
(* same of every third one, so none fails.                                 *)
LEMMA VerifyHashesKeeps ==
    ASSUME IInv, NEW p \in Parties, VerifyHashes(p)
    PROVE  IInv'
<1> DEFINE c == at[p]
           m == mode[p]
<1>0. InCalls /\ Local /\ InTransit
  BY DEF IInv
<1>1. /\ m = "stored" /\ c \in 1 .. NumCalls
      /\ Arrived(p, Others(p))
      /\ channel' = ReceivedFrom(p, Others(p))
      /\ IF HashesMatch(p) THEN Returns(p) /\ UNCHANGED failed ELSE Fails(p) /\ UNCHANGED <<at, mode>>
      /\ UNCHANGED <<generated, localSeeds, commitments, prg, refilled>>
  BY Has DEF VerifyHashes, Running
<1>2. c \in Nat \ {0} /\ RefillsAt(c)
  BY <1>1, Has DEF Fits
<1>3. \A q \in Others(p) :
          /\ q \in Parties
          /\ ReceivedNow(p, q) = SentAt(p, q, c) + 1
          /\ SentNow(p, q) = SentAt(p, q, c + 1)
          /\ SentAt(p, q, c + 1) = SentAt(p, q, c) + 2
          /\ SentAt(p, q, c) \in Nat
          /\ SentAt(p, q, c) = SentAt(q, p, c)
  BY <1>1, <1>2, RefillCounts, Counts DEF SentIn, SentNow, ReceivedIn, ReceivedNow, Others
<1>4. \A q \in Others(p) :
          Received(p, q) = [kind |-> "hashes", body |-> [j \in Others(q) |->
                               Slice(Seeds, UsedAt(j, c), StoredAt(c + 1))]]
  <2> SUFFICES ASSUME NEW q \in Others(p)
               PROVE  Received(p, q) = [kind |-> "hashes", body |-> [j \in Others(q) |->
                                           Slice(Seeds, UsedAt(j, c), StoredAt(c + 1))]]
    OBVIOUS
  <2>1. Received(p, q) = Messages(q, p)[SentAt(q, p, c) + 1 + 1]
    BY <1>0, <1>1, <1>3, Receiving DEF Arrived
  <2> HIDE DEF c, m
  <2> QED
    BY <1>1, <1>2, <1>3, <2>1, RefillMessages
<1>5. HashesMatch(p)
  <2> SUFFICES ASSUME NEW q \in Others(p), NEW j \in Others(p) \ {q}
               PROVE  Received(p, q).body[j] = commitments[p][j]
    BY <1>4 DEF HashesMatch
  <2>1. commitments[p][j] = Slice(Seeds, UsedAt(j, c), StoredAt(c + 1))
    BY <1>1, Has DEF HeldIn, StoredIn, Others
  <2>2. j \in Others(q)
    BY DEF Others
  <2>3. Received(p, q).body = [o \in Others(q) |-> Slice(Seeds, UsedAt(o, c), StoredAt(c + 1))]
    BY <1>4
  <2> QED
    BY <2>1, <2>2, <2>3
<1>6. Moves(p, c + 1, "ready") /\ UNCHANGED failed
  BY <1>0, <1>1, <1>5 DEF Returns, Goes, Moves, InCalls
<1>7. InCalls'
  <2>1. Fits(p, c + 1, "ready") /\ c + 1 \in 1 .. NumCalls + 1
    BY <1>1, NumbersOfCalls DEF Fits
  <2> QED
    BY <1>0, <1>6, <2>1, InCallsKept
<1>8. Local'
  <2>1. generated[p] = GeneratedIn(c + 1, "ready")
    BY <1>1, Has DEF GeneratedIn
  <2>2. localSeeds[p] = SeedsIn(p, c + 1, "ready")
    BY <1>1, <1>2, Has, RefillCounts DEF SeedsIn, StoredIn
  <2>3. commitments[p] = HeldIn(p, c + 1, "ready")
    <3>1. \A q \in Parties : UsedAt(q, c + 1) = UsedAt(q, c)
      BY <1>2, RefillCounts
    <3>2. commitments[p] = HeldIn(p, c, "stored")
      BY <1>1, Has
    <3> QED BY <3>1, <3>2 DEF HeldIn, StoredIn
  <2>4. prg[p] = GeneratorsIn(p, c + 1, "ready")
    <3>1. \A i \in 1 .. NumCalls : i < c + 1 /\ p \in Groups(i) <=> i < c /\ p \in Groups(i)
      BY <1>2, RefillCounts
    <3> QED BY <1>1, <3>1, Has DEF GeneratorsIn
  <2>5. refilled[p] = RefilledIn(c + 1, "ready")
    BY <1>1, Has DEF RefilledIn
  <2> HIDE DEF c, m
  <2> QED
    BY <1>0, <1>1, <1>6, <2>1, <2>2, <2>3, <2>4, <2>5, LocalKept DEF Local
<1>9. InTransit'
  <2> DEFINE none == {}
             message == ""
  <2>1. \A q \in none : message = Messages(p, q)[SentNow(p, q) + 1]
    OBVIOUS
  <2>2. channel' = Exchanged(p, none, Others(p), message)
    BY <1>0, <1>1 DEF ReceivedFrom, Exchanged, InTransit, Others
  <2>3. Others(p) \in SUBSET Others(p) /\ none \in SUBSET Others(p)
    OBVIOUS
  <2>4. \A q \in Others(p) :
            /\ SentIn(p, q, c + 1, "ready") = IF q \in none THEN SentNow(p, q) + 1 ELSE SentNow(p, q)
            /\ ReceivedIn(p, q, c + 1, "ready") = IF q \in Others(p) THEN ReceivedNow(p, q) + 1
                                                  ELSE ReceivedNow(p, q)
    BY <1>3 DEF SentIn, ReceivedIn
  <2> HIDE DEF c, m, none, message
  <2> QED
    BY <1>0, <1>1, <1>6, <2>1, <2>2, <2>3, <2>4, Exchanges
<1> QED
  BY <1>7, <1>8, <1>9 DEF IInv

(* A call that opens a seed: how it counts.                                *)
LEMMA OpeningCounts ==
    ASSUME NEW c \in Nat \ {0}, Call(c).kind = "open"
    PROVE  /\ StoredAt(c + 1) = StoredAt(c) /\ StoredAt(c) \in Nat
           /\ RefilledAt(c + 1) = RefilledAt(c)
           /\ Groups(c) \subseteq Parties
           /\ \A q \in Parties :
                 /\ UsedAt(q, c) \in Nat
                 /\ UsedAt(q, c) <= StoredAt(c)
                 /\ q \in Groups(c) => UsedAt(q, c) < StoredAt(c)
                 /\ UsedAt(q, c + 1) = IF q \in Groups(c) THEN UsedAt(q, c) + 1 ELSE UsedAt(q, c)
           /\ \A p, q \in Parties :
                 /\ SentAt(p, q, c) \in Nat /\ SentAt(p, q, c) = SentAt(q, p, c)
                 /\ SentAt(p, q, c + 1) = IF {p, q} \subseteq Groups(c) THEN SentAt(p, q, c) + 1
                                          ELSE SentAt(p, q, c)
<1>1. ~ RefillsAt(c)
  BY DEF RefillsAt, Refills
<1>2. Groups(c) \subseteq Parties
  BY Calls
<1>3. \A q \in Parties : UsedAt(q, c) <= StoredAt(c) /\ (q \in Groups(c) => UsedAt(q, c) < StoredAt(c))
  BY Enough
<1> QED
  BY <1>1, <1>2, <1>3, Changes, Counts

(* The first of the seeds that are left.                                   *)
LEMMA FirstSeed ==
    ASSUME NEW a \in Nat, NEW b \in Nat, a < b
    PROVE  /\ Slice(Seeds, a, b) # << >>
           /\ Head(Slice(Seeds, a, b)) = a + 1
           /\ Tail(Slice(Seeds, a, b)) = Slice(Seeds, a + 1, b)
<1>1. Seeds[a + 1] = a + 1
  BY DEF Seeds
<1> DEFINE f == Seeds
<1> HIDE DEF f
<1>0. a <= b /\ a # b
  OBVIOUS
<1>2. Slice(f, a, b) # << >>
  BY <1>0, Slices
<1>3. Head(Slice(f, a, b)) = f[a + 1] /\ Tail(Slice(f, a, b)) = Slice(f, a + 1, b)
  BY <1>0, Slices, Zenon
<1> QED
  BY <1>1, <1>2, <1>3 DEF f

(* A call outside of the group keeps the invariant: the party drops the    *)
(* first commitment of each member, the one the group sees opened.         *)
LEMMA StandAsideKeeps ==
    ASSUME IInv, NEW p \in Parties, StandAside(p)
    PROVE  IInv'
<1> DEFINE c == at[p]
           m == mode[p]
<1>0. InCalls /\ Local /\ InTransit
  BY DEF IInv
<1>1. /\ m = "ready" /\ c \in 1 .. NumCalls /\ c \in Nat \ {0}
      /\ Call(c).kind = "open" /\ p \notin Groups(c)
      /\ commitments' = [commitments EXCEPT ![p] = Dropped(@, Groups(c))]
      /\ Moves(p, c + 1, "ready")
      /\ UNCHANGED <<generated, localSeeds, channel, prg, refilled, failed>>
  BY Has DEF StandAside, Running, Returns, Goes, Moves, IInv, InCalls, Groups
<1>2. InCalls'
  <2>1. Fits(p, c + 1, "ready") /\ c + 1 \in 1 .. NumCalls + 1
    BY <1>1, NumbersOfCalls DEF Fits
  <2> QED
    BY <1>0, <1>1, <2>1, InCallsKept
<1>3. Local'
  <2>1. generated[p] = GeneratedIn(c + 1, "ready")
    BY <1>1, Has, OpeningCounts DEF GeneratedIn
  <2>2. localSeeds[p] = SeedsIn(p, c + 1, "ready")
    BY <1>1, Has, OpeningCounts DEF SeedsIn, StoredIn
  <2>3. Dropped(commitments[p], Groups(c)) = HeldIn(p, c + 1, "ready")
    <3>1. \A q \in Parties : commitments[p][q] = IF q = p THEN << >>
                                                ELSE Slice(Seeds, UsedAt(q, c), StoredAt(c))
      <4>1. commitments[p] = HeldIn(p, c, "ready")
        BY <1>1, Has
      <4> QED BY <4>1 DEF HeldIn, StoredIn
    <3>2. \A q \in Groups(c) :
              /\ Slice(Seeds, UsedAt(q, c), StoredAt(c)) # << >>
              /\ Tail(Slice(Seeds, UsedAt(q, c), StoredAt(c))) = Slice(Seeds, UsedAt(q, c) + 1, StoredAt(c))
      BY <1>1, OpeningCounts, FirstSeed
    <3>3. \A q \in Parties :
              Dropped(commitments[p], Groups(c))[q] = IF q = p THEN << >>
                                                      ELSE Slice(Seeds, UsedAt(q, c + 1), StoredAt(c + 1))
      BY <1>1, <3>1, <3>2, OpeningCounts DEF Dropped
    <3> QED
      BY <3>3 DEF Dropped, HeldIn, StoredIn
  <2>4. prg[p] = GeneratorsIn(p, c + 1, "ready")
    <3>1. \A i \in 1 .. NumCalls : i < c + 1 /\ p \in Groups(i) <=> i < c /\ p \in Groups(i)
      BY <1>1
    <3> QED BY <1>1, <3>1, Has DEF GeneratorsIn
  <2>5. refilled[p] = RefilledIn(c + 1, "ready")
    BY <1>1, Has, OpeningCounts DEF RefilledIn
  <2> HIDE DEF c, m
  <2> QED
    BY <1>0, <1>1, <2>1, <2>2, <2>3, <2>4, <2>5, LocalKept DEF Local
<1>4. InTransit'
  <2> DEFINE none == {}
             message == ""
  <2>1. \A q \in none : message = Messages(p, q)[SentNow(p, q) + 1]
    OBVIOUS
  <2>2. channel' = Exchanged(p, none, none, message)
    BY <1>0, <1>1 DEF Exchanged, InTransit
  <2>3. none \in SUBSET Others(p) /\ Arrived(p, none)
    BY DEF Arrived
  <2>4. \A q \in Others(p) :
            /\ SentIn(p, q, c + 1, "ready") = IF q \in none THEN SentNow(p, q) + 1 ELSE SentNow(p, q)
            /\ ReceivedIn(p, q, c + 1, "ready") = IF q \in none THEN ReceivedNow(p, q) + 1
                                                  ELSE ReceivedNow(p, q)
    BY <1>1, OpeningCounts DEF SentIn, ReceivedIn, SentNow, ReceivedNow, Others
  <2> HIDE DEF c, m, none, message
  <2> QED
    BY <1>0, <1>1, <2>1, <2>2, <2>3, <2>4, Exchanges
<1> QED
  BY <1>2, <1>3, <1>4 DEF IInv

(* The message of an opening.                                              *)
LEMMA OpeningMessage ==
    ASSUME NEW c \in 1 .. NumCalls, Call(c).kind = "open",
           NEW p \in Groups(c), NEW q \in Groups(c)
    PROVE  Messages(p, q)[SentAt(p, q, c) + 1] = [kind |-> "opening", body |-> UsedAt(p, c) + 1]
<1> DEFINE a == SentAt(p, q, c)
<1>1. p \in Parties /\ q \in Parties /\ a \in Nat /\ SentAt(p, q, c + 1) = a + 1
  BY OpeningCounts
<1>2. Messages(p, q)[a + 1] = Message(p, c, (a + 1) - a)
  BY <1>1, MessageIs
<1> QED
  BY <1>2 DEF Message

(* The first step of a call in the group keeps the invariant: the party    *)
(* opens its first seed, and sends it to the others of the group.          *)
LEMMA OpenKeeps ==
    ASSUME IInv, NEW p \in Parties, Open(p)
    PROVE  IInv'
<1> DEFINE c == at[p]
           m == mode[p]
           seed == Head(localSeeds[p])
           message == [kind |-> "opening", body |-> seed]
           peers == Groups(c) \ {p}
<1>0. InCalls /\ Local /\ InTransit
  BY DEF IInv
<1>1. /\ m = "ready" /\ c \in 1 .. NumCalls /\ c \in Nat \ {0}
      /\ Call(c).kind = "open" /\ p \in Groups(c)
      /\ IF localSeeds[p] = << >>
         THEN Fails(p) /\ UNCHANGED <<mode, localSeeds, channel, prg>>
         ELSE /\ channel' = SentTo(p, peers, message)
              /\ prg' = [prg EXCEPT ![p][c] = {<<p, seed>>}]
              /\ localSeeds' = [localSeeds EXCEPT ![p] = Tail(@)]
              /\ Goes(p, "opened")
              /\ UNCHANGED failed
      /\ UNCHANGED <<at, generated, commitments, refilled>>
  BY Has DEF Open, AfterOpening, Running, Groups
<1>2. /\ UsedAt(p, c) \in Nat /\ StoredAt(c) \in Nat /\ UsedAt(p, c) < StoredAt(c)
      /\ UsedAt(p, c + 1) = UsedAt(p, c) + 1 /\ peers \subseteq Others(p) /\ Groups(c) \subseteq Parties
  BY <1>1, OpeningCounts DEF Others
<1>3. /\ localSeeds[p] # << >>
      /\ seed = UsedAt(p, c) + 1
      /\ Tail(localSeeds[p]) = Slice(Seeds, UsedAt(p, c) + 1, StoredAt(c))
  <2>1. localSeeds[p] = Slice(Seeds, UsedAt(p, c), StoredAt(c))
    BY <1>1, Has DEF SeedsIn, StoredIn
  <2> QED
    BY <1>2, <2>1, FirstSeed
<1>4. /\ Moves(p, c, "opened")
      /\ channel' = SentTo(p, peers, message)
      /\ prg' = [prg EXCEPT ![p][c] = {<<p, seed>>}]
      /\ localSeeds' = [localSeeds EXCEPT ![p] = Tail(@)]
      /\ UNCHANGED failed
  BY <1>0, <1>1, <1>3 DEF Goes, Moves, InCalls
<1>5. InCalls'
  <2>1. Fits(p, c, "opened") /\ c \in 1 .. NumCalls + 1
    BY <1>1, NumbersOfCalls DEF Fits
  <2> QED
    BY <1>0, <1>4, <2>1, InCallsKept
<1>6. Local'
  <2>1. generated[p] = GeneratedIn(c, "opened")
    BY <1>1, Has DEF GeneratedIn
  <2>2. Tail(localSeeds[p]) = SeedsIn(p, c, "opened")
    BY <1>2, <1>3 DEF SeedsIn, StoredIn
  <2>3. commitments[p] = HeldIn(p, c, "opened")
    BY <1>1, Has DEF HeldIn, StoredIn
  <2>4. [prg[p] EXCEPT ![c] = {<<p, seed>>}] = GeneratorsIn(p, c, "opened")
    <3> HIDE DEF c, seed, peers
    <3>1. \A i \in 1 .. NumCalls :
              prg[p][i] = IF i < c /\ p \in Groups(i) THEN Generator(i) ELSE {}
      <4>1. prg[p] = GeneratorsIn(p, c, "ready")
        BY <1>1, Has DEF c
      <4> QED BY <1>1, <4>1 DEF GeneratorsIn
    <3>2. \A i \in 1 .. NumCalls :
              GeneratorsIn(p, c, "opened")[i] = IF i < c /\ p \in Groups(i) THEN Generator(i)
                                                ELSE IF i = c THEN {<<p, seed>>} ELSE {}
      BY <1>3 DEF GeneratorsIn
    <3>3. ~ (c < c)
      BY <1>1
    <3> DEFINE f == [prg[p] EXCEPT ![c] = {<<p, seed>>}]
               g == GeneratorsIn(p, c, "opened")
    <3>4. prg[p] = [i \in 1 .. NumCalls |-> prg[p][i]] /\ g = [i \in 1 .. NumCalls |-> g[i]]
      BY Has DEF GeneratorsIn
    <3>5. f = [i \in 1 .. NumCalls |-> IF i = c THEN {<<p, seed>>} ELSE prg[p][i]]
      BY <3>4
    <3>6. \A i \in 1 .. NumCalls : (IF i = c THEN {<<p, seed>>} ELSE prg[p][i]) = g[i]
      BY <3>1, <3>2, <3>3
    <3> HIDE DEF f, g
    <3>7. f = g
      BY <3>4, <3>5, <3>6
    <3> QED BY <3>7 DEF f, g
  <2>5. refilled[p] = RefilledIn(c, "opened")
    BY <1>1, Has DEF RefilledIn
  <2>6. /\ prg' = [prg EXCEPT ![p] = GeneratorsIn(p, c, "opened")]
        /\ localSeeds' = [localSeeds EXCEPT ![p] = SeedsIn(p, c, "opened")]
    <3>1. prg' = [prg EXCEPT ![p] = [prg[p] EXCEPT ![c] = {<<p, seed>>}]]
      BY <1>4
    <3>2. localSeeds' = [localSeeds EXCEPT ![p] = Tail(localSeeds[p])]
      BY <1>4
    <3> HIDE DEF c, m, seed
    <3> QED BY <2>2, <2>4, <3>1, <3>2
  <2>7. /\ generated' = [generated EXCEPT ![p] = GeneratedIn(c, "opened")]
        /\ commitments' = [commitments EXCEPT ![p] = HeldIn(p, c, "opened")]
        /\ refilled' = [refilled EXCEPT ![p] = RefilledIn(c, "opened")]
        /\ failed' = failed
    <3>1. UNCHANGED <<generated, commitments, refilled, failed>>
      BY <1>1, <1>4
    <3> HIDE DEF c, m
    <3> QED BY <1>0, <2>1, <2>3, <2>5, <3>1 DEF Local
  <2> HIDE DEF c, m, seed
  <2> QED
    BY <1>0, <1>4, <2>6, <2>7, LocalKept
<1>7. InTransit'
  <2> DEFINE none == {}
  <2>1. \A q \in Others(p) :
            /\ SentNow(p, q) = SentAt(p, q, c)
            /\ SentIn(p, q, c, "opened") = IF q \in peers THEN SentNow(p, q) + 1 ELSE SentNow(p, q)
            /\ ReceivedIn(p, q, c, "opened") = IF q \in none THEN ReceivedNow(p, q) + 1
                                               ELSE ReceivedNow(p, q)
    BY <1>1, <1>2, OpeningCounts DEF SentIn, ReceivedIn, SentNow, ReceivedNow, Others
  <2>2. \A q \in peers : message = Messages(p, q)[SentNow(p, q) + 1]
    <3> SUFFICES ASSUME NEW q \in peers
                 PROVE  message = Messages(p, q)[SentNow(p, q) + 1]
      OBVIOUS
    <3>1. SentNow(p, q) = SentAt(p, q, c)
      BY <1>2, <2>1
    <3>2. q \in Groups(c)
      OBVIOUS
    <3> HIDE DEF c, m, peers
    <3> QED BY <1>1, <1>3, <3>1, <3>2, OpeningMessage
  <2>3. channel' = Exchanged(p, peers, none, message)
    <3> HIDE DEF message, peers
    <3> QED BY <1>0, <1>4 DEF SentTo, Exchanged, InTransit
  <2>4. none \in SUBSET Others(p) /\ Arrived(p, none) /\ peers \in SUBSET Others(p)
    BY <1>2 DEF Arrived
  <2> HIDE DEF c, m, none, message, peers
  <2> QED
    BY <1>0, <1>4, <2>1, <2>2, <2>3, <2>4, Exchanges
<1> QED
  BY <1>5, <1>6, <1>7 DEF IInv

(* The second step keeps it: each opening received meets the first         *)
(* commitment its sender made, so none fails, and the seeds together are   *)
(* the generator of the call.                                              *)
LEMMA VerifyOpeningsKeeps ==
    ASSUME IInv, NEW p \in Parties, VerifyOpenings(p)
    PROVE  IInv'
<1> DEFINE c == at[p]
           m == mode[p]
           peers == Groups(c) \ {p}
           whole == prg[p][c] \cup {<<q, Received(p, q).body>> : q \in peers}
           rest == [q \in Parties |-> IF q \in peers THEN Tail(commitments[p][q]) ELSE commitments[p][q]]
<1>0. InCalls /\ Local /\ InTransit
  BY DEF IInv
<1>1. /\ m = "opened" /\ c \in 1 .. NumCalls /\ c \in Nat \ {0}
      /\ p \in Groups(c)
      /\ Arrived(p, peers)
      /\ channel' = ReceivedFrom(p, peers)
      /\ UNCHANGED <<generated, localSeeds, refilled>>
  BY Has DEF VerifyOpenings, Running, Groups, Fits
<1>2. OpeningsMatch(p, peers) =>
          /\ prg' = [prg EXCEPT ![p][c] = @ \cup {<<q, Received(p, q).body>> : q \in peers}]
          /\ commitments' = [commitments EXCEPT ![p] =
                 [q \in Parties |-> IF q \in peers THEN Tail(@[q]) ELSE @[q]]]
          /\ Moves(p, c + 1, "ready") /\ UNCHANGED failed
  BY <1>0 DEF VerifyOpenings, Running, Groups, Returns, Goes, Moves, InCalls
<1>3. /\ Call(c).kind = "open"
      /\ peers \subseteq Others(p) /\ Groups(c) \subseteq Parties
      /\ \A q \in Parties : /\ UsedAt(q, c) \in Nat /\ StoredAt(c) \in Nat
                            /\ q \in Groups(c) => UsedAt(q, c) < StoredAt(c)
                            /\ UsedAt(q, c + 1) = IF q \in Groups(c) THEN UsedAt(q, c) + 1 ELSE UsedAt(q, c)
  <2>1. Call(c).kind = "open"
    BY <1>1, Calls
  <2> QED
    BY <1>1, <2>1, OpeningCounts DEF Others
<1>4. \A q \in Others(p) :
          /\ ReceivedNow(p, q) = SentAt(q, p, c)
          /\ SentIn(p, q, c + 1, "ready") = SentNow(p, q)
          /\ ReceivedIn(p, q, c + 1, "ready") = IF q \in peers THEN ReceivedNow(p, q) + 1
                                                ELSE ReceivedNow(p, q)
  BY <1>1, <1>3, OpeningCounts DEF SentIn, ReceivedIn, SentNow, ReceivedNow, Others
<1>5. \A q \in peers : Received(p, q) = [kind |-> "opening", body |-> UsedAt(q, c) + 1]
  <2> SUFFICES ASSUME NEW q \in peers
               PROVE  Received(p, q) = [kind |-> "opening", body |-> UsedAt(q, c) + 1]
    OBVIOUS
  <2>1. Received(p, q) = Messages(q, p)[SentAt(q, p, c) + 1]
    BY <1>0, <1>1, <1>3, <1>4, Receiving DEF Arrived
  <2>2. q \in Groups(c)
    OBVIOUS
  <2> HIDE DEF c, m, peers
  <2> QED
    BY <1>1, <1>3, <2>1, <2>2, OpeningMessage
<1>6. \A q \in Parties : commitments[p][q] = IF q = p THEN << >>
                                             ELSE Slice(Seeds, UsedAt(q, c), StoredAt(c))
  <2>1. commitments[p] = HeldIn(p, c, "opened")
    BY <1>1, Has
  <2> QED BY <2>1 DEF HeldIn, StoredIn
<1>7. \A q \in peers : /\ commitments[p][q] # << >>
                       /\ Head(commitments[p][q]) = UsedAt(q, c) + 1
                       /\ Tail(commitments[p][q]) = Slice(Seeds, UsedAt(q, c + 1), StoredAt(c))
  BY <1>3, <1>6, FirstSeed DEF Others
<1>8. OpeningsMatch(p, peers)
  BY <1>5, <1>7 DEF OpeningsMatch
<1>9. InCalls'
  <2>1. Fits(p, c + 1, "ready") /\ c + 1 \in 1 .. NumCalls + 1
    BY <1>1, NumbersOfCalls DEF Fits
  <2> QED
    BY <1>0, <1>2, <1>8, <2>1, InCallsKept
<1>10. Local'
  <2>1. generated[p] = GeneratedIn(c + 1, "ready")
    BY <1>1, <1>3, Has, OpeningCounts DEF GeneratedIn
  <2>2. localSeeds[p] = SeedsIn(p, c + 1, "ready")
    BY <1>1, <1>3, Has, OpeningCounts DEF SeedsIn, StoredIn
  <2>3. rest = HeldIn(p, c + 1, "ready")
    <3>1. StoredAt(c + 1) = StoredAt(c)
      BY <1>1, <1>3, OpeningCounts
    <3>2. \A q \in Parties : rest[q] = IF q = p THEN << >>
                                       ELSE Slice(Seeds, UsedAt(q, c + 1), StoredAt(c + 1))
      BY <1>3, <1>6, <1>7, <3>1 DEF Others
    <3>3. rest = [q \in Parties |-> rest[q]]
      OBVIOUS
    <3> HIDE DEF rest
    <3> QED BY <3>2, <3>3 DEF HeldIn, StoredIn
  <2>4. [prg[p] EXCEPT ![c] = whole] = GeneratorsIn(p, c + 1, "ready")
    <3>1. prg[p] = GeneratorsIn(p, c, "opened")
      BY <1>1, Has
    <3>2. prg[p][c] = {<<p, UsedAt(p, c) + 1>>}
      <4> HIDE DEF c
      <4> QED BY <1>1, <3>1 DEF GeneratorsIn
    <3>3. {<<q, Received(p, q).body>> : q \in peers} = {<<q, UsedAt(q, c) + 1>> : q \in peers}
      BY <1>5
    <3>4. whole = Generator(c)
      <4> HIDE DEF c
      <4> QED BY <1>1, <3>2, <3>3 DEF Generator
    <3> HIDE DEF c, m, peers, whole
    <3>5. \A i \in 1 .. NumCalls :
              i # c => prg[p][i] = IF i < c /\ p \in Groups(i) THEN Generator(i) ELSE {}
      BY <1>1, <3>1 DEF GeneratorsIn
    <3>6. \A i \in 1 .. NumCalls : GeneratorsIn(p, c + 1, "ready")[i] =
              IF i < c + 1 /\ p \in Groups(i) THEN Generator(i) ELSE {}
      BY DEF GeneratorsIn
    <3>7. \A i \in 1 .. NumCalls : i < c + 1 <=> i < c \/ i = c
      BY <1>1
    <3> DEFINE f == [prg[p] EXCEPT ![c] = whole]
               g == GeneratorsIn(p, c + 1, "ready")
    <3>8. prg[p] = [i \in 1 .. NumCalls |-> prg[p][i]] /\ g = [i \in 1 .. NumCalls |-> g[i]]
      BY Has DEF GeneratorsIn
    <3>9. f = [i \in 1 .. NumCalls |-> IF i = c THEN whole ELSE prg[p][i]]
      BY <3>8
    <3>10. \A i \in 1 .. NumCalls : (IF i = c THEN whole ELSE prg[p][i]) = g[i]
      BY <1>1, <3>4, <3>5, <3>6, <3>7
    <3> HIDE DEF f, g
    <3>11. f = g
      BY <3>8, <3>9, <3>10
    <3> QED BY <3>11 DEF f, g
  <2>5. refilled[p] = RefilledIn(c + 1, "ready")
    BY <1>1, <1>3, Has, OpeningCounts DEF RefilledIn
  <2>6. /\ prg' = [prg EXCEPT ![p] = GeneratorsIn(p, c + 1, "ready")]
        /\ commitments' = [commitments EXCEPT ![p] = HeldIn(p, c + 1, "ready")]
    <3>1. prg' = [prg EXCEPT ![p] = [prg[p] EXCEPT ![c] = whole]]
      BY <1>2, <1>8
    <3>2. commitments' = [commitments EXCEPT ![p] = rest]
      BY <1>2, <1>8
    <3> HIDE DEF c, m, whole, rest
    <3> QED BY <2>3, <2>4, <3>1, <3>2
  <2>7. /\ generated' = [generated EXCEPT ![p] = GeneratedIn(c + 1, "ready")]
        /\ localSeeds' = [localSeeds EXCEPT ![p] = SeedsIn(p, c + 1, "ready")]
        /\ refilled' = [refilled EXCEPT ![p] = RefilledIn(c + 1, "ready")]
        /\ failed' = failed
    <3>1. UNCHANGED <<generated, localSeeds, refilled, failed>>
      BY <1>1, <1>2, <1>8
    <3> HIDE DEF c, m
    <3> QED BY <1>0, <2>1, <2>2, <2>5, <3>1 DEF Local
  <2>8. Moves(p, c + 1, "ready")
    BY <1>2, <1>8
  <2> HIDE DEF c, m, whole, rest
  <2> QED
    BY <1>0, <2>6, <2>7, <2>8, LocalKept
<1>11. InTransit'
  <2> DEFINE none == {}
             message == ""
  <2>1. \A q \in none : message = Messages(p, q)[SentNow(p, q) + 1]
    OBVIOUS
  <2>2. channel' = Exchanged(p, none, peers, message)
    <3> HIDE DEF peers
    <3> QED BY <1>0, <1>1, <1>3 DEF ReceivedFrom, Exchanged, InTransit, Others
  <2>3. none \in SUBSET Others(p) /\ peers \in SUBSET Others(p)
    BY <1>3
  <2>4. \A q \in Others(p) :
            /\ SentIn(p, q, c + 1, "ready") = IF q \in none THEN SentNow(p, q) + 1 ELSE SentNow(p, q)
            /\ ReceivedIn(p, q, c + 1, "ready") = IF q \in peers THEN ReceivedNow(p, q) + 1
                                                  ELSE ReceivedNow(p, q)
    BY <1>4
  <2> HIDE DEF c, m, none, message, peers
  <2> QED
    BY <1>0, <1>1, <1>2, <1>8, <2>1, <2>2, <2>3, <2>4, Exchanges
<1> QED
  BY <1>9, <1>10, <1>11 DEF IInv


(* What a check finds in the queues of a party is what all parties find.   *)
LEMMA CheckFinds ==
    ASSUME IInv, NEW p \in Parties, mode[p] = "ready", Call(at[p]).kind = "check"
    PROVE  Low(p) <=> RefillsAt(at[p])
<1> DEFINE c == at[p]
           left == StoredAt(c) - UsedAt(0, c)
<1>1. c \in Nat \ {0} /\ 0 \in Parties
  BY Has, PartiesAssumption DEF Parties
<1>2. \A q \in Others(p) : Len(commitments[p][q]) = left
  <2> SUFFICES ASSUME NEW q \in Others(p)
               PROVE  Len(commitments[p][q]) = left
    OBVIOUS
  <2>1. q \in Parties /\ q # p
    BY DEF Others
  <2>2. commitments[p] = HeldIn(p, c, "ready")
    BY Has
  <2>3. commitments[p][q] = Slice(Seeds, UsedAt(q, c), StoredAt(c))
    BY <2>1, <2>2 DEF HeldIn, StoredIn
  <2>4. UsedAt(q, c) = UsedAt(0, c) /\ UsedAt(q, c) <= StoredAt(c)
    BY <1>1, <2>1, Enough
  <2>5. UsedAt(q, c) \in Nat /\ StoredAt(c) \in Nat
    BY <1>1, <2>1, Counts
  <2> DEFINE u == UsedAt(q, c)
             s == StoredAt(c)
  <2>6. u \in Nat /\ s \in Nat /\ u <= s
    BY <2>4, <2>5
  <2> HIDE DEF u, s
  <2>7. Len(Slice(Seeds, u, s)) = s - u
    BY <2>6, SliceIs
  <2> QED
    BY <2>3, <2>4, <2>7 DEF u, s
<1>3. left \in Int
  BY <1>1, Counts
<1>4. \E q \in Parties : q \in Others(p)
  <2>1. 0 \in Parties /\ 1 \in Parties /\ 0 # 1
    BY PartiesAssumption DEF Parties
  <2> QED BY <2>1 DEF Others
<1>5. commitmentsAvailable(p) = left
  <2> HIDE DEF left
  <2>1. {Len(commitments[p][q]) : q \in Others(p)} = {left}
    BY <1>2, <1>4
  <2>2. \A n \in {left} : (\A q \in Others(p) : n <= Len(commitments[p][q])) <=> n = left
    BY <1>2, <1>3
  <2> QED
    BY <2>1, <2>2 DEF commitmentsAvailable
<1> QED
  BY <1>5 DEF Low, RefillsAt, Refills, Needed, StoredAt, UsedAt

(* A step of Check keeps the invariant.                                    *)
LEMMA CheckKeeps ==
    ASSUME IInv, NEW p \in Parties, Check(p)
    PROVE  IInv'
<1> DEFINE c == at[p]
           d == RefillsAt(c)
           nextAt == IF d THEN c ELSE c + 1
           nextMode == IF d THEN "refill" ELSE "ready"
<1>0. InCalls /\ Local /\ InTransit
  BY DEF IInv
<1>1. /\ mode[p] = "ready" /\ c \in 1 .. NumCalls /\ c \in Nat \ {0} /\ Call(c).kind = "check"
      /\ UNCHANGED <<generated, localSeeds, commitments, channel, prg, failed>>
  BY Has DEF Check, Running
<1>2. Low(p) = d
  <2>1. Low(p) <=> d
    BY <1>1, CheckFinds
  <2>2. Low(p) \in BOOLEAN /\ d \in BOOLEAN
    BY <1>1 DEF Low, RefillsAt, Refills, Needed
  <2> QED BY <2>1, <2>2
<1>3. /\ refilled' = [refilled EXCEPT ![p] = Append(@, d)]
      /\ Moves(p, nextAt, nextMode)
  <2>1. refilled' = [refilled EXCEPT ![p] = Append(@, Low(p))]
    BY DEF Check
  <2>2. CASE d
    BY <1>0, <1>2, <2>2 DEF Check, Goes, Moves, InCalls
  <2>3. CASE ~ d
    BY <1>0, <1>2, <2>3 DEF Check, Goes, Returns, Moves, InCalls
  <2> QED BY <1>2, <2>1, <2>2, <2>3
<1>4. Groups(c) = {} /\ c # 1 /\ (c + 1) \in Nat
  <2>1. Phase(c) # 0 => Call(c).kind = "open"
    BY <1>1, Calls
  <2>2. Phase(c) = 0 => Groups(c) = {} /\ Call(c).kind = IF c = 1 THEN "repopulate" ELSE "check"
    BY <1>1, Calls
  <2> QED BY <1>1, <2>1, <2>2
<1>5. /\ RefilledAt(c + 1) = Append(RefilledAt(c), d)
      /\ \A q \in Parties : UsedAt(q, c + 1) = UsedAt(q, c)
      /\ ~ d => /\ StoredAt(c + 1) = StoredAt(c)
                /\ \A q \in Parties : /\ SentAt(p, q, c + 1) = SentAt(p, q, c)
                                      /\ SentAt(q, p, c + 1) = SentAt(q, p, c)
  BY <1>1, <1>4, Changes
<1>6. InCalls'
  <2>1. Fits(p, nextAt, nextMode)
    BY <1>1 DEF Fits
  <2>2. nextAt \in 1 .. NumCalls + 1 /\ nextMode \in {"ready", "refill", "committed", "stored", "opened"}
    BY <1>1, NumbersOfCalls
  <2> HIDE DEF c, d, nextAt, nextMode
  <2> QED
    BY <1>0, <1>3, <2>1, <2>2, InCallsKept
<1>7. Local'
  <2>1. generated[p] = GeneratedIn(nextAt, nextMode)
    BY <1>1, <1>5, Has DEF GeneratedIn
  <2>2. localSeeds[p] = SeedsIn(p, nextAt, nextMode)
    BY <1>1, <1>5, Has DEF SeedsIn, StoredIn
  <2>3. commitments[p] = HeldIn(p, nextAt, nextMode)
    <3>1. commitments[p] = HeldIn(p, c, "ready")
      BY <1>1, Has
    <3>2. HeldIn(p, c, "ready") = HeldIn(p, c, "refill")
      BY DEF HeldIn, StoredIn
    <3>3. ~ d => HeldIn(p, c, "ready") = HeldIn(p, c + 1, "ready")
      BY <1>5 DEF HeldIn, StoredIn
    <3> QED BY <3>1, <3>2, <3>3
  <2>4. prg[p] = GeneratorsIn(p, nextAt, nextMode)
    <3>1. \A i \in 1 .. NumCalls : (i < c + 1 /\ p \in Groups(i)) <=> (i < c /\ p \in Groups(i))
      BY <1>1, <1>4
    <3>2. prg[p] = GeneratorsIn(p, c, "ready")
      BY <1>1, Has
    <3>3. GeneratorsIn(p, c, "ready") = GeneratorsIn(p, c, "refill")
      BY DEF GeneratorsIn
    <3>4. GeneratorsIn(p, c, "ready") = GeneratorsIn(p, c + 1, "ready")
      BY <3>1 DEF GeneratorsIn
    <3> QED BY <3>2, <3>3, <3>4
  <2>5. Append(refilled[p], d) = RefilledIn(nextAt, nextMode)
    BY <1>1, <1>5, Has DEF RefilledIn
  <2>6. /\ generated' = [generated EXCEPT ![p] = GeneratedIn(nextAt, nextMode)]
        /\ localSeeds' = [localSeeds EXCEPT ![p] = SeedsIn(p, nextAt, nextMode)]
        /\ commitments' = [commitments EXCEPT ![p] = HeldIn(p, nextAt, nextMode)]
        /\ prg' = [prg EXCEPT ![p] = GeneratorsIn(p, nextAt, nextMode)]
        /\ failed' = failed
    <3>1. UNCHANGED <<generated, localSeeds, commitments, prg, failed>>
      BY <1>1
    <3> HIDE DEF c, d, nextAt, nextMode
    <3> QED BY <1>0, <2>1, <2>2, <2>3, <2>4, <3>1 DEF Local
  <2>7. refilled' = [refilled EXCEPT ![p] = RefilledIn(nextAt, nextMode)]
    <3>1. refilled' = [refilled EXCEPT ![p] = Append(refilled[p], d)]
      BY <1>3
    <3> HIDE DEF c, d, nextAt, nextMode
    <3> QED BY <2>5, <3>1
  <2> HIDE DEF c, d, nextAt, nextMode
  <2> QED
    BY <1>0, <1>3, <2>6, <2>7, LocalKept
<1>8. InTransit'
  <2> DEFINE none == {}
             message == ""
  <2>1. \A q \in none : message = Messages(p, q)[SentNow(p, q) + 1]
    OBVIOUS
  <2>2. channel' = Exchanged(p, none, none, message)
    BY <1>0, <1>1 DEF Exchanged, InTransit
  <2>3. none \in SUBSET Others(p) /\ Arrived(p, none)
    BY DEF Arrived
  <2>4. \A q \in Others(p) :
            /\ SentIn(p, q, nextAt, nextMode) = SentNow(p, q)
            /\ ReceivedIn(p, q, nextAt, nextMode) = ReceivedNow(p, q)
    BY <1>1, <1>5 DEF SentIn, ReceivedIn, SentNow, ReceivedNow, Others
  <2>5. \A q \in Others(p) :
            /\ SentIn(p, q, nextAt, nextMode) = IF q \in none THEN SentNow(p, q) + 1 ELSE SentNow(p, q)
            /\ ReceivedIn(p, q, nextAt, nextMode) = IF q \in none THEN ReceivedNow(p, q) + 1
                                                    ELSE ReceivedNow(p, q)
    BY <2>4
  <2> HIDE DEF c, d, nextAt, nextMode, none, message
  <2> QED
    BY <1>0, <1>3, <2>1, <2>2, <2>3, <2>5, Exchanges
<1> QED
  BY <1>6, <1>7, <1>8 DEF IInv

(* It holds when the parties start.                                        *)
LEMMA InitKeeps == Init => IInv
<1> SUFFICES ASSUME Init
             PROVE  IInv
  OBVIOUS
<1>1. \A p \in Parties : at[p] = 1 /\ mode[p] = "ready"
  BY DEF Init
<1>2. \A p \in Parties : \A q \in Parties : UsedAt(q, 1) = 0 /\ SentAt(p, q, 1) = 0
  BY AtTheStart
<1>3. Slice(Seeds, 0, 0) = << >>
  BY Slices
<1>4. InCalls
  <2>1. 1 \in 1 .. NumCalls + 1
    BY NumbersOfCalls
  <2> QED BY <1>1, <2>1 DEF Init, InCalls, Fits
<1>5. Local
  <2>1. generated = [p \in Parties |-> GeneratedIn(at[p], mode[p])]
    BY <1>1, AtTheStart DEF Init, GeneratedIn
  <2>2. localSeeds = [p \in Parties |-> SeedsIn(p, at[p], mode[p])]
    BY <1>1, <1>2, <1>3, AtTheStart DEF Init, SeedsIn, StoredIn
  <2>3. commitments = [p \in Parties |-> HeldIn(p, at[p], mode[p])]
    BY <1>1, <1>2, <1>3, AtTheStart DEF Init, HeldIn, StoredIn
  <2>4. prg = [p \in Parties |-> GeneratorsIn(p, at[p], mode[p])]
    <3>1. \A i \in 1 .. NumCalls : ~ (i < 1)
      OBVIOUS
    <3>2. \A p \in Parties : GeneratorsIn(p, 1, "ready") = [i \in 1 .. NumCalls |-> {}]
      BY <3>1 DEF GeneratorsIn
    <3> QED BY <1>1, <3>2 DEF Init
  <2>5. refilled = [p \in Parties |-> RefilledIn(at[p], mode[p])]
    BY <1>1, AtTheStart DEF Init, RefilledIn
  <2> QED BY <2>1, <2>2, <2>3, <2>4, <2>5 DEF Init, Local
<1>6. InTransit
  <2>1. \A p, q \in Parties : SentNow(p, q) = 0 /\ ReceivedNow(p, q) = 0
    BY <1>1, <1>2 DEF SentNow, ReceivedNow, SentIn, ReceivedIn
  <2>2. \A p, q \in Parties : Slice(Messages(p, q), 0, 0) = << >>
    BY Slices
  <2> QED BY <2>1, <2>2 DEF Init, InTransit, Others
<1> QED
  BY <1>4, <1>5, <1>6 DEF IInv

(* A step of any party keeps the invariant, and so does none.              *)
LEMMA NextKeeps == IInv /\ [Next]_vars => IInv'
<1> SUFFICES ASSUME IInv, [Next]_vars
             PROVE  IInv'
  OBVIOUS
<1>1. CASE Next
  <2>1. PICK p \in Parties : PartyStep(p)
    BY <1>1 DEF Next
  <2> QED
    BY <2>1, CommitKeeps, StoreCommitmentsKeeps, VerifyHashesKeeps, StandAsideKeeps, OpenKeeps,
       VerifyOpeningsKeeps, CheckKeeps DEF PartyStep
<1>2. CASE UNCHANGED vars
  <2>1. /\ UNCHANGED <<at, mode>>
        /\ InCalls /\ Local /\ InTransit
    BY <1>2 DEF vars, IInv
  <2>2. InCalls'
    BY <2>1 DEF InCalls
  <2>3. Local'
    BY <1>2, <2>1 DEF vars, Local
  <2>4. InTransit'
    BY <1>2, <2>1 DEF vars, InTransit, SentNow, ReceivedNow
  <2> QED BY <2>2, <2>3, <2>4 DEF IInv
<1> QED
  BY <1>1, <1>2

(* Whatever the interleaving, every party has what the sequential          *)
(* execution of the calls gives it.                                        *)
THEOREM InStep == Spec => []IInv
BY InitKeeps, NextKeeps, PTL DEF Spec

-----------------------------------------------------------------------------
(* What follows.                                                           *)

(* While all are honest no check of the queue fails.                       *)
THEOREM NeverFails == Spec => []NoFalseAlarm
<1>1. IInv => NoFalseAlarm
  BY Has DEF NoFalseAlarm
<1> QED
  BY <1>1, InStep, PTL

(* A party has opened no more seeds than it stored, and stored no more     *)
(* than it generated.                                                      *)
LEMMA SeedsLeft ==
    ASSUME NEW p \in Parties, NEW c \in 1 .. NumCalls + 1, NEW m, Fits(p, c, m)
    PROVE  /\ StoredIn(c, m) \in Nat /\ GeneratedIn(c, m) \in Nat
           /\ StoredIn(c, m) <= GeneratedIn(c, m) /\ StoredAt(c) <= StoredIn(c, m)
           /\ Len(SeedsIn(p, c, m)) = StoredIn(c, m) - UsedAt(p, IF m = "opened" THEN c + 1 ELSE c)
           /\ UsedAt(p, IF m = "opened" THEN c + 1 ELSE c) \in Nat
           /\ UsedAt(p, IF m = "opened" THEN c + 1 ELSE c) <= StoredIn(c, m)
<1> DEFINE d == IF m = "opened" THEN c + 1 ELSE c
           a == UsedAt(p, d)
           b == StoredIn(c, m)
<1>1. c \in Nat \ {0} /\ c + 1 \in Nat \ {0} /\ d \in Nat \ {0}
  BY NumbersOfCalls
<1>2. a \in Nat /\ b \in Nat /\ GeneratedIn(c, m) \in Nat
  BY <1>1, Counts DEF StoredIn, GeneratedIn
<1>3. StoredAt(c) <= StoredAt(c + 1) /\ StoredAt(c) \in Nat /\ StoredAt(c + 1) \in Nat
  BY <1>1, Growth, Counts
<1>4. b <= GeneratedIn(c, m) /\ StoredAt(c) <= b
  BY <1>3 DEF StoredIn, GeneratedIn
<1>5. a <= b
  <2>1. CASE m = "opened"
    <3>1. Phase(c) # 0
      BY <1>1, <2>1, Calls DEF Fits
    <3>2. Call(c).kind = "open"
      BY <1>1, <3>1, Calls
    <3>3. StoredAt(c + 1) = StoredAt(c)
      BY <1>1, <3>2, OpeningCounts
    <3>4. UsedAt(p, c + 1) <= StoredAt(c + 1)
      BY <1>1, Enough
    <3> QED BY <2>1, <3>3, <3>4 DEF StoredIn
  <2>2. CASE m # "opened"
    <3>1. UsedAt(p, c) <= StoredAt(c) /\ UsedAt(p, c) \in Nat
      BY <1>1, Enough, Counts
    <3> QED BY <1>2, <1>3, <1>4, <2>2, <3>1
  <2> QED BY <2>1, <2>2
<1>6. Len(SeedsIn(p, c, m)) = b - a
  <2>1. SeedsIn(p, c, m) = Slice(Seeds, a, b)
    BY DEF SeedsIn
  <2> HIDE DEF a, b
  <2> QED BY <1>2, <1>5, <2>1, SliceIs
<1> QED
  BY <1>2, <1>4, <1>5, <1>6

(* The variables have their types, and no party has more seeds of its own  *)
(* than it generated.                                                      *)
THEOREM TypeCorrect == Spec => []TypeOK
<1>1. IInv => TypeOK
  <2> SUFFICES ASSUME IInv
               PROVE  TypeOK
    OBVIOUS
  <2>1. ASSUME NEW p \in Parties
        PROVE  /\ generated[p] \in Nat
               /\ Len(localSeeds[p]) <= generated[p] /\ commitments[p][p] = << >>
    <3>1. /\ generated[p] = GeneratedIn(at[p], mode[p]) /\ commitments[p] = HeldIn(p, at[p], mode[p])
          /\ localSeeds[p] = SeedsIn(p, at[p], mode[p]) /\ at[p] \in 1 .. NumCalls + 1
          /\ Fits(p, at[p], mode[p])
      BY Has
    <3>2. commitments[p][p] = << >>
      BY <3>1 DEF HeldIn
    <3> QED BY <3>1, <3>2, SeedsLeft
  <2>2. /\ generated = [p \in Parties |-> generated[p]]
        /\ failed \in [Parties -> BOOLEAN]
        /\ at \in [Parties -> 1 .. NumCalls + 1]
        /\ mode \in [Parties -> {"ready", "refill", "committed", "stored", "opened"}]
    BY DEF IInv, InCalls, Local
  <2>3. generated \in [Parties -> Nat]
    BY <2>1, <2>2
  <2> QED BY <2>1, <2>2, <2>3 DEF TypeOK
<1> QED
  BY <1>1, InStep, PTL

(* No party is short of a seed or of a commitment in the call it is about  *)
(* to make.                                                                *)
THEOREM QueuesSuffice == Spec => []NeverDry
<1>1. IInv => NeverDry
  <2> SUFFICES ASSUME IInv, NEW p \in Parties, Running(p, "ready"), Call(at[p]).kind = "open"
               PROVE  /\ \A q \in Call(at[p]).group \ {p} : commitments[p][q] # << >>
                      /\ p \in Call(at[p]).group => localSeeds[p] # << >>
    BY DEF NeverDry
  <2> DEFINE c == at[p]
  <2>1. /\ c \in Nat \ {0} /\ Call(c).kind = "open"
        /\ commitments[p] = HeldIn(p, c, "ready") /\ localSeeds[p] = SeedsIn(p, c, "ready")
    BY Has DEF Running
  <2>2. /\ \A q \in Parties : commitments[p][q] = IF q = p THEN << >>
                                                  ELSE Slice(Seeds, UsedAt(q, c), StoredAt(c))
        /\ localSeeds[p] = Slice(Seeds, UsedAt(p, c), StoredAt(c))
    BY <2>1 DEF HeldIn, SeedsIn, StoredIn
  <2>3. \A q \in Groups(c) : q \in Parties /\ Slice(Seeds, UsedAt(q, c), StoredAt(c)) # << >>
    BY <2>1, OpeningCounts, FirstSeed
  <2> QED BY <2>2, <2>3 DEF Groups
<1> QED
  BY <1>1, InStep, PTL

(* Whichever party is ahead, it decided in each check what the others      *)
(* decide in it.                                                           *)
THEOREM DecisionsAgree == Spec => []SameDecisions
<1>1. IInv => SameDecisions
  <2> SUFFICES ASSUME IInv, NEW p \in Parties, NEW q \in Parties, NEW k \in 1 .. Len(refilled[p]),
                      k <= Len(refilled[q])
               PROVE  refilled[p][k] = refilled[q][k]
    BY DEF SameDecisions
  <2> DEFINE a == IF mode[p] \in {"refill", "committed", "stored"} THEN at[p] + 1 ELSE at[p]
             b == IF mode[q] \in {"refill", "committed", "stored"} THEN at[q] + 1 ELSE at[q]
  <2>1. a \in Nat \ {0} /\ b \in Nat \ {0}
    BY Has
  <2>2. refilled[p] = RefilledAt(a) /\ refilled[q] = RefilledAt(b)
    BY Has DEF RefilledIn
  <2>3. Len(RefilledAt(b)) \in Nat /\ Len(RefilledAt(a)) \in Nat
    BY <2>1, Counts, LenProperties
  <2>4. k \in 1 .. Len(RefilledAt(a)) /\ k \in 1 .. Len(RefilledAt(b))
    BY <2>2, <2>3
  <2> HIDE DEF a, b
  <2>5. CASE a <= b
    BY <2>1, <2>2, <2>4, <2>5, Growth
  <2>6. CASE b <= a
    BY <2>1, <2>2, <2>4, <2>6, Growth
  <2> QED BY <2>1, <2>5, <2>6
<1> QED
  BY <1>1, InStep, PTL

(* What a call has returned, or is about to, is part of the generator the  *)
(* call makes.                                                             *)
LEMMA Generators ==
    ASSUME IInv, NEW p \in Parties, NEW i \in 1 .. NumCalls
    PROVE  /\ i < at[p] /\ p \in Groups(i) => prg[p][i] = Generator(i)
           /\ prg[p][i] # {} <=> p \in Groups(i) /\ (i < at[p] \/ (i = at[p] /\ mode[p] = "opened"))
           /\ prg[p][i] \subseteq Generator(i)
<1>1. /\ prg[p][i] = IF i < at[p] /\ p \in Groups(i) THEN Generator(i)
                     ELSE IF i = at[p] /\ mode[p] = "opened" THEN {<<p, UsedAt(p, at[p]) + 1>>} ELSE {}
      /\ mode[p] = "opened" => p \in Groups(at[p])
      /\ at[p] \in Nat
  BY Has DEF GeneratorsIn, Fits
<1>2. p \in Groups(i) => <<p, UsedAt(p, i) + 1>> \in Generator(i)
  BY DEF Generator
<1> QED
  BY <1>1, <1>2

(* No seed is part of two generators.                                      *)
LEMMA NoneTwice ==
    ASSUME NEW i \in Nat \ {0}, NEW j \in Nat \ {0}, i < j
    PROVE  Generator(i) \cap Generator(j) = {}
<1> SUFFICES ASSUME NEW q \in Groups(i), NEW r \in Groups(j),
                    <<q, UsedAt(q, i) + 1>> = <<r, UsedAt(r, j) + 1>>
             PROVE  FALSE
  BY DEF Generator
<1>1. q \in Parties /\ r = q
  BY Calls
<1>2. UsedAt(q, i + 1) = UsedAt(q, i) + 1
  BY <1>1, Changes
<1>3. i + 1 \in Nat \ {0} /\ i + 1 <= j
  OBVIOUS
<1>4. UsedAt(q, i + 1) <= UsedAt(q, j)
  BY <1>1, <1>3, Growth
<1>5. UsedAt(q, i) \in Nat /\ UsedAt(q, j) \in Nat
  BY <1>1, Counts
<1>6. UsedAt(q, i) + 1 = UsedAt(q, j) + 1
  BY <1>1
<1> QED
  BY <1>2, <1>4, <1>5, <1>6

(* The members of a group get the same generator, of one seed of each, and *)
(* no seed is used twice.                                                  *)
THEOREM GeneratorsAgree == Spec => []CommonGenerators
<1>1. IInv => CommonGenerators
  <2> SUFFICES ASSUME IInv
               PROVE  CommonGenerators
    OBVIOUS
  <2>1. ASSUME NEW p \in Parties, NEW q \in Parties, NEW i \in 1 .. NumCalls,
               Finished(p, i), Finished(q, i)
        PROVE  prg[p][i] = prg[q][i]
    BY <2>1, Generators DEF Finished, Groups
  <2>2. ASSUME NEW p \in Parties, NEW i \in 1 .. NumCalls, Finished(p, i)
        PROVE  {s[1] : s \in prg[p][i]} = Call(i).group
    <3>1. prg[p][i] = Generator(i)
      BY <2>2, Generators DEF Finished, Groups
    <3>2. {s[1] : s \in Generator(i)} = Groups(i)
      <4>1. \A r \in Groups(i) : <<r, UsedAt(r, i) + 1>> \in Generator(i)
                                /\ <<r, UsedAt(r, i) + 1>>[1] = r
        BY DEF Generator
      <4>2. \A s \in Generator(i) : s[1] \in Groups(i)
        BY DEF Generator
      <4> QED BY <4>1, <4>2
    <3> QED BY <3>1, <3>2 DEF Groups
  <2>3. ASSUME NEW p \in Parties, NEW q \in Parties, NEW i \in 1 .. NumCalls, NEW j \in 1 .. NumCalls,
               i # j
        PROVE  prg[p][i] \cap prg[q][j] = {}
    <3>1. prg[p][i] \subseteq Generator(i) /\ prg[q][j] \subseteq Generator(j)
      BY Generators
    <3>2. i \in Nat \ {0} /\ j \in Nat \ {0} /\ (i < j \/ j < i)
      BY <2>3, NumbersOfCalls
    <3>3. Generator(i) \cap Generator(j) = {}
      BY <3>2, NoneTwice
    <3> QED BY <3>1, <3>3
  <2> QED BY <2>1, <2>2, <2>3 DEF CommonGenerators
<1> QED
  BY <1>1, InStep, PTL

(* A party has opened as many seeds as calls had it in their group.        *)
LEMMA OpenedCount ==
    ASSUME NEW q \in Parties, NEW c \in Nat \ {0}
    PROVE  Cardinality({i \in 1 .. c - 1 : q \in Groups(i)}) = UsedAt(q, c)
<1> DEFINE O(n) == {i \in 1 .. n - 1 : q \in Groups(i)}
           S == {n \in Nat \ {0} : IsFiniteSet(O(n)) /\ Cardinality(O(n)) = UsedAt(q, n)}
<1>1. 1 \in S
  <2>1. O(1) = {}
    OBVIOUS
  <2> HIDE DEF O
  <2> QED BY <2>1, FS_EmptySet, AtTheStart
<1>2. ASSUME NEW n \in Nat \ {0}, n \in S
      PROVE  n + 1 \in S
  <2>1. 1 .. (n + 1) - 1 = (1 .. n - 1) \cup {n} /\ n \notin 1 .. n - 1
    OBVIOUS
  <2>2. O(n + 1) = IF q \in Groups(n) THEN O(n) \cup {n} ELSE O(n)
    BY <2>1
  <2>3. n \notin O(n)
    BY <2>1
  <2>4. UsedAt(q, n + 1) = IF q \in Groups(n) THEN UsedAt(q, n) + 1 ELSE UsedAt(q, n)
    BY Changes
  <2> HIDE DEF O
  <2>5. IsFiniteSet(O(n)) /\ Cardinality(O(n)) = UsedAt(q, n)
    BY <1>2
  <2>6. IsFiniteSet(O(n) \cup {n}) /\ Cardinality(O(n) \cup {n}) = UsedAt(q, n) + 1
    BY <2>3, <2>5, FS_AddElement
  <2> QED BY <2>2, <2>4, <2>5, <2>6
<1> HIDE DEF S
<1>3. c \in S
  BY <1>1, <1>2, FromOne
<1> QED
  BY <1>3 DEF S

(* What a party has stored, counted by what it has left and has opened.    *)
LEMMA StoredIs ==
    ASSUME IInv, NEW q \in Parties
    PROVE  Stored(q) = StoredIn(at[q], mode[q])
<1> DEFINE c == at[q]
           d == IF mode[q] = "opened" THEN c + 1 ELSE c
<1>1. /\ c \in 1 .. NumCalls + 1 /\ c \in Nat \ {0} /\ Fits(q, c, mode[q])
      /\ localSeeds[q] = SeedsIn(q, c, mode[q])
  BY Has
<1>2. {i \in 1 .. NumCalls : prg[q][i] # {}} = {i \in 1 .. d - 1 : q \in Groups(i)}
  <2>1. \A i \in 1 .. NumCalls : prg[q][i] # {} <=> q \in Groups(i) /\ i < d
    <3> SUFFICES ASSUME NEW i \in 1 .. NumCalls
                 PROVE  prg[q][i] # {} <=> q \in Groups(i) /\ i < d
      OBVIOUS
    <3>1. i < d <=> i < c \/ (i = c /\ mode[q] = "opened")
      BY <1>1
    <3> QED BY <3>1, Generators
  <2>2. d - 1 <= NumCalls /\ d \in Nat
    BY <1>1, NumbersOfCalls DEF Fits
  <2>3. \A i : i \in 1 .. d - 1 <=> i \in 1 .. NumCalls /\ i < d
    BY <2>2, NumbersOfCalls
  <2> HIDE DEF c, d
  <2> QED BY <2>1, <2>3
<1>3. Cardinality({i \in 1 .. d - 1 : q \in Groups(i)}) = UsedAt(q, d)
  <2>1. d \in Nat \ {0}
    BY <1>1
  <2> HIDE DEF d
  <2> QED BY <2>1, OpenedCount
<1>4. /\ Len(localSeeds[q]) = StoredIn(c, mode[q]) - UsedAt(q, d)
      /\ StoredIn(c, mode[q]) \in Nat /\ UsedAt(q, d) \in Nat
  BY <1>1, SeedsLeft
<1>5. Stored(q) = Len(localSeeds[q]) + UsedAt(q, d)
  <2> HIDE DEF d
  <2>1. Cardinality({i \in 1 .. NumCalls : prg[q][i] # {}}) = UsedAt(q, d)
    BY <1>2, <1>3, Zenon
  <2> QED BY <2>1 DEF Stored
<1>6. StoredIn(c, mode[q]) = StoredIn(at[q], mode[q])
  OBVIOUS
<1> HIDE DEF c, d
<1> QED
  BY <1>4, <1>5, <1>6

(* A party that another has passed in a call has stored what the call      *)
(* needs: it has sent all that the other received in the calls before.     *)
LEMMA StoredBefore ==
    ASSUME IInv, NEW p \in Parties, NEW q \in Parties, NEW i \in Nat \ {0}, i <= at[p]
    PROVE  StoredAt(i) <= StoredIn(at[q], mode[q])
<1> DEFINE c == at[p]
           d == at[q]
<1>1. /\ c \in Nat \ {0} /\ d \in Nat \ {0} /\ d + 1 \in Nat \ {0}
      /\ d \in 1 .. NumCalls + 1 /\ Fits(q, d, mode[q])
  BY Has
<1>2. StoredAt(d) <= StoredIn(d, mode[q]) /\ StoredIn(d, mode[q]) \in Nat
  BY <1>1, SeedsLeft
<1>3. StoredAt(i) \in Nat /\ StoredAt(d) \in Nat /\ StoredAt(d + 1) \in Nat
  BY <1>1, Counts
<1>4. CASE i <= d
  <2>1. StoredAt(i) <= StoredAt(d)
    BY <1>1, <1>4, Growth
  <2> QED BY <1>2, <1>3, <2>1
<1>5. CASE d < i
  <2>1. p # q /\ p \in Others(q) /\ q \in Others(p)
    BY <1>1, <1>5 DEF Others
  <2> DEFINE sent(n) == SentAt(q, p, n)
  <2>2. /\ sent(i) \in Nat /\ sent(d) \in Nat /\ sent(d + 1) \in Nat /\ sent(c) \in Nat
        /\ SentAt(p, q, c) = sent(c)
    BY <1>1, Counts
  <2>3. sent(d) <= sent(d + 1) /\ sent(d + 1) <= sent(i) /\ sent(i) <= sent(c)
    <3>1. d <= d + 1 /\ d + 1 <= i /\ i <= c
      BY <1>1, <1>5
    <3>2. sent(d) <= sent(d + 1)
      BY <1>1, <3>1, Growth
    <3>3. sent(d + 1) <= sent(i)
      BY <1>1, <3>1, Growth
    <3>4. sent(i) <= sent(c)
      BY <1>1, <3>1, Growth
    <3> QED BY <3>2, <3>3, <3>4
  <2>4. /\ sent(d + 1) = sent(i) => StoredAt(d + 1) = StoredAt(i)
        /\ sent(d) = sent(i) => StoredAt(d) = StoredAt(i)
    BY <1>1, <1>5, Growth
  <2>5. sent(c) <= ReceivedNow(p, q) /\ ReceivedNow(p, q) \in Nat
    BY <2>2 DEF ReceivedNow, ReceivedIn
  <2>6. ReceivedNow(p, q) <= SentNow(q, p) /\ SentNow(q, p) \in Nat
    BY <2>1, Receiving DEF IInv, InTransit
  <2>7. sent(i) <= SentNow(q, p)
    BY <2>2, <2>3, <2>5, <2>6
  <2>8. CASE mode[q] = "committed"
    <3>1. sent(d + 1) = sent(d) + 2
      BY <1>1, <2>8, RefillCounts DEF Fits
    <3>2. SentNow(q, p) = sent(d) + 1
      BY <2>8 DEF SentNow, SentIn
    <3> QED BY <2>2, <2>3, <2>7, <3>1, <3>2
  <2>9. CASE mode[q] = "stored"
    <3>1. SentNow(q, p) = sent(d + 1) /\ StoredIn(d, mode[q]) = StoredAt(d + 1)
      BY <2>9 DEF SentNow, SentIn, StoredIn
    <3> QED BY <1>3, <2>2, <2>3, <2>4, <2>7, <3>1
  <2>10. CASE mode[q] = "opened"
    <3>1. SentNow(q, p) = sent(d + 1) /\ StoredIn(d, mode[q]) = StoredAt(d)
      BY <2>10 DEF SentNow, SentIn, StoredIn
    <3>2. StoredAt(d + 1) = StoredAt(d)
      <4>1. Phase(d) # 0
        BY <1>1, <2>10, Calls DEF Fits
      <4> QED BY <1>1, <4>1, Calls, OpeningCounts
    <3> QED BY <1>3, <2>2, <2>3, <2>4, <2>7, <3>1, <3>2
  <2>11. CASE mode[q] \notin {"committed", "stored", "opened"}
    <3>1. SentNow(q, p) = sent(d) /\ StoredIn(d, mode[q]) = StoredAt(d)
      BY <2>11 DEF SentNow, SentIn, StoredIn
    <3> QED BY <1>3, <2>2, <2>3, <2>4, <2>7, <3>1
  <2> QED BY <2>8, <2>9, <2>10, <2>11
<1> QED
  BY <1>1, <1>4, <1>5

(* A seed is opened only when every other party holds, or held, its        *)
(* commitment.                                                             *)
THEOREM OpenedWhenCommitted == Spec => []CommittedBeforeOpened
<1>1. IInv => CommittedBeforeOpened
  <2> SUFFICES ASSUME IInv, NEW p \in Parties, NEW q \in Parties, NEW i \in 1 .. NumCalls,
                      NEW s \in prg[p][i], s[1] = p
               PROVE  s[2] <= Stored(q)
    BY DEF CommittedBeforeOpened
  <2>1. i \in Nat \ {0} /\ i <= at[p] /\ s \in Generator(i)
    BY Generators, Has, NumbersOfCalls
  <2>2. p \in Groups(i) /\ s[2] = UsedAt(p, i) + 1
    BY <2>1 DEF Generator
  <2>3. UsedAt(p, i) < StoredAt(i) /\ UsedAt(p, i) \in Nat /\ StoredAt(i) \in Nat
    BY <2>1, <2>2, Enough, Counts
  <2>4. StoredAt(i) <= StoredIn(at[q], mode[q]) /\ StoredIn(at[q], mode[q]) \in Nat
    BY <2>1, StoredBefore, Has, SeedsLeft
  <2> QED BY <2>2, <2>3, <2>4, StoredIs
<1> QED
  BY <1>1, InStep, PTL
=============================================================================
