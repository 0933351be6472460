---------------------------- MODULE Permutations ----------------------------
(***************************************************************************)
(* Shuffles of secret columns: how the random permutations are drawn, how  *)
(* they are applied by groups of parties or by two parties with a          *)
(* permutation correlation, the operations on secret permutations, and the *)
(* queues that hold permutations and other correlations made ahead of use. *)
(*                                                                         *)
(* A permutation p sends row i to row p[i] (Sorting.tla).  A sharded       *)
(* permutation is a sequence of permutations, one per group or party, and  *)
(* stands for applying them one after the other; nobody knows them all.    *)
(***************************************************************************)
EXTENDS Sorting

----------------------------------------------------------------------------
(* gen_perm: an exchange per row.  A random word is cut down to the bits   *)
(* of the size and passed over when it is too large; whole buffers are     *)
(* drawn from the generator and what is left of the last one is dropped.   *)
BitWidth(n) == IF n = 0 THEN 0 ELSE Log2(n) + 1
GenPerm(n, random, buffer) ==
    LET mask == 2 ^ BitWidth(n)
        Fits(k, i) == random[k] % mask <= n - i
        after[i \in 0 .. n] ==
            IF i = 0 THEN [perm |-> Whole(n), used |-> 0]
            ELSE LET s == after[i - 1]
                     k == CHOOSE k \in s.used + 1 .. Len(random) :
                              Fits(k, i) /\ \A l \in s.used + 1 .. k - 1 : ~Fits(l, i)
                 IN  [perm |-> Exchange(s.perm, i, i + (random[k] % mask)), used |-> k]
    IN  [perm |-> after[n].perm, drawn |-> (after[n].used \div buffer + 1) * buffer]

----------------------------------------------------------------------------
(* Sharded permutations of three and four parties: each group permutes the *)
(* shares of its members and the result is shared anew; the inverse takes  *)
(* the groups from the last to the first.                                  *)
ApplyInverse(x, p) == Read(x, p)
ApplySharded(x, groups) ==
    LET after[g \in 0 .. Len(groups)] == IF g = 0 THEN x ELSE Apply(after[g - 1], groups[g])
    IN  after[Len(groups)]

(* Seeded error: the groups undone in the order they permuted.             *)
ApplyInverseForward(x, groups) ==
    LET after[g \in 0 .. Len(groups)] == IF g = 0 THEN x ELSE Read(after[g - 1], groups[g])
    IN  after[Len(groups)]

ApplyInverseSharded(x, groups) ==
    LET n == Len(groups)
        after[g \in 0 .. n] ==
            IF g = 0 THEN x ELSE ApplyInverse(after[g - 1], groups[n + 1 - g])
    IN  after[n]

----------------------------------------------------------------------------
(* Two parties.  Words are added modulo m; bits are the words modulo 2.  A *)
(* correlation for a sender: the sender holds pi and c, the receiver a and *)
(* b, and pi(a) is b plus c.                                               *)
AddVectors(x, y, m) == Materialize([i \in DOMAIN x |-> (x[i] + y[i]) % m])
SubVectors(x, y, m) == Materialize([i \in DOMAIN x |-> (x[i] - y[i]) % m])
Correlation(pi, a, b, m) == [pi |-> pi, a |-> a, b |-> b, c |-> SubVectors(Apply(a, pi), b, m)]
OpenedShares(x, m) == AddVectors(x[1], x[2], m)

(* dm_perm_convert_b2a: b and c become summands of the same words.         *)
ToArithmetic(corr, b, m) ==
    LET permuted == AddVectors(corr.b, corr.c, 2)
    IN  [corr EXCEPT !.b = b, !.c = SubVectors(permuted, b, m)]

PermuteAndShare(x, sender, corr, m) ==
    LET receiver == 3 - sender
        delta == SubVectors(x[receiver], corr.a, m)
        blinded == AddVectors(Apply(delta, corr.pi), corr.c, m)
    IN  [p \in 1 .. 2 |->
            IF p = sender THEN AddVectors(Apply(x[p], corr.pi), blinded, m) ELSE corr.b]
PermuteAndShareInverse(x, sender, corr, m) ==
    LET receiver == 3 - sender
        delta == SubVectors(SubVectors(x[receiver], corr.b, m), corr.c, m)
    IN  [p \in 1 .. 2 |->
            IF p = sender
            THEN AddVectors(ApplyInverse(x[p], corr.pi), ApplyInverse(delta, corr.pi), m)
            ELSE corr.a]

ApplyShardedByTwo(x, corr, m) ==
    PermuteAndShare(PermuteAndShare(x, 1, corr[1], m), 2, corr[2], m)
ApplyInverseShardedByTwo(x, corr, m) ==
    PermuteAndShareInverse(PermuteAndShareInverse(x, 2, corr[2], m), 1, corr[1], m)

----------------------------------------------------------------------------
(* Secret permutations: what is opened is shuffled by a sharded one first. *)
ApplyElementwise(x, perm, pi) == Apply(ApplySharded(x, pi), ApplySharded(perm, pi))
ComposePermutations(sigma, rho, pi) ==
    ApplyInverseSharded(ApplyInverse(rho, ApplySharded(sigma, pi)), pi)
InvertPermutation(perm, pi) == ApplyElementwise(Whole(Len(perm)), perm, pi)
ReversePermutation(perm) == [i \in DOMAIN perm |-> Len(perm) + 1 - perm[i]]
B2APermutation(perm, pi) == ApplyInverseSharded(ApplySharded(perm, pi), pi)

(* The columns of a table: one secret permutation, opened once per column  *)
(* under a sharded permutation of its own.                                 *)
ShuffleColumns(columns, pi, pis) ==
    LET perm == ApplySharded(Whole(Len(columns[1])), pi)
    IN  [c \in DOMAIN columns |-> ApplyElementwise(columns[c], perm, pis[c])]

----------------------------------------------------------------------------
(* The queues of the permutation manager.  A permutation is its size and   *)
(* the number of the generator it came from: the two of a pair must be the *)
(* same permutation.                                                       *)
EmptyManager == [queue |-> <<>>, pairs |-> <<>>, stored |-> 0, made |-> 0]
Fresh(made, size, n) == [i \in 1 .. n |-> [size |-> size, id |-> made + i]]
Twice(made, size, n) == [i \in 1 .. n |-> <<Fresh(made, size, n)[i], Fresh(made, size, n)[i]>>]

Lacking(asked, held) == IF asked > held THEN asked - held ELSE asked
Reserve(m, parties, size, permutations, numPairs) ==
    LET asked == IF parties = 2 THEN permutations ELSE permutations + numPairs
        askedPairs == IF parties = 2 THEN numPairs ELSE 0
        stale == m.stored # size
        kept == IF stale THEN [m EXCEPT !.queue = <<>>, !.pairs = <<>>, !.stored = size] ELSE m
        held == Len(kept.queue)
        heldPairs == Len(kept.pairs)
        make == Lacking(asked, held)
        makePairs == Lacking(askedPairs, heldPairs)
    IN  IF asked <= held /\ askedPairs <= heldPairs THEN kept
        ELSE [kept EXCEPT !.made = @ + makePairs + make,
                          !.pairs = @ \o Twice(kept.made, size, makePairs),
                          !.queue = @ \o Fresh(kept.made + makePairs, size, make)]

(* An empty queue is passed by, for a permutation of the size asked for.   *)
GetNext(m, parties, size) ==
    IF m.queue = <<>>
    THEN [m |-> [m EXCEPT !.made = @ + 1], got |-> <<[size |-> size, id |-> m.made + 1]>>]
    ELSE LET r == IF size # m.stored THEN Reserve(m, parties, size, 1, 0) ELSE m
         IN  [m |-> [r EXCEPT !.queue = Tail(@)], got |-> <<Head(r.queue)>>]

(* A pair.  With more than two parties it is a permutation of the queue    *)
(* and a copy, whose size an assertion checks; with two it is the head of  *)
(* the queue of pairs, whatever its size.                                  *)
GetNextPair(m, parties, size) ==
    IF parties # 2
    THEN LET next == IF m.queue = <<>> THEN GetNext(m, parties, size)
                     ELSE [m |-> [m EXCEPT !.queue = Tail(@)], got |-> <<Head(m.queue)>>]
         IN  [m |-> next.m, got |-> <<next.got[1], next.got[1]>>]
    ELSE LET r == IF m.pairs = <<>> THEN Reserve(m, parties, size, 0, 1) ELSE m
         IN  [m |-> [r EXCEPT !.pairs = Tail(@)], got |-> Head(r.pairs)]

(* One call after the other, and what each one got.                        *)
Serve(m, parties, request) ==
    CASE request.call = "reserve" ->
             [m |-> Reserve(m, parties, request.size, request.permutations, request.pairs), got |-> <<>>]
      [] request.call = "getNext" -> GetNext(m, parties, request.size)
      [] request.call = "getNextPair" -> GetNextPair(m, parties, request.size)
ServeAll(parties, requests) ==
    LET after[k \in 0 .. Len(requests)] ==
            IF k = 0 THEN [m |-> EmptyManager, got |-> <<>>]
            ELSE LET s == after[k - 1]
                     next == Serve(s.m, parties, requests[k])
                 IN  [m |-> next.m, got |-> Append(s.got, next.got)]
    IN  after[Len(requests)]

----------------------------------------------------------------------------
(* A pool of correlations: the elements its generator made, by number.     *)
EmptyPool == [queue |-> <<>>, next |-> 1]
NextOf(generator, n) == [i \in 1 .. n |-> generator + i - 1]
PoolReserve(p, n) == [queue |-> p.queue \o NextOf(p.next, n), next |-> p.next + n]
PoolGetNext(p, n) ==
    IF Len(p.queue) < n
    THEN [p |-> [p EXCEPT !.next = @ + n], got |-> NextOf(p.next, n)]
    ELSE [p |-> [p EXCEPT !.queue = SubSeq(@, n + 1, Len(@))], got |-> SubSeq(p.queue, 1, n)]
PoolServeAll(requests) ==
    LET after[k \in 0 .. Len(requests)] ==
            IF k = 0 THEN [p |-> EmptyPool, got |-> <<>>]
            ELSE LET s == after[k - 1]
                     r == requests[k]
                 IN  IF r.call = "reserve"
                     THEN [p |-> PoolReserve(s.p, r.size), got |-> Append(s.got, <<>>)]
                     ELSE LET next == PoolGetNext(s.p, r.size)
                          IN  [p |-> next.p, got |-> Append(s.got, next.got)]
    IN  after[Len(requests)]
=============================================================================
