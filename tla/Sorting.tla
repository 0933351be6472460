------------------------------ MODULE Sorting ------------------------------
(***************************************************************************)
(* The oblivious sorts: the networks (bitonic, pairwise, the two merges),  *)
(* quicksort and radix sort on padded keys, and the sort of a table, which *)
(* composes one permutation per key.                                       *)
(*                                                                         *)
(* A row is a sequence of words, one per key column, and the order says    *)
(* of every key whether it is ascending.  What follows the keys in a row   *)
(* is carried along.  A permutation p sends row i to row p[i].             *)
(***************************************************************************)
EXTENDS Scans

CONSTANT WordBits      \* the width of a key

WordBitsAssumption == WordBits \in Nat \ {0}

MinWord == -(2 ^ (WordBits - 1))
Words == MinWord .. -MinWord - 1
KeyBit(w, i) == (w \div 2 ^ i) % 2

(* compare_rows: the first key that differs decides.                       *)
RowGreater(x, y, order) ==
    \E k \in DOMAIN order :
        /\ \A l \in 1 .. k - 1 : x[l] = y[l]
        /\ IF order[k] = "ASC" THEN x[k] > y[k] ELSE y[k] > x[k]

----------------------------------------------------------------------------
(* The networks: a comparison of the rows of two views, and a swap.        *)

CompareSwap(rows, x, y, order) ==
    LET a == Read(rows, x)
        b == Read(rows, y)
        bits == [j \in DOMAIN x |-> RowGreater(a[j], b[j], order)]
        low == [j \in DOMAIN x |-> IF bits[j] THEN b[j] ELSE a[j]]
        high == [j \in DOMAIN x |-> IF bits[j] THEN a[j] ELSE b[j]]
    IN  Write(Write(rows, x, low), y, high)

(* Runs of included rows, each followed by as many rows left out.          *)
Alternating(v, included) ==
    LET chunks == Len(v) \div (2 * included)
        rest == Len(v) % (2 * included)
        size == chunks * included + (IF rest < included THEN rest ELSE included)
    IN  Materialize([i \in 1 .. size |->
            v[((i - 1) \div included) * (2 * included) + ((i - 1) % included) + 1]])

ReverseInPlace(rows, v) == Write(rows, v, Reversed(Read(rows, v)))

(* Stage j of round i: the first stage of a round reverses one half.       *)
BitonicStage(rows, i, j, order) ==
    LET n == Len(rows)
        spacing == 2 ^ (i - j)
        x == Alternating(Whole(n), spacing)
        y == Alternating(Slice(Whole(n), spacing + 1, n), spacing)
        turned == IF j = 0 THEN ReverseInPlace(rows, y) ELSE rows
    IN  CompareSwap(turned, x, y, order)

BitonicSort(rows, order) ==
    LET rounds == Log2(Len(rows))
        stage[i \in 0 .. rounds, j \in -1 .. rounds] ==
            IF j >= 0 THEN BitonicStage(stage[i, j - 1], i, j, order)
            ELSE IF i = 0 THEN rows
            ELSE stage[i - 1, i - 1]
    IN  stage[rounds, -1]

(* The rounds of the pairwise network for any number of rows, in order:    *)
(* distances that double, then those that mend the pairs.                  *)
PairwiseRounds(n) ==
    LET log == IF n = 1 THEN 0 ELSE Log2(n - 1) + 1
        doubling == [k \in 1 .. log |-> [left |-> 0, right |-> 2 ^ (k - 1), step |-> 2 ^ (k - 1)]]
        mending[k \in 0 .. log] ==
            IF k < 2 THEN <<>>
            ELSE LET a == 2 ^ (log - k)
                 IN  mending[k - 1] \o
                     [m \in 1 .. k - 1 |->
                         [left |-> a, right |-> 2 ^ (k - m) * a, step |-> a]]
    IN  SelectSeq(doubling \o mending[log], LAMBDA r : r.right < n)

PairwiseSort(rows, order) ==
    LET n == Len(rows)
        cmp == PairwiseRounds(n)
        after[c \in 0 .. Len(cmp)] ==
            IF c = 0 THEN rows
            ELSE LET delta == cmp[c].right - cmp[c].left
                     x == Slice(Whole(n), cmp[c].left + 1, n - delta)
                     y == Slice(Whole(n), cmp[c].right + 1, n)
                 IN  CompareSwap(after[c - 1], Alternating(x, cmp[c].step),
                                 Alternating(y, cmp[c].step), order)
    IN  after[Len(cmp)]

(* Two sorted halves: the second is turned around, then distances halve.   *)
BitonicMerge(rows, order) ==
    LET n == Len(rows)
        turned == ReverseInPlace(rows, Slice(Whole(n), n \div 2 + 1, n))
        after[i \in 0 .. Log2(n)] ==
            IF i = 0 THEN turned
            ELSE LET distance == n \div 2 ^ i
                 IN  CompareSwap(after[i - 1], Alternating(Whole(n), distance),
                                 Alternating(Slice(Whole(n), distance + 1, n), distance), order)
    IN  after[Log2(n)]

OddEvenMerge(rows, order) ==
    LET n == Len(rows)
        half == n \div 2
        first == CompareSwap(rows, Slice(Whole(n), 1, half), Slice(Whole(n), half + 1, n), order)
        after[i \in 1 .. Log2(n)] ==
            IF i = 1 THEN first
            ELSE LET d == n \div 2 ^ i
                 IN  CompareSwap(after[i - 1],
                                 Alternating(Slice(Whole(n), d + 1, n - d), d),
                                 Alternating(Slice(Whole(n), 2 * d + 1, n), d), order)
    IN  after[Log2(n)]

----------------------------------------------------------------------------
(* Permutations.                                                           *)

Invert(p) == Materialize([i \in DOMAIN p |-> CHOOSE j \in DOMAIN p : p[j] = i])
Apply(x, p) == Read(x, Invert(p))

(* Seeded error: the permutations composed the other way round.           *)
ComposeSwapped(first, second) == Read(first, second)

Compose(first, second) == Read(second, first)
PermutationsOf(n) == {p \in [1 .. n -> 1 .. n] : \A i, j \in 1 .. n : p[i] = p[j] => i = j}

(* A key with its row number, which makes the keys unique and the sort     *)
(* stable; descending sorts run over the rows from the last to the first,  *)
(* their numbers complemented (-1 - i).                                    *)
PadInput(v, order) ==
    IF order = "ASC" THEN [i \in DOMAIN v |-> <<v[i], i - 1>>]
    ELSE Reversed([i \in DOMAIN v |-> <<v[i], -1 - (i - 1)>>])

(* The row numbers of the sorted keys, one up: row 0 is element 1.         *)
RemovePadding(padded, order) ==
    [i \in DOMAIN padded |->
        IF order = "ASC" THEN padded[i][2] + 1 ELSE -1 - padded[i][2] + 1]

PaddedGreater(x, y) == x[1] > y[1] \/ (x[1] = y[1] /\ x[2] > y[2])

(* One call of partition: what is not greater than the pivot at start goes *)
(* to the left, and the pivot between the two parts.                       *)
Exchange(v, i, j) == [v EXCEPT ![i] = v[j], ![j] = v[i]]
Partition(v, start, end) ==
    LET scan[j \in start .. end] ==
            IF j = start THEN [v |-> v, i |-> start]
            ELSE LET s == scan[j - 1]
                 IN  IF PaddedGreater(v[j], v[start]) THEN s
                     ELSE [v |-> Exchange(s.v, j, s.i + 1), i |-> s.i + 1]
        last == scan[end]
    IN  [v |-> Exchange(last.v, start, last.i),
         pivots |-> {last.i} \cup (IF last.i + 1 <= end THEN {last.i + 1} ELSE {})]

(* A round partitions every segment that starts at a pivot; a pivot and    *)
(* the row behind it become pivots.                                        *)
QuicksortRound(s) ==
    LET n == Len(s.v)
        SegmentEnd(p) == CHOOSE e \in p .. n :
            /\ e = n \/ e + 1 \in s.pivots
            /\ \A q \in p + 1 .. e : q \notin s.pivots
        part == [p \in s.pivots |-> Partition(s.v, p, SegmentEnd(p))]
        Owner(i) == CHOOSE p \in s.pivots : p <= i /\ i <= SegmentEnd(p)
    IN  [v |-> [i \in 1 .. n |-> part[Owner(i)].v[i]],
         pivots |-> s.pivots \cup UNION {part[p].pivots : p \in s.pivots}]

QuicksortBody(padded, shuffle) ==
    LET n == Len(padded)
        round[r \in 0 .. n] ==
            IF r = 0 THEN [v |-> Apply(padded, shuffle), pivots |-> {1}]
            ELSE IF Cardinality(round[r - 1].pivots) >= n THEN round[r - 1]
            ELSE QuicksortRound(round[r - 1])
    IN  round[n].v

(* Where every row goes.                                                   *)
Quicksort(v, order, shuffle) ==
    LET sorted == QuicksortBody(PadInput(v, order), shuffle)
        padded == IF order = "DESC" THEN Reversed(sorted) ELSE sorted
    IN  Invert(RemovePadding(padded, order))

(* One pass of radix sort: zeros keep their order and come first.          *)
BitPermutation(f1) ==
    LET n == Len(f1)
        s == [i \in 1 .. 2 * n |-> IF i <= n THEN 1 - f1[i] ELSE f1[i - n]]
        sum[i \in 0 .. 2 * n] == IF i = 0 THEN 0 ELSE sum[i - 1] + s[i]
    IN  Materialize([i \in 1 .. n |-> sum[i] + f1[i] * (sum[n + i] - sum[i])])

RadixSortBody(padded, bits) ==
    LET pass[i \in 0 .. bits] ==
            IF i = 0 THEN padded
            ELSE LET v == pass[i - 1]
                     sign == bits = WordBits /\ i = bits
                     f1 == [j \in DOMAIN v |->
                               IF sign THEN 1 - KeyBit(v[j][1], i - 1) ELSE KeyBit(v[j][1], i - 1)]
                 IN  Apply(v, BitPermutation(f1))
    IN  pass[bits]

RadixSort(v, order, bits) ==
    LET sorted == RadixSortBody(PadInput(v, order), bits)
        padded == IF order = "DESC" THEN Reversed(sorted) ELSE sorted
    IN  Invert(RemovePadding(padded, order))

(* The older radix sort permutes the keys themselves and composes.         *)
RadixSortCCS(v, bits) ==
    LET pass[i \in 0 .. bits] ==
            IF i = 0 THEN [v |-> v, perm |-> Whole(Len(v))]
            ELSE LET s == pass[i - 1]
                     f1 == [j \in DOMAIN v |->
                               IF bits = WordBits /\ i = bits THEN 1 - KeyBit(s.v[j], i - 1)
                               ELSE KeyBit(s.v[j], i - 1)]
                     p == BitPermutation(f1)
                 IN  [v |-> Apply(s.v, p), perm |-> Compose(s.perm, p)]
    IN  pass[bits].perm

(* The sort of a table: from the last key to the first, each on the rows   *)
(* as the keys before it have left them.                                   *)
SortColumn(v, order, singleBit, protocol, shuffle) ==
    IF singleBit THEN RadixSort(v, order, 1)
    ELSE IF protocol = "QUICKSORT" THEN Quicksort(v, order, shuffle)
    ELSE RadixSort(v, order, WordBits)

TableSort(rows, order, singleBit, protocol, shuffle) ==
    LET Column(c) == [i \in DOMAIN rows |-> rows[i][c]]
        last == Len(order)
        perm[c \in 1 .. last] ==
            IF c = last THEN SortColumn(Column(c), order[c], singleBit[c], protocol, shuffle)
            ELSE Compose(perm[c + 1],
                         SortColumn(Apply(Column(c), perm[c + 1]), order[c], singleBit[c],
                                    protocol, shuffle))
    IN  Apply(rows, perm[1])
=============================================================================
