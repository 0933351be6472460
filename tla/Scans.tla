------------------------------- MODULE Scans -------------------------------
(***************************************************************************)
(* Prefix networks over the rows of a column, the segmented aggregations   *)
(* that run over them, and the operators on sorted columns that are built  *)
(* from neighbours: distinct and the windows of streams.                   *)
(*                                                                         *)
(* A column is a sequence; row 0 of the code is element 1 here.  A view is *)
(* the sequence of the rows it refers to.  The bits of a column of bits    *)
(* are the numbers 0 and 1.                                                *)
(***************************************************************************)
EXTENDS Integers, Sequences, FiniteSets

LOCAL INSTANCE SequencesExt

Log2(n) == CHOOSE k \in 0 .. n : 2 ^ k <= n /\ n < 2 ^ (k + 1)
IsPowerOfTwo(n) == n > 0 /\ 2 ^ Log2(n) = n

----------------------------------------------------------------------------
(* Views and what is read and written through them.                        *)

Whole(n) == [i \in 1 .. n |-> i]
Slice(v, start, end) == SubSeq(v, start, end)

(* A column of its own: TLC then evaluates every element once.             *)
Materialize(x) == SubSeq(x, 1, Len(x))

(* Every step-th row from row start on (SharedVector::subset).             *)
Subset(v, start, step) ==
    Materialize([j \in 1 .. (Len(v) - start) \div step + 1 |-> v[start + (j - 1) * step]])

Reversed(v) == Materialize([i \in DOMAIN v |-> v[Len(v) + 1 - i]])
Along(dir, n) == IF dir = "Reverse" THEN Reversed(Whole(n)) ELSE Whole(n)
Read(column, v) == Materialize([j \in DOMAIN v |-> column[v[j]]])
Write(column, v, values) ==
    Materialize([i \in DOMAIN column |->
        IF \E j \in DOMAIN v : v[j] = i
        THEN values[CHOOSE j \in DOMAIN v : v[j] = i /\ \A k \in DOMAIN v : v[k] = i => k <= j]
        ELSE column[i]])

----------------------------------------------------------------------------
(* A level of a network: every row of to takes in the row of from.         *)

HillisSteeleDepth(n) == IF n = 1 THEN 0 ELSE Log2(n)
HillisSteeleLevel(dir, n, i) ==
    LET gap == IF dir = "Reverse" THEN i + 1 ELSE HillisSteeleDepth(n) - i
        s == n - n \div 2 ^ gap
        v == Along(dir, n)
    IN  [from |-> Slice(v, 1, s), to |-> Slice(v, n - s + 1, n)]

HalfDepth(n) == IF n = 1 THEN 0 ELSE Log2(n)
BrentKungDepth(n) == 2 * HalfDepth(n) - 1
BrentKungGap(n, i) == 2 ^ (IF i < HalfDepth(n) THEN i ELSE 2 * HalfDepth(n) - 2 - i)
Paired(a, b) == [from |-> Slice(a, 1, Len(b)), to |-> b]
BrentKungStep(v, gap, skip) == Paired(Subset(v, skip * gap, 2 * gap), Subset(v, (skip + 1) * gap, 2 * gap))
BrentKungLevel(dir, n, i) == BrentKungStep(Along(dir, n), BrentKungGap(n, i), IF i < HalfDepth(n) THEN 1 ELSE 2)

----------------------------------------------------------------------------
(* The aggregation functions: a takes in b if the two are of one group.    *)

Multiplex(s, a, b) == IF s = 1 THEN b ELSE a
BitOr(a, b) ==
    LET or[x \in Nat, y \in Nat] ==
            IF x = 0 \/ y = 0 THEN x + y
            ELSE 2 * or[x \div 2, y \div 2] + (IF (x % 2) + (y % 2) > 0 THEN 1 ELSE 0)
    IN  or[a, b]

Combine(func, g, a, b) ==
    CASE func \in {"sum", "count"} -> a + g * b
      [] func = "bit_or" -> BitOr(a, g * b)
      [] func = "max" -> Multiplex(g, a, IF b > a THEN b ELSE a)
      [] func = "min" -> Multiplex(g, a, IF b > a THEN a ELSE b)
      [] func = "copy" -> Multiplex(g, a, b)
      [] func = "valid" -> Multiplex(g, a, a * b)

IsAggregation(func) == func \notin {"copy", "valid"}

(* Seeded error: rows of the other table count too.                        *)
GroupBitOfKeys(key, sel, func, p, q) == IF key[p] = key[q] THEN 1 ELSE 0

(* sel is the column that tells the rows of one table from those of the    *)
(* other, or <<>>: all but copies stay within one table.                   *)
GroupBit(key, sel, func, p, q) ==
    IF key[p] = key[q] /\ (sel = <<>> \/ func = "copy" \/ sel[p] = sel[q]) THEN 1 ELSE 0

FirstOut(func, in, sel) ==
    IF func # "count" THEN in
    ELSE IF sel # <<>> THEN sel ELSE [i \in DOMAIN in |-> 1]

AggregateLevel(key, sel, func, level, out) ==
    LET a == Read(out, level.from)
        b == Read(out, level.to)
    IN  Write(out, level.to,
              [j \in DOMAIN b |->
                  Combine(func, GroupBit(key, sel, func, level.from[j], level.to[j]), b[j], a[j])])

(* The levels one after the other; key holds, row by row, the values of    *)
(* all the key columns.                                                    *)
Scan(key, sel, dir, func, first) ==
    FoldLeft(LAMBDA out, l : AggregateLevel(key, sel, func, BrentKungLevel(dir, Len(key), l - 1), out),
             first, Whole(BrentKungDepth(Len(key))))

Aggregate(key, sel, dir, func, in) == Scan(key, sel, dir, func, FirstOut(func, in, sel))

(* The additions of tree_prefix_sum: distances from one half down to one.  *)
TreePrefixSum(x, dir) ==
    LET n == Len(x)
        y == Along(dir, n)
        out[i \in 0 .. Log2(n)] ==
            IF i = 0 THEN x
            ELSE LET d == n \div 2 ^ i
                     a == Read(out[i - 1], Slice(y, 1, n - d))
                     b == Slice(y, d + 1, n)
                 IN  Write(out[i - 1], b, [j \in DOMAIN b |-> out[i - 1][b[j]] + a[j]])
    IN  out[Log2(n)]

----------------------------------------------------------------------------
(* The first row of every run of equal keys.                               *)
Distinct(key) ==
    [i \in DOMAIN key |-> IF i = 1 \/ key[i] # key[i - 1] THEN 1 ELSE 0]

TumblingWindow(time, size) == [i \in DOMAIN time |-> time[i] \div size]

(* A session starts at the first row and after a gap longer than gap.      *)
MarkGapSession(time, gap) ==
    [i \in DOMAIN time |-> IF i = 1 \/ time[i - 1] + gap - time[i] < 0 THEN 1 ELSE 0]

GapSessionWindow(key, time, gap) ==
    LET start == MarkGapSession(time, gap)
        id == [i \in DOMAIN time |-> Multiplex(start[i], -1, time[i])]
    IN  Aggregate(key, <<>>, "Forward", "max", id)

(* The rows above the threshold, and those of them whose predecessor is    *)
(* not.  The first row keeps what the column held.                         *)
PotentialWindow(res, threshold) ==
    [i \in DOMAIN res |-> IF res[i] > threshold THEN 1 ELSE 0]
MarkThresholdSession(pw, held) ==
    [i \in DOMAIN pw |-> IF i = 1 THEN held[1] ELSE pw[i] * (1 - pw[i - 1])]

ThresholdSessionWindow(key, res, time, threshold, held) ==
    LET pw == PotentialWindow(res, threshold)
        start == MarkThresholdSession(pw, held)
        id == [i \in DOMAIN time |-> Multiplex(start[i], -1, time[i])]
    IN  Aggregate(key, pw, "Reverse", "max", id)
=============================================================================
