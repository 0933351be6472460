------------------------------ MODULE Vectors ------------------------------
(***************************************************************************)
(* Vectors and the views of them: which rows a view refers to, what        *)
(* happens to the views of a vector when one of them is resized, and how   *)
(* bits of the elements are packed into words of their own.                *)
(*                                                                         *)
(* A view is the sequence of the rows it refers to (Scans.tla); a vector   *)
(* is its data, which it shares with its views, and a view of them, or all *)
(* of the data if it has no mapping.  Words are those of Circuits.tla: bit *)
(* positions count from 0, and w is the width.                             *)
(***************************************************************************)
EXTENDS Scans

DivCeil(a, b) == (a + b - 1) \div b
Least(a, b) == IF a < b THEN a ELSE b

----------------------------------------------------------------------------
(* Views of views.                                                         *)

(* A flag beyond the shorter of the two counts for nothing.                *)
Included(v, flag) ==
    LET bound == Least(Len(v), Len(flag))
        Before(i) == Cardinality({j \in 1 .. i : flag[j] # 0})
    IN  Materialize([m \in 1 .. Before(bound) |->
            v[CHOOSE i \in 1 .. bound : flag[i] # 0 /\ Before(i) = m]])

(* Runs of included rows, each followed by excluded ones: the rows of the  *)
(* runs in order, or every run from its last row to its first.             *)
RunsSize(n, included, excluded) ==
    (n \div (included + excluded)) * included + Least(included, n % (included + excluded))
AlternatingRuns(v, included, excluded) ==
    Materialize([i \in 1 .. RunsSize(Len(v), included, excluded) |->
        v[((i - 1) \div included) * (included + excluded) + ((i - 1) % included) + 1]])
ReversedAlternating(v, included, excluded) ==
    LET full == (Len(v) \div (included + excluded)) * included
    IN  Materialize([i \in 1 .. RunsSize(Len(v), included, excluded) |->
            IF i <= full
            THEN v[((i - 1) \div included) * (included + excluded) + included - ((i - 1) % included)]
            ELSE v[Len(v) - (i - full - 1)]])

Repeated(v, times) == Materialize([i \in 1 .. Len(v) * times |-> v[((i - 1) \div times) + 1]])
RepeatedRuns(v, count, times) ==
    Materialize([i \in 1 .. Len(v) * times |->
        v[((i - 1) \div (count * times)) * count + ((i - 1) % count) + 1]])
Cyclic(v, cycles) == Materialize([i \in 1 .. Len(v) * cycles |-> v[((i - 1) % Len(v)) + 1]])

----------------------------------------------------------------------------
(* Vectors.                                                                *)

Plain(data) == [data |-> data, mapped |-> FALSE, rows |-> Whole(Len(data))]
View(x, rows) == [data |-> x.data, mapped |-> TRUE, rows |-> rows]
Content(x) == Read(x.data, x.rows)
TotalSize(x) == Len(x.rows)
Zeros(n) == [i \in 1 .. n |-> 0]

ApplyMapping(x, map) == View(x, IF x.mapped THEN Read(x.rows, map) ELSE map)
MaterializeVector(x) == IF x.mapped THEN Plain(Content(x)) ELSE x
Assign(x, values) == [x EXCEPT !.data = Write(x.data, x.rows, values)]

(* A view grows by new data at the end, whatever the size of the data.     *)
ResizeTo(x, n) ==
    LET old == TotalSize(x)
        size == Len(x.data)
    IN  IF ~x.mapped
        THEN Plain(IF n <= old THEN SubSeq(x.data, 1, n) ELSE x.data \o Zeros(n - old))
        ELSE IF n <= old THEN View(x, SubSeq(x.rows, 1, n))
        ELSE [data |-> x.data \o Zeros(n - old), mapped |-> TRUE,
              rows |-> x.rows \o [i \in 1 .. n - old |-> size + i]]
KeepTail(x, n) ==
    LET keep == SubSeq(x.rows, TotalSize(x) - n + 1, TotalSize(x))
    IN  IF x.mapped THEN View(x, keep) ELSE Plain(Read(x.data, keep))
AppendVector(x, values) ==
    LET old == TotalSize(x)
        grown == ResizeTo(x, old + Len(values))
    IN  Assign(grown, Content(x) \o values)

----------------------------------------------------------------------------
(* Bits.  A selection of bits says how many there are of an element and    *)
(* which position the k-th of them has; the bits of all the elements, in   *)
(* order, fill the words of the compressed vector.                         *)
SimpleBits(start, step, end, repetition) ==
    LET count == ((end - start + 1) \div step) * repetition
    IN  [k \in 0 .. count - 1 |-> start + (k \div repetition) * step]

AlternatingBits(w, start, step, included, excluded, direction) ==
    LET perChunk == included \div step
        chunk == included + excluded
        last == Least(included, (w - start) % chunk) \div step
        count == ((w - start) \div chunk) * perChunk + last
        offset == IF direction = -1 THEN included - 1 ELSE 0
    IN  [k \in 0 .. count - 1 |->
            start + offset + (k \div perChunk) * chunk + (k % perChunk) * step * direction]

BitCount(bits) == Cardinality(DOMAIN bits)
Compress(x, w, bits) ==
    LET total == BitCount(bits) * Len(x)
    IN  Materialize([i \in 1 .. DivCeil(total, w) |-> [p \in 0 .. w - 1 |->
            LET k == (i - 1) * w + p
            IN  IF k < total THEN x[(k \div BitCount(bits)) + 1][bits[k % BitCount(bits)]] ELSE 0]])
Decompress(x, w, bits, packed) ==
    LET Source(i, b) == {k \in DOMAIN bits : bits[k] = b}
        LastOf(S) == CHOOSE k \in S : \A l \in S : l <= k
    IN  Materialize([i \in DOMAIN x |-> [b \in 0 .. w - 1 |->
            IF Source(i, b) = {} THEN x[i][b]
            ELSE LET k == (i - 1) * BitCount(bits) + LastOf(Source(i, b))
                 IN  packed[(k \div w) + 1][k % w]]])

(* The rows start + 1 to end of the result, one batch of it: a worker      *)
(* packs as many elements of the source as its words have bits.  Unpacking *)
(* starts at a whole word only if the batch does.                          *)
PackBatch(x, w, source, position, start, end) ==
    LET base == start * w
        total == Least((end - start) * w, Len(source) - base)
    IN  Materialize([i \in DOMAIN x |->
            IF i \notin start + 1 .. start + DivCeil(total, w) THEN x[i]
            ELSE [p \in 0 .. w - 1 |->
                     LET k == (i - 1 - start) * w + p
                     IN  IF k < total THEN source[k + base + 1][position] ELSE 0]])
UnpackBatch(x, w, source, position, start, end) ==
    Materialize([i \in DOMAIN x |->
        IF i \notin start + 1 .. end THEN x[i]
        ELSE LET k == i - 1 - start
             IN  [x[i] EXCEPT ![position] = source[(k \div w) + (start \div w) + 1][k % w]]])

(* Elements, their sums and products.                                      *)
ExtractValid(x, valid) == Read(x, Included(Whole(Len(x)), valid))
SumOf(x) ==
    LET s[i \in 0 .. Len(x)] == IF i = 0 THEN 0 ELSE s[i - 1] + x[i] IN s[Len(x)]
ChunkedSum(x, size) ==
    LET n == IF size = 0 THEN Len(x) ELSE size
    IN  [i \in 1 .. DivCeil(Len(x), n) |->
            SumOf(SubSeq(x, (i - 1) * n + 1, Least(i * n, Len(x))))]
DotProduct(x, y, size) == ChunkedSum([i \in DOMAIN x |-> x[i] * y[i]], size)
=============================================================================
