---------------------------- MODULE MCOperators ----------------------------
(***************************************************************************)
(* The operators on small columns: a behaviour calls one of them on one    *)
(* input, and what it returns is compared with a definition of its own.    *)
(***************************************************************************)
EXTENDS Sorting, Calls

SeqsOf(S, n) == [1 .. n -> S]
Bits01 == {0, 1}
Orders == {"ASC", "DESC"}

----------------------------------------------------------------------------
(* Inputs.                                                                 *)

(* Rows of one key, and rows of a key and a bit; each with its number.     *)
OneKey(S, n) == {[i \in 1 .. n |-> <<v[i], i>>] : v \in SeqsOf(S, n)}
TwoKeys(n) ==
    {[i \in 1 .. n |-> <<b[i], v[i], i>>] : b \in SeqsOf(Bits01, n), v \in SeqsOf({-2, 0, 1}, n)}

IsSortedBy(rows, order) ==
    \A i \in 1 .. Len(rows) - 1 : ~RowGreater(rows[i], rows[i + 1], order)

SortArgs ==
    [rows : UNION {OneKey({-2, 0, 1}, n) : n \in {1, 3, 4, 5}}, order : {<<o>> : o \in Orders}]
NetworkArgs == [rows : OneKey(Bits01, 8) \cup OneKey({-2, 0, 1}, 4), order : {<<o>> : o \in Orders}]
MergeArgs ==
    {a \in NetworkArgs :
        LET half == Len(a.rows) \div 2
        IN  /\ IsSortedBy(SubSeq(a.rows, 1, half), a.order)
            /\ IsSortedBy(SubSeq(a.rows, half + 1, 2 * half), a.order)}
TableArgs ==
    [rows : TwoKeys(3), order : {<<o, p>> : o, p \in Orders}, protocol : {"QUICKSORT", "RADIXSORT"}]

Ascending(n, S) == {k \in SeqsOf(S, n) : \A i \in 1 .. n - 1 : k[i] <= k[i + 1]}
LongKeys == {<<0, 0, 0, 1, 1, 2, 2, 2>>, <<0, 0, 0, 0, 0, 0, 1, 1>>, <<0, 1, 1, 1, 1, 1, 1, 2>>}
BitFunctions == {"bit_or", "valid"}
WordFunctions == {"sum", "count", "max", "min", "copy"}
ShortScans ==
    [key : Ascending(2, 0 .. 1) \cup Ascending(4, 0 .. 2), dir : {"Forward", "Reverse"},
     func : BitFunctions \cup WordFunctions, in : SeqsOf(Bits01, 4) \cup {<<3, -1, 2, -1>>, <<1, 2>>},
     sel : {<<>>} \cup SeqsOf(Bits01, 4)]
LongScans ==
    [key : LongKeys, dir : {"Forward", "Reverse"}, func : WordFunctions,
     in : {<<1, 2, 4, 8, 16, 32, 64, 128>>, <<3, 1, 4, 1, 5, 9, 2, 6>>}, sel : {<<>>}]
(* The rows of the left table come before those of the right in a group.   *)
ScanArgs == {a \in ShortScans \cup LongScans :
    /\ Len(a.key) = Len(a.in)
    /\ a.func \in BitFunctions => a.in \in SeqsOf(Bits01, 4)
    /\ a.sel # <<>> =>
           /\ Len(a.sel) = Len(a.key)
           /\ \A i \in 1 .. Len(a.key) - 1 : a.key[i] = a.key[i + 1] => a.sel[i] <= a.sel[i + 1]}
OneGroup == <<1, 1, 1, 1>>
WindowArgs == [time : Ascending(4, 1 .. 6), gap : 0 .. 2, res : SeqsOf(Bits01, 4)]

OperatorInit ==
    \/ op \in {"quicksort", "radix_sort", "pairwise_sort"} /\ arg \in SortArgs
    \/ op = "radix_sort_ccs" /\ arg \in {a \in SortArgs : a.order = <<"ASC">>}
    \/ op = "bitonic_sort" /\ arg \in NetworkArgs
    \/ op = "bitonic_merge" /\ arg \in MergeArgs
    \/ op = "odd_even_merge" /\ arg \in {a \in MergeArgs : a.order = <<"ASC">>}
    \/ op = "table_sort" /\ arg \in TableArgs
    \/ op = "aggregate" /\ arg \in ScanArgs
    \/ op = "tree_prefix_sum" /\ arg \in {a \in ScanArgs : a.func = "sum"}
    \/ op = "windows" /\ arg \in WindowArgs

Keys(rows) == [i \in DOMAIN rows |-> rows[i][1]]

SortCall ==
    \/ /\ op = "quicksort"
       /\ \E shuffle \in PermutationsOf(Len(arg.rows)) :
              Return(Apply(arg.rows, Quicksort(Keys(arg.rows), arg.order[1], shuffle)))
    \/ op = "radix_sort" /\ Return(Apply(arg.rows, RadixSort(Keys(arg.rows), arg.order[1], WordBits)))
    \/ op = "radix_sort_ccs" /\ Return(Apply(arg.rows, RadixSortCCS(Keys(arg.rows), WordBits)))
    \/ /\ op = "table_sort"
       /\ \E shuffle \in PermutationsOf(Len(arg.rows)) :
              Return(TableSort(arg.rows, arg.order, <<TRUE, FALSE>>, arg.protocol, shuffle))
    \/ op = "pairwise_sort" /\ Return(PairwiseSort(arg.rows, arg.order \o <<"ASC">>))

NetworkCall ==
    \/ op = "bitonic_sort" /\ Return(BitonicSort(arg.rows, arg.order))
    \/ op = "bitonic_merge" /\ Return(BitonicMerge(arg.rows, arg.order))
    \/ op = "odd_even_merge" /\ Return(OddEvenMerge(arg.rows, arg.order))

ScanCall ==
    \/ op = "aggregate" /\ Return(Aggregate(arg.key, arg.sel, arg.dir, arg.func, arg.in))
    \/ op = "tree_prefix_sum" /\ Return(TreePrefixSum(arg.in, arg.dir))
    \/ op = "windows" /\ Return([gap |-> GapSessionWindow(OneGroup, arg.time, arg.gap),
                                 threshold |-> ThresholdSessionWindow(OneGroup, arg.res, arg.time, 0, <<0>>)])

OperatorCall == SortCall \/ NetworkCall \/ ScanCall

----------------------------------------------------------------------------
(* The one arrangement that is sorted and leaves equal rows in order.      *)
StableSort(rows, order) ==
    LET Before(r, s) == RowGreater(s, r, order) \/ (~RowGreater(r, s, order) /\ r[Len(r)] < s[Len(s)])
        Rank(r) == Cardinality({j \in DOMAIN rows : Before(rows[j], r)}) + 1
    IN  [i \in DOMAIN rows |-> rows[CHOOSE j \in DOMAIN rows : Rank(rows[j]) = i]]

RowsOf(rows) == {rows[i] : i \in DOMAIN rows}

(* Whatever the random permutations, the sorts of secret columns return    *)
(* the stable arrangement of their rows (quicksort and radix sort of       *)
(* quicksort.h and radixsort.h, table_sort of sorting.h), and the fixed    *)
(* networks an arrangement in order (bitonic sort and the merges).         *)
SortsStably ==
    /\ Returned({"quicksort", "radix_sort", "radix_sort_ccs", "pairwise_sort", "table_sort"})
           => out = StableSort(arg.rows, arg.order)
    /\ Returned({"bitonic_sort", "bitonic_merge", "odd_even_merge"})
           => IsSortedBy(out, arg.order) /\ RowsOf(out) = RowsOf(arg.rows)

(* Row after row, in the direction of the scan.                            *)
Running(key, sel, func, in) ==
    LET first == FirstOut(func, in, sel)
        run[i \in DOMAIN in] ==
            IF i = 1 THEN first[1]
            ELSE Combine(func, GroupBit(key, sel, func, i - 1, i), first[i], run[i - 1])
    IN  run
InDirection(dir, x) == IF dir = "Reverse" THEN Reversed(x) ELSE x
(* A session ends before a gap longer than allowed; a session of rows      *)
(* above the threshold, with the last of them.                             *)
SessionStart(i) ==
    LET Start(j) == j = 1 \/ arg.time[j] - arg.time[j - 1] > arg.gap
    IN  CHOOSE j \in 1 .. i : Start(j) /\ \A k \in j + 1 .. i : ~Start(k)

(* The scan compares only the two rows it combines, so a later session of  *)
(* the same key would reach the rows of an earlier one.                    *)
OneSession == \A i, j, k \in DOMAIN arg.res :
    i < j /\ j < k /\ arg.res[i] = 1 /\ arg.res[k] = 1 => arg.res[j] = 1

(* The networks of prefix_network.h combine every row with those of its    *)
(* group before it, once each: aggregate and tree_prefix_sum return what a *)
(* scan row by row does.  Gap sessions are named by their first row on     *)
(* every row, a threshold session on its first row only (streaming.h).     *)
ScansRun ==
    /\ Returned({"aggregate"}) =>
           InDirection(arg.dir, out) =
               Running(InDirection(arg.dir, arg.key), InDirection(arg.dir, arg.sel), arg.func, InDirection(arg.dir, arg.in))
    /\ Returned({"tree_prefix_sum"}) =>
           InDirection(arg.dir, out) =
               Running([i \in DOMAIN arg.in |-> 0], <<>>, "sum", InDirection(arg.dir, arg.in))
    /\ Returned({"windows"}) => \A i \in DOMAIN arg.time :
           /\ out.gap[i] = arg.time[SessionStart(i)]
           /\ OneSession => out.threshold[i] =
                  IF i > 1 /\ arg.res[i] = 1 /\ arg.res[i - 1] = 0 THEN arg.time[i] ELSE -1
=============================================================================
