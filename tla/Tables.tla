------------------------------ MODULE Tables ------------------------------
(***************************************************************************)
(* Tables with a hidden column of validity: rows are never removed by a    *)
(* filter, only marked, and every operation works on valid and invalid     *)
(* rows alike.                                                             *)
(*                                                                         *)
(* A table is a sequence of rows, a row a function from the names of the   *)
(* columns to values.  It has at least one row, so that its schema is the  *)
(* domain of its first.  Columns of either encoding hold plain values.     *)
(***************************************************************************)
EXTENDS Scans, TLC

V == "[##V]"             \* ENC_TABLE_VALID
TID == "[##TID]"         \* ENC_TABLE_JOIN_ID
UNIQ == "[##UNIQ]"       \* ENC_TABLE_UNIQ
Reserved == {V, TID, UNIQ, "[##PAD]", "##LABEL"}
MaskValue == 2147483647

Rows(t) == DOMAIN t
Names(seq) == {seq[i] : i \in DOMAIN seq}
Columns(t) == DOMAIN t[1]
Col(t, c) == Materialize([i \in DOMAIN t |-> t[i][c]])

(* Sharing one vector per column; every row is valid.                      *)
SecretShare(schema, columns) ==
    [i \in DOMAIN columns[1] |->
        (V :> 1) @@ [c \in Names(schema) |->
            columns[CHOOSE k \in DOMAIN schema : schema[k] = c][i]]]

(* An assignment to a column, and the columns that come and go.            *)
Put(t, c, x) == Materialize([i \in DOMAIN t |-> (c :> x[i]) @@ t[i]])
PutEach(t, c, F(_)) == Put(t, c, [i \in DOMAIN t |-> F(t[i])])
CopyColumn(t, c, from) == Put(t, c, Col(t, from))
AddColumns(t, cols) == Materialize([i \in DOMAIN t |-> t[i] @@ [c \in cols |-> 0]])
DeleteColumns(t, cols) ==
    Materialize([i \in DOMAIN t |-> [c \in Columns(t) \ cols |-> t[i][c]]])
Project(t, cols) == DeleteColumns(t, Columns(t) \ (cols \cup Reserved))
RenameColumn(t, old, new) == DeleteColumns(CopyColumn(t, new, old), {old})
Zero(t, c) == Put(t, c, [i \in DOMAIN t |-> 0])

(* The rows in which a column compares with a value.                       *)
Select(t, c, rel, x) ==
    {i \in DOMAIN t :
        CASE rel = "=" -> t[i][c] = x
          [] rel = "#" -> t[i][c] # x
          [] rel = "<" -> t[i][c] < x
          [] rel = "<=" -> t[i][c] <= x
          [] rel = ">" -> t[i][c] > x
          [] rel = ">=" -> t[i][c] >= x}

Filter(t, kept) ==
    Materialize([i \in DOMAIN t |-> [t[i] EXCEPT ![V] = IF i \in kept THEN @ ELSE 0]])
Where(t, c, rel, x) == Filter(t, Select(t, c, rel, x))
Keep(t, P(_)) == Filter(t, {i \in DOMAIN t : P(t[i])})
ValidRows(t) == {i \in DOMAIN t : t[i][V] = 1}

(* The number of rows.                                                     *)
ZeroRow(t) == [c \in Columns(t) |-> 0]
Resize(t, n) ==
    IF n <= Len(t) THEN SubSeq(t, 1, n) ELSE t \o [i \in 1 .. n - Len(t) |-> ZeroRow(t)]
HeadRows(t, n) == Resize(t, n)
TailRows(t, n) == SubSeq(t, Len(t) - n + 1, Len(t))
Cut(t, start, end) ==
    LET stop == IF end > Len(t) THEN Len(t) ELSE end
    IN  IF start >= stop THEN <<>> ELSE HeadRows(TailRows(t, Len(t) - start), stop - start)

NextPowerOfTwo(n) == IF IsPowerOfTwo(n) THEN n ELSE 2 ^ (Log2(n) + 1)
PadPowerOfTwo(t, value) ==
    [i \in 1 .. NextPowerOfTwo(Len(t)) |->
        IF i <= Len(t) THEN t[i] ELSE [c \in Columns(t) |-> IF c = V THEN 0 ELSE value]]

(* The rows of the left table, then those of the right, each with the      *)
(* columns of both.                                                        *)
WidenRow(row, cols) == [c \in cols |-> IF c \in DOMAIN row THEN row[c] ELSE 0]
Concatenate(left, right, power) ==
    LET cols == Columns(left) \cup Columns(right) \cup {TID}
        n == Len(left) + Len(right)
    IN  Materialize([i \in 1 .. (IF power THEN NextPowerOfTwo(n) ELSE n) |->
            IF i <= Len(left) THEN WidenRow(left[i], cols)
            ELSE IF i <= n THEN [WidenRow(right[i - Len(left)], cols) EXCEPT ![TID] = 1]
            ELSE [c \in cols |-> 0]])

OverwriteRow(t, row, index) ==
    [t EXCEPT ![index] = [c \in DOMAIN @ |-> IF c \in Reserved THEN @[c] ELSE row[1][c]]]

----------------------------------------------------------------------------
(* Sorting, by what TableSort of Sorting does: the first key that differs  *)
(* decides, and equal rows stay in order.                                  *)
SortRows(t, spec) ==
    LET Before(i, j) ==
            \/ \E k \in DOMAIN spec :
                   /\ \A l \in 1 .. k - 1 : t[i][spec[l][1]] = t[j][spec[l][1]]
                   /\ IF spec[k][2] = "ASC" THEN t[i][spec[k][1]] < t[j][spec[k][1]]
                      ELSE t[i][spec[k][1]] > t[j][spec[k][1]]
            \/ i < j /\ \A k \in DOMAIN spec : t[i][spec[k][1]] = t[j][spec[k][1]]
    IN  Read(t, SortSeq(Whole(Len(t)), Before))

Sort(t, keys, order) == SortRows(t, [k \in DOMAIN keys |-> <<keys[k], order>>])

KeyOf(t, keys) == Materialize([i \in DOMAIN t |-> [k \in DOMAIN keys |-> t[i][keys[k]]]])

(* Mark the first row of every run of equal keys.                          *)
MarkDistinct(t, keys, res) == Put(t, res, Distinct(KeyOf(t, keys)))

(* Keep one row per key: the sort puts the invalid rows first.             *)
DistinctRows(t, keys) ==
    DeleteColumns(Where(MarkDistinct(Sort(t, <<V>> \o keys, "ASC"), keys, UNIQ), UNIQ, "=", 1), {UNIQ})

----------------------------------------------------------------------------
(* Aggregations.  A specification is a sequence of <<data, result, func>>. *)

AggregationOptions == [reverse |-> FALSE, do_sort |-> TRUE, mark_valid |-> TRUE, table_id |-> ""]

(* Every result starts as its data, before any is scanned.                 *)
FirstOuts(t, spec, sel) ==
    LET after[k \in 0 .. Len(spec)] ==
            IF k = 0 THEN t
            ELSE Put(after[k - 1], spec[k][2], FirstOut(spec[k][3], Col(after[k - 1], spec[k][1]), sel))
    IN  after[Len(spec)]

(* No two aggregations have one result.                                    *)
PutResults(t, spec, results) ==
    Materialize([i \in DOMAIN t |->
        [c \in Columns(t) |->
            IF \E k \in DOMAIN spec : spec[k][2] = c
            THEN results[CHOOSE k \in DOMAIN spec : spec[k][2] = c][i] ELSE t[i][c]]])
ScanColumns(t, key, spec, sel, dir) ==
    PutResults(t, spec, Materialize([k \in DOMAIN spec |->
        Scan(key, sel, dir, spec[k][3], Col(t, spec[k][2]))]))

(* With aggregations that count, add or compare, only the row with the     *)
(* final result of its group stays valid.                                  *)
FinalRows(uniq, n, reverse) ==
    {i \in 1 .. n : IF reverse THEN uniq[i] = 1 ELSE i = n \/ uniq[i + 1] = 1}
AggregateGroups(t, key, sel, spec, dir) == ScanColumns(FirstOuts(t, spec, sel), key, spec, sel, dir)
AggregatePadded(t, n, key, spec, opt) ==
    Filter(Resize(AggregateGroups(t, key,
                      IF opt.mark_valid /\ opt.table_id # "" THEN Col(t, opt.table_id) ELSE <<>>,
                      spec, IF opt.reverse THEN "Reverse" ELSE "Forward"), n),
           IF opt.mark_valid /\ \E k \in DOMAIN spec : IsAggregation(spec[k][3])
           THEN FinalRows(Distinct(key), n, opt.reverse) ELSE 1 .. n)
AggregateKeyed(t, n, keys, spec, opt) == AggregatePadded(t, n, KeyOf(t, keys), spec, opt)
AggregateSorted(t, keys, spec, opt) ==
    AggregateKeyed(PadPowerOfTwo(t, 0), Len(t), keys, spec, opt)
AggregateTable(t, userKeys, spec, opt) ==
    LET keys == IF opt.do_sort THEN <<V>> \o userKeys ELSE userKeys
    IN  AggregateSorted(IF opt.do_sort THEN Sort(t, keys, "ASC") ELSE t, keys, spec, opt)

Aggregated(t, keys, spec) == AggregateTable(t, keys, spec, AggregationOptions)
AggregatedUnsorted(t, keys, spec) ==
    AggregateTable(t, keys, spec, [AggregationOptions EXCEPT !.do_sort = FALSE])

(* The running sum of a column.                                            *)
PrefixSum(t, c) ==
    LET sum[i \in 0 .. Len(t)] == IF i = 0 THEN 0 ELSE sum[i - 1] + t[i][c]
    IN  Put(t, c, [i \in DOMAIN t |-> sum[i]])

----------------------------------------------------------------------------
(* Windows: the rows are sorted by time, then by key.                      *)
TumblingWindowTable(t, time, size, res) == Put(t, res, TumblingWindow(Col(t, time), size))
SortByTime(t, keys, time) == Sort(t, <<time>> \o SelectSeq(keys, LAMBDA k : k # time), "ASC")
GapSessionTable(t, keys, time, windowId, gap) ==
    LET s == SortByTime(t, keys, time)
    IN  Put(s, windowId, GapSessionWindow(KeyOf(s, keys), Col(s, time), gap))
ThresholdSessionTable(t, keys, res, time, windowId, threshold, markValid) ==
    LET s == SortByTime(t, keys, time)
        w == Put(s, windowId,
                 ThresholdSessionWindow(KeyOf(s, keys), Col(s, res), Col(s, time), threshold, Col(s, windowId)))
    IN  IF markValid THEN Where(w, windowId, ">", 0) ELSE w

----------------------------------------------------------------------------
(* Opening.  Finalizing shuffles the rows, so what is opened is a bag, and *)
(* masks the invalid ones.                                                 *)
Mask(t) ==
    Materialize([i \in DOMAIN t |->
        [c \in Columns(t) |-> IF c = V \/ t[i][V] = 1 THEN t[i][c] ELSE MaskValue]])
Open(t) ==
    LET rows == SelectSeq(Whole(Len(t)), LAMBDA i : t[i][V] = 1)
    IN  [j \in DOMAIN rows |-> [c \in Columns(t) \ {V} |-> t[rows[j]][c]]]
OpenColumns(t, cols) ==
    LET rows == Open(t) IN [j \in DOMAIN rows |-> [k \in DOMAIN cols |-> rows[j][cols[k]]]]
=============================================================================
