------------------------------- MODULE Joins -------------------------------
(***************************************************************************)
(* The joins.  Both tables are concatenated and sorted by key, the rows of *)
(* the left table before those of the right; a scan then carries the       *)
(* values of a left row to the right rows of its key, and those among the  *)
(* rows of one table up to the last of them.  The keys of the left table   *)
(* are unique among its valid rows.                                        *)
(***************************************************************************)
EXTENDS Tables

LOCAL Sorts == INSTANCE Sorting WITH WordBits <- 31

VT == "[##VALID_TEMP]"
JoinOptions == [left_outer |-> FALSE, right_outer |-> FALSE, anti |-> FALSE, trim_invalid |-> TRUE]

(* Seeded error: the invalid rows take part.                               *)
JoinAnyRow(s, uniq, opt) == [i \in DOMAIN s |-> IF s[i][TID] = 1 /\ uniq[i] = 0 THEN 1 ELSE 0]

(* Which rows of the sorted concatenation may stay valid: an inner join    *)
(* keeps what is not the first of its key, a left join all but the right   *)
(* rows without a left one and the left rows with a right one, a right     *)
(* join the right rows.                                                    *)
JoinValid(s, uniq, opt) ==
    LET n == Len(s)
    IN  [i \in 1 .. n |->
            IF /\ s[i][V] = 1
               /\ CASE opt.left_outer /\ opt.right_outer -> TRUE
                    [] opt.left_outer /\ ~opt.right_outer ->
                           /\ ~(s[i][TID] = 1 /\ uniq[i] = 1)
                           /\ i = n \/ s[i][TID] = 1 \/ uniq[i + 1] = 1
                    [] ~opt.left_outer /\ opt.right_outer -> s[i][TID] = 1
                    [] OTHER -> uniq[i] = 0
            THEN 1 ELSE 0]

(* The bits of a value; sorting by one bit and cutting costs less than     *)
(* keeping the rows, unless the right table is long.                       *)
ValueBits == 64
TrimPays(left, right) ==
    LET c == Cardinality(Columns(left)) - 1
    IN  Len(right) < (Len(left) * (ValueBits + c - 1)) \div (c + 2)
TrimTo(t, n) == HeadRows(Sort(t, <<V>>, "DESC"), n)
TrimIf(t, trims, n) == IF trims THEN TrimTo(t, n) ELSE t
MarkJoined(s, all, opt) == Put(s, VT, JoinValid(s, Distinct(KeyOf(s, all)), opt))
SortTogether(left, right, output, all) ==
    Sort(Project(Concatenate(left, right, FALSE), output), Append(all, TID), "ASC")
CarryOver(s, all, specs) ==
    AggregateSorted(s, all, specs, [AggregationOptions EXCEPT !.do_sort = FALSE, !.table_id = TID])

Join(left, right, keys, spec, opt) ==
    LET output == Names(keys) \cup Columns(right) \cup {spec[k][1] : k \in DOMAIN spec}
                      \cup {spec[k][2] : k \in DOMAIN spec}
                      \cup (IF opt.left_outer THEN Columns(left) ELSE {})
        all == <<V>> \o keys
        specs == spec \o (IF opt.right_outer THEN <<>> ELSE <<<<VT, VT, "valid">>>>)
                      \o (IF opt.anti THEN <<<<VT, VT, "copy">>>> ELSE <<>>)
        marked == MarkJoined(SortTogether(left, right, output, all), all, opt)
    IN  TrimIf(DeleteColumns(Where(CarryOver(marked, all, specs), VT, "=", 1), {VT, TID}),
               opt.trim_invalid /\ ~opt.left_outer /\ TrimPays(left, right), Len(right))

InnerJoin(left, right, keys, spec) == Join(left, right, keys, spec, JoinOptions)
LeftOuterJoin(left, right, keys, spec) ==
    Join(left, right, keys, spec, [JoinOptions EXCEPT !.left_outer = TRUE])
RightOuterJoin(left, right, keys, spec) ==
    Join(left, right, keys, spec, [JoinOptions EXCEPT !.right_outer = TRUE])
FullOuterJoin(left, right, keys, spec) ==
    Join(left, right, keys, spec, [JoinOptions EXCEPT !.left_outer = TRUE, !.right_outer = TRUE])

(* The rows of a table that have a partner in the other, or none.          *)
SemiJoin(t, other, keys) == Project(InnerJoin(other, t, keys, <<>>), Columns(t))
AntiJoin(t, other, keys) ==
    Project(Join(other, t, keys, <<>>, [JoinOptions EXCEPT !.right_outer = TRUE, !.anti = TRUE]),
            Columns(t))

(* Two tables of one size, a power of two, each sorted, are merged.        *)
MergeRows(t, keys) ==
    LET rows == [i \in DOMAIN t |-> Append([k \in DOMAIN keys |-> t[i][keys[k]]], i)]
        merged == Sorts!BitonicMerge(rows, [k \in DOMAIN keys |-> "ASC"])
    IN  Materialize([i \in DOMAIN t |-> t[merged[i][Len(keys) + 1]]])

(* Unique keys on both sides, all rows valid: equal keys are neighbours.   *)
(* The copied columns move down by one row.  The rows are merged only when *)
(* they are not trimmed.                                                   *)
MatchRows(s, keys) ==
    Filter(s, {i \in 2 .. Len(s) : \A k \in DOMAIN keys : s[i][keys[k]] = s[i - 1][keys[k]]})
MoveDown(s, copied) ==
    Materialize([i \in DOMAIN s |->
        [c \in Columns(s) |-> IF c \in copied /\ i > 1 THEN s[i - 1][c] ELSE s[i][c]]])
MergeOrSort(t, keys, merge) == IF merge THEN MergeRows(t, Append(keys, TID)) ELSE Sort(t, keys, "ASC")
UniqueJoin(left, right, keys, copied, merge, trim) ==
    LET kept == Columns(right) \cup copied
        matched == MatchRows(MergeOrSort(Concatenate(left, right, FALSE), keys, merge), keys)
    IN  TrimIf(DeleteColumns(Project(MoveDown(matched, copied), kept), {TID}), trim,
               IF Len(left) < Len(right) THEN Len(left) ELSE Len(right))

(* Every pair of rows, valid if both are and the keys agree.               *)
CartesianJoin(left, right, key) ==
    LET n == Len(right)
    IN  Materialize([p \in 1 .. Len(left) * n |->
            LET l == left[(p - 1) \div n + 1]
                r == right[((p - 1) % n) + 1]
            IN  [l @@ r EXCEPT ![V] = IF l[key] = r[key] THEN l[V] * r[V] ELSE 0]])
=============================================================================
