------------------------------ MODULE MCTables ------------------------------
(***************************************************************************)
(* The operations of tables on small tables: a behaviour calls one of them *)
(* on one input, and the rows it opens are compared with what the          *)
(* operation means for the valid rows alone.                               *)
(***************************************************************************)
EXTENDS Joins, Calls

LOCAL INSTANCE FiniteSetsExt
LOCAL INSTANCE SequencesExt

(* Rows of a key, a bit of validity, and columns of which no two agree.    *)
Bits == {0, 1}
Keyed(n, keys) == [1 .. n -> keys \X Bits]
LeftTable(x) ==
    [i \in DOMAIN x |-> V :> x[i][2] @@ "[K]" :> x[i][1] @@ "A" :> 10 * i]
RightTable(x) ==
    [i \in DOMAIN x |-> V :> x[i][2] @@ "[K]" :> x[i][1] @@ "B" :> 2 ^ i]

Valid(x) == {i \in DOMAIN x : x[i][2] = 1}
UniqueKeys(x) == \A i, j \in Valid(x) : x[i][1] = x[j][1] => i = j
KeysOf(x) == {x[i][1] : i \in Valid(x)}

(* The left table of a join has unique keys among its valid rows.          *)
JoinArgs ==
    {a \in [left : Keyed(2, 0 .. 1), right : Keyed(4, 0 .. 1)] \cup [left : Keyed(3, 0 .. 1), right : Keyed(2, 0 .. 2)]
        : UniqueKeys(a.left)}
MergeableArgs ==
    {a \in [left : Keyed(2, 0 .. 2), right : Keyed(2, 0 .. 2), merge : BOOLEAN, trim : BOOLEAN] :
        /\ UniqueKeys(a.left) /\ UniqueKeys(a.right)
        /\ Valid(a.left) = DOMAIN a.left /\ Valid(a.right) = DOMAIN a.right
        /\ a.merge => ~a.trim /\ a.left[1][1] < a.left[2][1] /\ a.right[1][1] < a.right[2][1]}
GroupArgs ==
    {a \in [rows : Keyed(3, 0 .. 1) \cup Keyed(4, 0 .. 1), func : {"sum", "count", "max", "min"}, reverse : BOOLEAN] :
        Len(a.rows) = 4 => a.func = "sum"}

(* Where distinct goes wrong: the last invalid row and the first valid one *)
(* have one key, so the valid one is not the first of its run.             *)
LosesARow(t, keys) ==
    LET s == Sort(t, <<V>> \o keys, "ASC")
    IN  \E i \in 2 .. Len(s) :
            s[i - 1][V] = 0 /\ s[i][V] = 1 /\ KeyOf(s, keys)[i - 1] = KeyOf(s, keys)[i]
DistinctArgs == {x \in Keyed(4, 0 .. 1) \cup Keyed(3, 0 .. 2) : ~LosesARow(LeftTable(x), <<"[K]">>)}

TimeArgs == [time : [1 .. 4 -> 1 .. 4], gap : 0 .. 1]

JoinNames == {"inner", "inner_sum", "left_outer", "right_outer", "full_outer", "semi", "anti", "cartesian"}
TableInit ==
    \/ op \in JoinNames /\ arg \in JoinArgs
    \/ op = "unique" /\ arg \in MergeableArgs
    \/ op = "group" /\ arg \in GroupArgs
    \/ op = "distinct" /\ arg \in DistinctArgs
    \/ op = "cut" /\ arg \in [rows : Keyed(4, 0 .. 1), start : 0 .. 4, end : 0 .. 6]
    \/ op = "overwrite" /\ arg \in [left : Keyed(2, 0 .. 1), right : Keyed(2, 0 .. 1), index : 1 .. 2]
    \/ op \in {"tumbling_window", "gap_session", "threshold_session"} /\ arg \in TimeArgs
    \/ op = "concatenate" /\ arg \in [left : Keyed(2, 0 .. 1), right : Keyed(3, 0 .. 1)]

CopyA == <<"A", "A", "copy">>
JoinCall ==
    LET left == LeftTable(arg.left)
        right == RightTable(arg.right)
        k == <<"[K]">>
    IN  \/ op = "inner" /\ Return(OpenColumns(InnerJoin(left, right, k, <<CopyA>>), <<"[K]", "A", "B">>))
        \/ op = "inner_sum" /\ Return(OpenColumns(
               InnerJoin(left, right, k, <<CopyA, <<"B", "B", "sum">>>>), <<"[K]", "A", "B">>))
        \/ op = "left_outer" /\ Return(OpenColumns(LeftOuterJoin(left, right, k, <<CopyA>>), <<"[K]", "A", "B">>))
        \/ op = "right_outer" /\ Return(OpenColumns(RightOuterJoin(left, right, k, <<CopyA>>), <<"[K]", "A", "B">>))
        \/ op = "full_outer" /\ Return(OpenColumns(FullOuterJoin(left, right, k, <<CopyA>>), <<"[K]", "A", "B">>))
        \/ op = "semi" /\ Return(OpenColumns(SemiJoin(right, left, k), <<"[K]", "B">>))
        \/ op = "anti" /\ Return(OpenColumns(AntiJoin(right, left, k), <<"[K]", "B">>))
        \/ op = "cartesian" /\ Return(OpenColumns(CartesianJoin(left, right, "[K]"), <<"[K]", "A", "B">>))
        \/ op = "unique" /\ Return(OpenColumns(
               UniqueJoin(left, right, k, {"A"}, arg.merge, arg.trim), <<"[K]", "A", "B">>))
        \/ op = "concatenate" /\ Return(OpenColumns(Concatenate(left, right, TRUE), <<TID, "[K]", "A", "B">>))

RowCall ==
    \/ op = "group" /\ Return(OpenColumns(
           AggregateTable(RightTable(arg.rows), <<"[K]">>, <<<<"B", "B", arg.func>>>>,
               [AggregationOptions EXCEPT !.reverse = arg.reverse]), <<"[K]", "B">>))
    \/ op = "distinct" /\ Return(OpenColumns(DistinctRows(LeftTable(arg), <<"[K]">>), <<"[K]">>))
    \/ op = "cut" /\ Return(Cut(LeftTable(arg.rows), arg.start, arg.end))
    \/ op = "overwrite" /\ Return(OverwriteRow(LeftTable(arg.left), SubSeq(LeftTable(arg.right), 1, 1), arg.index))

TimeTable ==
    [i \in DOMAIN arg.time |-> V :> 1 @@ "[K]" :> 0 @@ "T" :> arg.time[i] @@ "[T]" :> arg.time[i] @@ "[W]" :> 0]
WindowCall ==
    LET k == <<"[K]">>
    IN  \/ op = "tumbling_window" /\ Return(OpenColumns(TumblingWindowTable(TimeTable, "T", 2, "[W]"), <<"T", "[W]">>))
        \/ op = "gap_session" /\ Return(OpenColumns(GapSessionTable(TimeTable, k, "[T]", "[W]", arg.gap), <<"T", "[W]">>))
        \/ op = "threshold_session" /\ Return(OpenColumns(
               ThresholdSessionTable(TimeTable, k, "[T]", "[T]", "[W]", 1 + arg.gap, TRUE), <<"T", "[W]">>))

TableCall == JoinCall \/ RowCall \/ WindowCall

----------------------------------------------------------------------------
(* What the joins mean, as sets: no two of their rows are the same.        *)
Pairs == {p \in Valid(arg.left) \X Valid(arg.right) : arg.left[p[1]][1] = arg.right[p[2]][1]}
Joined == {<<arg.right[p[2]][1], 10 * p[1], 2 ^ p[2]>> : p \in Pairs}
OnlyLeft == {<<arg.left[i][1], 10 * i, 0>> : i \in {i \in Valid(arg.left) : arg.left[i][1] \notin KeysOf(arg.right)}}
OnlyRight == {<<arg.right[j][1], 0, 2 ^ j>> : j \in {j \in Valid(arg.right) : arg.right[j][1] \notin KeysOf(arg.left)}}
AllLeft == {<<arg.left[i][1], 10 * i, 0>> : i \in Valid(arg.left)}
Right(S) == {<<arg.right[j][1], 2 ^ j>> : j \in {j \in Valid(arg.right) : (arg.right[j][1] \in KeysOf(arg.left)) <=> S}}

InOneGroup(x, k) == {2 ^ i : i \in {i \in Valid(x) : x[i][1] = k}}
Folded(func, values) ==
    CASE func = "sum" -> SumSet(values)
      [] func = "count" -> Cardinality(values)
      [] func = "max" -> Max(values)
      [] func = "min" -> Min(values)

Times == {arg.time[i] : i \in DOMAIN arg.time}
SessionOf(t) == Max({s \in Times : s <= t /\ ~\E r \in Times : r < s /\ s - r <= arg.gap})
Count(rows, r) == Cardinality({i \in DOMAIN rows : rows[i] = r})
OpensBag(rows) ==
    /\ ToSet(out) = ToSet(rows)
    /\ \A r \in ToSet(rows) : Count(out, r) = Count(rows, r)

Opens(rows) == ToSet(out) = rows /\ Len(out) = Cardinality(rows)

(* Whatever the invalid rows hold, an operation opens what it means for    *)
(* the valid ones: the joins of join.h the pairs of equal keys and the     *)
(* rows without a partner that they keep, aggregate and distinct one row   *)
(* per key, cut a range of rows.  A full outer join also keeps the left    *)
(* rows that have a partner.                                               *)
TablesAgree ==
    /\ Returned({"inner", "cartesian", "unique"}) => Opens(Joined)
    /\ Returned({"inner_sum"}) =>
           Opens({<<arg.left[p[1]][1], 10 * p[1], SumSet(InOneGroup(arg.right, arg.left[p[1]][1]))>> : p \in Pairs})
    /\ Returned({"left_outer"}) => Opens(Joined \cup OnlyLeft)
    /\ Returned({"right_outer"}) => Opens(Joined \cup OnlyRight)
    /\ Returned({"full_outer"}) => Opens(Joined \cup OnlyRight \cup AllLeft)
    /\ Returned({"semi"}) => Opens(Right(TRUE))
    /\ Returned({"anti"}) => Opens(Right(FALSE))
    /\ Returned({"concatenate"}) =>
           Opens({<<0>> \o r : r \in AllLeft} \cup {<<1, arg.right[j][1], 0, 2 ^ j>> : j \in Valid(arg.right)})
    /\ Returned({"group"}) =>
           Opens({<<k, Folded(arg.func, InOneGroup(arg.rows, k))>> : k \in KeysOf(arg.rows)})
    /\ Returned({"distinct"}) => Opens({<<k>> : k \in KeysOf(arg)})
    /\ Returned({"cut"}) => out = SubSeq(LeftTable(arg.rows), arg.start + 1, IF arg.end > 4 THEN 4 ELSE arg.end)
    /\ Returned({"overwrite"}) => \A i \in DOMAIN out :
           out[i] = IF i = arg.index THEN [LeftTable(arg.right)[1] EXCEPT ![V] = LeftTable(arg.left)[i][V]]
                    ELSE LeftTable(arg.left)[i]
    /\ Returned({"tumbling_window"}) => OpensBag([i \in DOMAIN arg.time |-> <<arg.time[i], arg.time[i] \div 2>>])
    /\ Returned({"gap_session"}) => OpensBag([i \in DOMAIN arg.time |-> <<arg.time[i], SessionOf(arg.time[i])>>])
    /\ Returned({"threshold_session"}) =>
           LET above == {t \in Times : t > 1 + arg.gap}
           IN  out = IF above \in {{}, Times} THEN <<>> ELSE <<<<Min(above), Min(above)>>>>
=============================================================================
