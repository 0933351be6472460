---------------------------- MODULE TpchQueries ----------------------------
(***************************************************************************)
(* The TPC-H queries over secret shared tables, each beside the SQL whose  *)
(* rows it is checked against.  db holds one table per relation: C, O, L,  *)
(* P, PS, S, N, R.  What the programs fix as constants and the small data  *)
(* must vary (nations, regions, limits) are parameters.                    *)
(*                                                                         *)
(* A query returns the rows opened at its end; its SQL is a set, since the *)
(* columns selected always determine the row.                              *)
(***************************************************************************)
EXTENDS Joins

LOCAL INSTANCE FiniteSetsExt

Copy(c) == <<c, c, "copy">>

(* The price of a line after the discount, in whole units.                 *)
Discounted(row) == (row["ExtendedPrice"] * (100 - row["Discount"])) \div 100
WithRevenue(t, c) ==
    DeleteColumns(PutEach(t, c, Discounted), {"ExtendedPrice", "Discount"})

(* Seeded error: the quotient is not corrected for a negative remainder.   *)
DivideUp(a, b) == IF b > 0 THEN (a + b - 1) \div b ELSE 0

(* Division of secret values (Circuits.tla, DivideWords): it rounds down,  *)
(* and a divisor of zero yields -1, or 0 for a negative dividend.          *)
Divide(a, b) == IF b > 0 THEN a \div b ELSE IF a < 0 THEN 0 ELSE -1
Ratio(t, res, a, b) == PutEach(t, res, LAMBDA r : Divide(r[a], r[b]))

Compare(t, res, c, rel, x) ==
    Put(t, res, [i \in DOMAIN t |-> IF i \in Select(t, c, rel, x) THEN 1 ELSE 0])
Between(t, c, low, high) == Select(t, c, ">=", low) \cap Select(t, c, "<", high)
WhereBetween(t, c, low, high) == Filter(t, Between(t, c, low, high))
Smaller(m, n) == IF m < n THEN m ELSE n
AtMost(t, n) == Smaller(n, Len(t))
FirstRows(t, n) == HeadRows(t, AtMost(t, n))
LastRows(t, n) == TailRows(t, AtMost(t, n))
DescBy(cols) == [k \in DOMAIN cols |-> <<cols[k], "DESC">>]
AscBy(cols) == [k \in DOMAIN cols |-> <<cols[k], "ASC">>]

----------------------------------------------------------------------------
(* Q1: pricing summary.                                                    *)
Q1(db, shipDate) ==
    LET group == <<V, "[ReturnFlag]", "[LineStatus]">>
        l1 == Sort(Where(db.L, "[ShipDate]", "<=", shipDate), group, "ASC")
        l2 == AddColumns(l1, {"SumDiscPrice", "SumCharge", "CountOrder", "SumQuantity", "SumPrice",
                              "SumDisc", "CountQuantity", "CountPrice", "CountDisc"})
        l3 == PutEach(l2, "DiscPrice", Discounted)
        l4 == PutEach(l3, "Charge", LAMBDA r : (r["DiscPrice"] * (r["Tax"] + 100)) \div 100)
        sums == AggregateTable(l4, group,
                    <<<<"Quantity", "SumQuantity", "sum">>, <<"Quantity", "CountQuantity", "count">>,
                      <<"ExtendedPrice", "SumPrice", "sum">>, <<"ExtendedPrice", "CountPrice", "count">>,
                      <<"Discount", "SumDisc", "sum">>, <<"Discount", "CountDisc", "count">>,
                      <<"DiscPrice", "SumDiscPrice", "sum">>, <<"Charge", "SumCharge", "sum">>,
                      <<"CountOrder", "CountOrder", "count">>>>,
                    [AggregationOptions EXCEPT !.reverse = TRUE, !.do_sort = FALSE])
        last == LastRows(Sort(sums, <<V>>, "ASC"), 6)
        avgs == Ratio(Ratio(Ratio(last, "[AvgQuantity]", "SumQuantity", "CountQuantity"),
                            "[AvgPrice]", "SumPrice", "CountPrice"), "[AvgDisc]", "SumDisc", "CountDisc")
    IN  OpenColumns(avgs, <<"[ReturnFlag]", "[LineStatus]", "CountOrder", "SumCharge", "SumDiscPrice",
                            "[AvgDisc]", "[AvgPrice]", "[AvgQuantity]">>)

Q1Sql(db, shipDate) ==
    LET rows == Select(db.L, "[ShipDate]", "<=", shipDate)
        Group(g) == {i \in rows : <<db.L[i]["[ReturnFlag]"], db.L[i]["[LineStatus]"]>> = g}
        Sum(c, g) == MapThenSumSet(LAMBDA i : db.L[i][c], Group(g))
        Price(i) == Discounted(db.L[i])
        Charge(i) == (Price(i) * (100 + db.L[i]["Tax"])) \div 100
        n(g) == Cardinality(Group(g))
    IN  {<<g[1], g[2], n(g), MapThenSumSet(Charge, Group(g)), MapThenSumSet(Price, Group(g)),
           Sum("Discount", g) \div n(g), Sum("ExtendedPrice", g) \div n(g), Sum("Quantity", g) \div n(g)>> :
             g \in {<<db.L[i]["[ReturnFlag]"], db.L[i]["[LineStatus]"]>> : i \in rows}}

----------------------------------------------------------------------------
(* Q2: the suppliers of a region with the lowest price for a part.         *)
Q2(db, size, type, region, limit) ==
    LET p == Project(Where(Where(db.P, "[Size]", "=", size), "[Type]", "=", type),
                     {"[PartKey]"})
        r == Project(Where(db.R, "[Name]", "=", region), {"[RegionKey]", "[Name]"})
        n0 == Project(db.N, {"[NationKey]", "[RegionKey]", "[Name]"})
        n == AddColumns(Project(InnerJoin(r, n0, <<"[RegionKey]">>, <<>>), {"[NationKey]", "[Name]"}),
                        {"[N_Name]"})
        s0 == Project(db.S, {"[SuppKey]", "[NationKey]", "[AcctBal]", "[Name]"})
        s == DeleteColumns(InnerJoin(n, s0, <<"[NationKey]">>, <<<<"[Name]", "[N_Name]", "copy">>>>),
                           {"[NationKey]"})
        ps == DeleteColumns(
                  InnerJoin(s, Project(db.PS, {"[PartKey]", "[SuppKey]", "[SupplyCost]"}), <<"[SuppKey]">>,
                            <<Copy("[N_Name]"), Copy("[Name]"), Copy("[AcctBal]")>>), {"[SuppKey]"})
        parts == AddColumns(Sort(InnerJoin(p, ps, <<"[PartKey]">>, <<>>), <<V>>, "DESC"), {"[MinSupplyCost]"})
        down == AggregateTable(parts, <<"[PartKey]">>, <<<<"[SupplyCost]", "[MinSupplyCost]", "min">>>>,
                    [AggregationOptions EXCEPT !.do_sort = FALSE, !.mark_valid = FALSE])
        up == AggregateTable(down, <<"[PartKey]">>, <<Copy("[MinSupplyCost]")>>,
                    [AggregationOptions EXCEPT !.do_sort = FALSE, !.reverse = TRUE])
        cheapest == Keep(up, LAMBDA row : row["[SupplyCost]"] = row["[MinSupplyCost]"])
        sorted == SortRows(cheapest, DescBy(<<V, "[AcctBal]">>) \o AscBy(<<"[N_Name]", "[Name]", "[PartKey]">>))
    IN  OpenColumns(HeadRows(sorted, limit), <<"[AcctBal]", "[Name]", "[N_Name]", "[PartKey]">>)

Q2Sql(db, size, type, region) ==
    LET regions == {db.R[r]["[RegionKey]"] : r \in Select(db.R, "[Name]", "=", region)}
        offers == {<<ps, s, n>> \in Rows(db.PS) \X Rows(db.S) \X Rows(db.N) :
            /\ db.PS[ps]["[SuppKey]"] = db.S[s]["[SuppKey]"]
            /\ db.S[s]["[NationKey]"] = db.N[n]["[NationKey]"]
            /\ db.N[n]["[RegionKey]"] \in regions}
        Part(o) == db.PS[o[1]]["[PartKey]"]
        parts == {db.P[p]["[PartKey]"] : p \in Select(db.P, "[Size]", "=", size) \cap Select(db.P, "[Type]", "=", type)}
        cheapest == {o \in offers : \A other \in offers :
            Part(other) = Part(o) => db.PS[o[1]]["[SupplyCost]"] <= db.PS[other[1]]["[SupplyCost]"]}
    IN  {<<db.S[o[2]]["[AcctBal]"], db.S[o[2]]["[Name]"], db.N[o[3]]["[Name]"], Part(o)>> :
            o \in {o \in cheapest : Part(o) \in parts}}

----------------------------------------------------------------------------
(* Q3: shipping priority.                                                  *)
Q3(db, plan, date, segment, limit) ==
    LET c == DeleteColumns(Where(db.C, "[MktSegment]", "=", segment), {"[MktSegment]"})
        customers == Project(c, {"[CustKey]"})
        o == Project(Where(db.O, "[OrderDate]", "<", date), {"[OrderKey]", "[CustKey]", "[OrderDate]"})
        l0 == Project(Where(db.L, "[ShipDate]", ">", date),
                      {"[OrderKey]", "ExtendedPrice", "Discount"})
        l == WithRevenue(l0, "Revenue")
        Lines(orders, more) == DeleteColumns(
            InnerJoin(AddColumns(orders, {"GroupRevenue"}), l, <<"[OrderKey]">>,
                      <<<<"Revenue", "GroupRevenue", "sum">>, Copy("[OrderDate]")>> \o more), {"Revenue"})
        col == IF plan = 1
               THEN DeleteColumns(InnerJoin(customers, Lines(o, <<Copy("[CustKey]")>>), <<"[CustKey]">>, <<>>),
                                  {"[CustKey]"})
               ELSE Lines(DeleteColumns(InnerJoin(customers, o, <<"[CustKey]">>, <<>>), {"[CustKey]"}), <<>>)
        sorted == SortRows(RenameColumn(col, "GroupRevenue", "[GroupRevenue]"),
                      DescBy(<<V, "[GroupRevenue]">>) \o AscBy(<<"[OrderDate]">>))
    IN  OpenColumns(FirstRows(sorted, limit), <<"[OrderKey]", "[GroupRevenue]", "[OrderDate]">>)

Q3Sql(db, date, segment) ==
    LET J == {<<c, o, l>> \in Rows(db.C) \X Rows(db.O) \X Rows(db.L) :
                 /\ db.C[c]["[MktSegment]"] = segment /\ db.C[c]["[CustKey]"] = db.O[o]["[CustKey]"]
                 /\ db.L[l]["[OrderKey]"] = db.O[o]["[OrderKey]"]
                 /\ db.O[o]["[OrderDate]"] < date /\ db.L[l]["[ShipDate]"] > date}
    IN  {<<db.O[o]["[OrderKey]"],
           MapThenSumSet(LAMBDA j : Discounted(db.L[j[3]]), {j \in J : j[2] = o}),
           db.O[o]["[OrderDate]"]>> : o \in {j[2] : j \in J}}

----------------------------------------------------------------------------
(* Q4: order priority checking.                                            *)
LateOrders(db, date, interval) ==
    LET o0 == Project(db.O, {"[OrderKey]", "[OrderPriority]", "[OrderDate]"})
        o == WhereBetween(o0, "[OrderDate]", date, date + interval)
        l0 == Project(db.L, {"[OrderKey]", "[CommitDate]", "[ReceiptDate]"})
        l == Keep(l0, LAMBDA r : r["[CommitDate]"] < r["[ReceiptDate]"])
    IN  InnerJoin(o, l, <<"[OrderKey]">>, <<Copy("[OrderPriority]")>>)

Q4(db, date, interval) ==
    LET once == AddColumns(DistinctRows(LateOrders(db, date, interval), <<"[OrderKey]">>), {"OrderCount"})
        counted == Aggregated(once, <<"[OrderPriority]">>, <<<<"OrderCount", "OrderCount", "count">>>>)
    IN  OpenColumns(counted, <<"[OrderPriority]", "OrderCount">>)

Q4Sql(db, date, interval) ==
    LET orders == {o \in DOMAIN db.O :
                      /\ db.O[o]["[OrderDate]"] >= date /\ db.O[o]["[OrderDate]"] < date + interval
                      /\ \E l \in DOMAIN db.L :
                             /\ db.L[l]["[OrderKey]"] = db.O[o]["[OrderKey]"]
                             /\ db.L[l]["[CommitDate]"] < db.L[l]["[ReceiptDate]"]}
        priorities == {db.O[o]["[OrderPriority]"] : o \in orders}
    IN  {<<p, Cardinality({o \in orders : db.O[o]["[OrderPriority]"] = p})>> : p \in priorities}

----------------------------------------------------------------------------
(* Q5: local supplier volume, by each of the plans the build selects.      *)
Q5Items(db, plan, nations, orders, items) ==
    LET name == <<Copy("[Name]")>>
        both == <<Copy("[Name]"), Copy("[NationKey]")>>
        customers == Project(db.C, {"[CustKey]", "[NationKey]"})
        suppliers == Project(db.S, {"[SuppKey]", "[NationKey]"})
        allNations == Project(db.N, {"[NationKey]", "[RegionKey]", "[Name]"})
        selected == IF plan = "selectivity"
                    THEN InnerJoin(nations, InnerJoin(customers, orders, <<"[CustKey]">>, <<Copy("[NationKey]")>>),
                                   <<"[NationKey]">>, name)
                    ELSE InnerJoin(InnerJoin(nations, customers, <<"[NationKey]">>, name), orders,
                                   <<"[CustKey]">>, both)
        bySupplier == DeleteColumns(
            InnerJoin(InnerJoin(nations, suppliers, <<"[NationKey]">>, name), items, <<"[SuppKey]">>, name),
            {"[NationKey]", "[SuppKey]"})
        byCustomer == DeleteColumns(
            InnerJoin(InnerJoin(InnerJoin(allNations, customers, <<"[NationKey]">>, name),
                                orders, <<"[CustKey]">>, name), items, <<"[OrderKey]">>, name),
            {"[NationKey]", "[CustKey]", "[SuppKey]"})
    IN  IF plan = "original"
        THEN InnerJoin(byCustomer, bySupplier, <<"[OrderKey]", "[LineNumber]", "[Name]">>, <<>>)
        ELSE InnerJoin(suppliers, InnerJoin(selected, items, <<"[OrderKey]">>, both),
                       <<"[SuppKey]", "[NationKey]">>, <<>>)

Q5(db, plan, date, interval, region) ==
    LET o == DeleteColumns(WhereBetween(Project(db.O, {"[OrderKey]", "[CustKey]", "[OrderDate]"}),
                                        "[OrderDate]", date, date + interval), {"[OrderDate]"})
        r == Where(Project(db.R, {"[RegionKey]", "[Name]"}), "[Name]", "=", region)
        n == Project(InnerJoin(r, Project(db.N, {"[NationKey]", "[RegionKey]", "[Name]"}), <<"[RegionKey]">>, <<>>),
                     {"[NationKey]", "[Name]"})
        l == WithRevenue(Project(db.L, {"[OrderKey]", "[LineNumber]", "[SuppKey]", "ExtendedPrice", "Discount"}),
                         "Revenue")
        RevenuePerNation(items) ==
            TailRows(Sort(Aggregated(items, <<"[Name]">>, <<<<"Revenue", "Revenue", "sum">>>>), <<V>>, "ASC"), Len(db.N))
        sums == RenameColumn(RevenuePerNation(Q5Items(db, plan, n, o, l)), "Revenue", "[Revenue]")
    IN  OpenColumns(Sort(sums, <<"[Revenue]">>, "DESC"), <<"[Name]", "[Revenue]">>)

Q5Sql(db, date, interval, region) ==
    LET J == {<<c, o, l, s, n>> \in Rows(db.C) \X Rows(db.O) \X Rows(db.L) \X Rows(db.S) \X Rows(db.N) :
                 /\ db.O[o]["[OrderDate]"] >= date /\ db.O[o]["[OrderDate]"] < date + interval
                 /\ db.C[c]["[CustKey]"] = db.O[o]["[CustKey]"] /\ db.L[l]["[OrderKey]"] = db.O[o]["[OrderKey]"]
                 /\ db.L[l]["[SuppKey]"] = db.S[s]["[SuppKey]"] /\ db.C[c]["[NationKey]"] = db.S[s]["[NationKey]"]
                 /\ db.S[s]["[NationKey]"] = db.N[n]["[NationKey]"]
                 /\ \E r \in Select(db.R, "[Name]", "=", region) : db.N[n]["[RegionKey]"] = db.R[r]["[RegionKey]"]}
    IN  {<<db.N[n]["[Name]"], MapThenSumSet(LAMBDA j : Discounted(db.L[j[3]]), {j \in J : j[5] = n})>> :
            n \in {j[5] : j \in J}}
=============================================================================
