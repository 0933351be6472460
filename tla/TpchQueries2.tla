--------------------------- MODULE TpchQueries2 ---------------------------
(***************************************************************************)
(* The TPC-H queries 6 to 22; see TpchQueries for how they are written.    *)
(***************************************************************************)
EXTENDS TpchQueries, TpchData

LOCAL INSTANCE FiniteSetsExt

Product(t, res, a, b) == PutEach(t, res, LAMBDA r : r[a] * r[b])

(* A bit: the column has one of these values.                              *)
Or(t, res, c, values) == PutEach(t, res, LAMBDA r : IF r[c] \in values THEN 1 ELSE 0)

(* The sum of a column over the valid rows, in the one row that is left.   *)
OnlyValue(t, c) == t[1][c]
LastSum(t, c) == OnlyValue(TailRows(PrefixSum(t, c), 1), c)
SumOfValid(t, c, res) == TailRows(PrefixSum(Product(t, res, V, c), res), 1)

----------------------------------------------------------------------------
(* Q6: forecasting revenue change, over the columns shared as differences. *)
Q6(db) ==
    LET l == AddColumns(Project(ProactiveSharing(db.L),
                 {"[ShipDateAdj]", "[ShipDateAdjInterval]", "ExtendedPrice", "Discount", "[DiscountHigh]",
                  "[DiscountLow]", "[QuantityAdj]"}), {"Revenue", "SumRevenue"})
        kept == Keep(l, LAMBDA r : /\ r["[ShipDateAdj]"] >= 0 /\ r["[ShipDateAdjInterval]"] < 0
                                   /\ r["[DiscountHigh]"] >= 0 /\ r["[DiscountLow]"] < 0 /\ r["[QuantityAdj]"] < 0)
        revenue == Product(kept, "Revenue", "ExtendedPrice", "Discount")
    IN  <<<<OnlyValue(SumOfValid(revenue, "Revenue", "SumRevenue"), "SumRevenue")>>>>

Q6Sql(db) ==
    {<<MapThenSumSet(LAMBDA i : db.L[i]["ExtendedPrice"] * db.L[i]["Discount"],
         Between(db.L, "[ShipDate]", DateThreshold, DateThreshold + DateInterval)
             \cap Select(db.L, "Discount", ">=", DiscountThreshold - 1)
             \cap Select(db.L, "Discount", "<=", DiscountThreshold + 1)
             \cap Select(db.L, "Quantity", "<", QuantityThreshold))>>}

----------------------------------------------------------------------------
(* Q7: volume shipping between two nations.                                *)
Q7(db, start, mid, end, n1, n2) ==
    LET s == Project(db.S, {"[SuppKey]", "[NationKey]"})
        l0 == Project(db.L, {"[ShipDate]", "ExtendedPrice", "Discount", "[SuppKey]", "[OrderKey]"})
        l1 == WhereBetween(l0, "[ShipDate]", start, end)
        l == WithRevenue(DeleteColumns(Compare(l1, "[Year]", "[ShipDate]", ">=", mid), {"[ShipDate]"}),
                         "Volume")
        o == Project(db.O, {"[OrderKey]", "[CustKey]"})
        c == Project(db.C, {"[CustKey]", "[NationKey]"})
        nation == Project(db.N, {"[NationKey]", "[Name]"})
        N1 == RenameColumn(nation, "[Name]", "[N1_Name]")
        N2 == RenameColumn(nation, "[Name]", "[N2_Name]")
        sl == InnerJoin(s, l, <<"[SuppKey]">>, <<Copy("[NationKey]")>>)
        osl == InnerJoin(o, sl, <<"[OrderKey]">>, <<Copy("[CustKey]")>>)
        n1osl == InnerJoin(N1, osl, <<"[NationKey]">>, <<Copy("[N1_Name]")>>)
        all == InnerJoin(N2, InnerJoin(c, n1osl, <<"[CustKey]">>, <<Copy("[NationKey]")>>),
                         <<"[NationKey]">>, <<Copy("[N2_Name]")>>)
        last == TailRows(Sort(all, <<V>>, "ASC"), Len(db.L))
        pairs == Keep(last, LAMBDA r : /\ r["[N1_Name]"] \in {n1, n2} /\ r["[N2_Name]"] \in {n1, n2}
                     /\ r["[N1_Name]"] # r["[N2_Name]"])
        sums == RenameColumn(
            Aggregated(pairs, <<"[N1_Name]", "[N2_Name]", "[Year]">>, <<<<"Volume", "Volume", "sum">>>>),
            "Volume", "Revenue")
    IN  OpenColumns(sums, <<"[N1_Name]", "[N2_Name]", "[Year]", "Revenue">>)

Q7Sql(db, start, mid, end, n1, n2) ==
    LET Key(t, i, u, j, c) == t[i][c] = u[j][c]
        J == {<<s, l, o, c, n, m>> \in Rows(db.S) \X Between(db.L, "[ShipDate]", start, end) \X Rows(db.O)
                                           \X Rows(db.C) \X Rows(db.N) \X Rows(db.N) :
                 /\ Key(db.S, s, db.L, l, "[SuppKey]") /\ Key(db.O, o, db.L, l, "[OrderKey]")
                 /\ Key(db.C, c, db.O, o, "[CustKey]") /\ Key(db.S, s, db.N, n, "[NationKey]")
                 /\ Key(db.C, c, db.N, m, "[NationKey]")
                 /\ <<db.N[n]["[Name]"], db.N[m]["[Name]"]>> \in {<<n1, n2>>, <<n2, n1>>}}
        Group(j) == <<db.N[j[5]]["[Name]"], db.N[j[6]]["[Name]"],
                      IF db.L[j[2]]["[ShipDate]"] >= mid THEN 1 ELSE 0>>
    IN  {Append(g, MapThenSumSet(LAMBDA j : Discounted(db.L[j[2]]), {j \in J : Group(j) = g})) :
            g \in {Group(j) : j \in J}}

----------------------------------------------------------------------------
(* Q8: national market share, by each of the plans of the build.  The      *)
(* joins end with a row per line of the selected parts, orders and         *)
(* customers, and the name of the supplier's nation.                       *)
Q8Items(plan, p, s, l, o, c, nation, r) ==
    LET year == <<Copy("[CustKey]"), Copy("[Year]")>>
        name == <<Copy("[Name]")>>
        home == <<Copy("[NationKey]")>>
        rn == Project(InnerJoin(r, nation, <<"[RegionKey]">>, <<>>), {"[NationKey]"})
        rc == Project(InnerJoin(rn, c, <<"[NationKey]">>, <<>>), {"[CustKey]"})
        rco == Project(InnerJoin(rc, o, <<"[CustKey]">>, <<>>), {"[OrderKey]", "[Year]"})
        opl == DeleteColumns(InnerJoin(o, DeleteColumns(InnerJoin(p, l, <<"[PartKey]">>, <<>>), {"[PartKey]"}),
                                       <<"[OrderKey]">>, year), {"[OrderKey]"})
        ns == Project(InnerJoin(nation, s, <<"[NationKey]">>, name), {"[SuppKey]", "[Name]"})
        items == IF plan \in {"selectivity 1", "selectivity 3"}
                 THEN DeleteColumns(InnerJoin(rco, l, <<"[OrderKey]">>, <<Copy("[Year]")>>), {"[OrderKey]"})
                 ELSE DeleteColumns(InnerJoin(rc, opl, <<"[CustKey]">>, <<>>), {"[CustKey]"})
        Supplied(x) == DeleteColumns(InnerJoin(s, x, <<"[SuppKey]">>, home), {"[SuppKey]"})
        copl == DeleteColumns(InnerJoin(c, opl, <<"[CustKey]">>, home), {"[CustKey]"})
        n1copl == DeleteColumns(InnerJoin(nation, copl, <<"[NationKey]">>, <<Copy("[RegionKey]")>>), {"[NationKey]"})
    IN  CASE plan = "selectivity 1" ->
                InnerJoin(ns, DeleteColumns(InnerJoin(p, items, <<"[PartKey]">>, <<>>), {"[PartKey]"}),
                          <<"[SuppKey]">>, name)
          [] plan = "selectivity 2" -> InnerJoin(nation, Supplied(items), <<"[NationKey]">>, name)
          [] plan = "selectivity 3" ->
                InnerJoin(p, DeleteColumns(InnerJoin(ns, items, <<"[SuppKey]">>, name), {"[SuppKey]"}),
                          <<"[PartKey]">>, <<>>)
          [] plan = "selectivity 4" -> InnerJoin(ns, items, <<"[SuppKey]">>, name)
          [] plan = "canonical" ->
                InnerJoin(nation, Supplied(DeleteColumns(InnerJoin(rn, copl, <<"[NationKey]">>, <<>>), {"[NationKey]"})),
                          <<"[NationKey]">>, name)
          [] plan = "original" ->
                InnerJoin(nation, Supplied(DeleteColumns(InnerJoin(r, n1copl, <<"[RegionKey]">>, <<>>), {"[RegionKey]"})),
                          <<"[NationKey]">>, name)

SharePerYear(all, nationName, limit) ==
    LET marked == Compare(all, "ValidNation", "[Name]", "=", nationName)
        volume == AddColumns(Product(marked, "VolumeFiltered", "Volume", "ValidNation"),
                             {"VolumeSum", "VolumeFilteredSum"})
        sums == Sort(Aggregated(volume, <<"[Year]">>, <<<<"Volume", "VolumeSum", "sum">>,
                                                        <<"VolumeFiltered", "VolumeFilteredSum", "sum">>>>),
                     <<V>>, "ASC")
        scaled == PutEach(LastRows(sums, limit), "VolumeFilteredSum", LAMBDA r : 100 * r["VolumeFilteredSum"])
    IN  Ratio(scaled, "[MarketShare]", "VolumeFilteredSum", "VolumeSum")

Q8(db, plan, start, mid, end, nationName, region, type) ==
    LET p == DeleteColumns(Where(Project(db.P, {"[PartKey]", "[Type]"}), "[Type]", "=", type), {"[Type]"})
        region0 == DeleteColumns(Where(Project(db.R, {"[RegionKey]", "[Name]"}), "[Name]", "=", region), {"[Name]"})
        o1 == WhereBetween(Project(db.O, {"[OrderKey]", "[CustKey]", "[OrderDate]"}), "[OrderDate]", start, end)
        o == DeleteColumns(Compare(o1, "[Year]", "[OrderDate]", ">=", mid), {"[OrderDate]"})
        l == WithRevenue(Project(db.L, {"ExtendedPrice", "Discount", "[PartKey]", "[SuppKey]", "[OrderKey]"}), "Volume")
        s == Project(db.S, {"[SuppKey]", "[NationKey]"})
        c == Project(db.C, {"[CustKey]", "[NationKey]"})
        n == Project(db.N, {"[NationKey]", "[RegionKey]", "[Name]"})
    IN  OpenColumns(SharePerYear(Q8Items(plan, p, s, l, o, c, n, region0), nationName, Len(db.O)),
                    <<"[Year]", "[MarketShare]">>)

Q8Sql(db, start, mid, end, nationName, region, type) ==
    LET Key(t, i, u, j, c) == t[i][c] = u[j][c]
        regional == {c \in Rows(db.C) : \E n \in Rows(db.N), r \in Select(db.R, "[Name]", "=", region) :
                        Key(db.C, c, db.N, n, "[NationKey]") /\ Key(db.N, n, db.R, r, "[RegionKey]")}
        J == {<<p, s, l, o, c, n>> \in Select(db.P, "[Type]", "=", type) \X Rows(db.S) \X Rows(db.L)
                      \X Between(db.O, "[OrderDate]", start, end) \X regional \X Rows(db.N) :
                 /\ Key(db.P, p, db.L, l, "[PartKey]") /\ Key(db.S, s, db.L, l, "[SuppKey]")
                 /\ Key(db.L, l, db.O, o, "[OrderKey]") /\ Key(db.O, o, db.C, c, "[CustKey]")
                 /\ Key(db.S, s, db.N, n, "[NationKey]")}
        Year(j) == IF db.O[j[4]]["[OrderDate]"] >= mid THEN 1 ELSE 0
        Volume(j) == Discounted(db.L[j[3]])
        OfNation(j) == IF db.N[j[6]]["[Name]"] = nationName THEN 100 * Volume(j) ELSE 0
        In(y) == {j \in J : Year(j) = y}
    IN  {<<y, MapThenSumSet(OfNation, In(y)) \div MapThenSumSet(Volume, In(y))>> : y \in {Year(j) : j \in J}}

----------------------------------------------------------------------------
(* Q9: product type profit, by each of the plans of the build.             *)
Q9Items(plan, p, s, l, ps, o, n) ==
    LET name == <<Copy("[NationName]")>>
        date == <<Copy("[OrderDate]")>>
        cost == <<Copy("SupplyCost")>>
        both == <<"[PartKey]", "[SuppKey]">>
        ns == InnerJoin(n, AddColumns(s, {"[NationName]"}), <<"[NationKey]">>, <<<<"[Name]", "[NationName]", "copy">>>>)
        withName == AddColumns(l, {"[NationName]"})
        pl == InnerJoin(p, withName, <<"[PartKey]">>, <<>>)
        Dated(x) == InnerJoin(o, x, <<"[OrderKey]">>, date)
        Costed(x) == InnerJoin(ps, Dated(x), both, cost)
        Dimension(d, x) == InnerJoin(d, Dated(x), both, cost \o name)
    IN  CASE plan = "selectivity 1" ->
                Costed(InnerJoin(n, InnerJoin(AddColumns(s, {"[NationName]"}), pl, <<"[SuppKey]">>, <<Copy("[NationKey]")>>),
                                 <<"[NationKey]">>, <<<<"[Name]", "[NationName]", "copy">>>>))
          [] plan = "selectivity 2" -> Costed(InnerJoin(ns, pl, <<"[SuppKey]">>, name))
          [] plan = "selectivity 3" ->
                Dimension(InnerJoin(ns, InnerJoin(p, ps, <<"[PartKey]">>, <<>>), <<"[SuppKey]">>, name), withName)
          [] plan = "selectivity 4" ->
                Dimension(InnerJoin(p, InnerJoin(ns, ps, <<"[SuppKey]">>, name), <<"[PartKey]">>, <<>>), withName)
          [] plan = "canonical" ->
                Dimension(InnerJoin(ns, ps, <<"[SuppKey]">>, name), InnerJoin(p, l, <<"[PartKey]">>, <<>>))
          [] plan = "original" ->
                Costed(InnerJoin(p, InnerJoin(ns, l, <<"[SuppKey]">>, name), <<"[PartKey]">>, <<>>))

ProfitPerNation(items) ==
    LET all == Project(items, {"[NationName]", "[OrderDate]", "ExtendedPrice", "Discount", "Quantity", "SupplyCost"})
        amount == PutEach(AddColumns(all, {"SumProfit"}), "Amount",
                          LAMBDA r : Discounted(r) - r["SupplyCost"] * r["Quantity"])
        sums == Aggregated(amount, <<"[NationName]", "[OrderDate]">>, <<<<"Amount", "SumProfit", "sum">>>>)
    IN  SortRows(sums, <<<<"[NationName]", "ASC">>, <<"[OrderDate]", "DESC">>>>)

Q9(db, plan, color) ==
    LET p == Where(Project(db.P, {"[Name]", "[PartKey]"}), "[Name]", "=", color)
        s == Project(db.S, {"[NationKey]", "[SuppKey]"})
        l == Project(db.L, {"[SuppKey]", "[PartKey]", "[OrderKey]", "ExtendedPrice", "Discount", "Quantity"})
        ps == Project(db.PS, {"[PartKey]", "[SuppKey]", "SupplyCost"})
        o == Project(db.O, {"[OrderKey]", "[OrderDate]"})
        n == Project(db.N, {"[NationKey]", "[Name]"})
    IN  OpenColumns(ProfitPerNation(Q9Items(plan, p, s, l, ps, o, n)), <<"[NationName]", "[OrderDate]", "SumProfit">>)

Q9Sql(db, color) ==
    LET Key(t, i, u, j, c) == t[i][c] = u[j][c]
        J == {<<p, s, l, ps, o, n>> \in Select(db.P, "[Name]", "=", color) \X Rows(db.S) \X Rows(db.L)
                      \X Rows(db.PS) \X Rows(db.O) \X Rows(db.N) :
                 /\ Key(db.P, p, db.L, l, "[PartKey]") /\ Key(db.S, s, db.L, l, "[SuppKey]")
                 /\ Key(db.PS, ps, db.L, l, "[SuppKey]") /\ Key(db.PS, ps, db.L, l, "[PartKey]")
                 /\ Key(db.O, o, db.L, l, "[OrderKey]") /\ Key(db.S, s, db.N, n, "[NationKey]")}
        Amount(j) == Discounted(db.L[j[3]]) - db.PS[j[4]]["SupplyCost"] * db.L[j[3]]["Quantity"]
        Group(j) == <<db.N[j[6]]["[Name]"], db.O[j[5]]["[OrderDate]"]>>
    IN  {Append(g, MapThenSumSet(Amount, {j \in J : Group(j) = g})) : g \in {Group(j) : j \in J}}

----------------------------------------------------------------------------
(* Q10: returned item reporting.                                           *)
CustomerInfo == <<"[C_Name]", "[AcctBal]", "[Phone]", "[Address]", "[Comment]">>
Q10(db, date, interval, flag) ==
    LET c == Project(db.C, Names(CustomerInfo) \cup {"[CustKey]", "[NationKey]"})
        o == DeleteColumns(WhereBetween(Project(db.O, {"[OrderKey]", "[CustKey]", "[OrderDate]"}),
                                        "[OrderDate]", date, date + interval), {"[OrderDate]"})
        l0 == Project(db.L, {"[OrderKey]", "[ReturnFlag]", "ExtendedPrice", "Discount"})
        l == WithRevenue(DeleteColumns(Where(l0, "[ReturnFlag]", "=", flag), {"[ReturnFlag]"}), "Revenue")
        ol == InnerJoin(o, l, <<"[OrderKey]">>, <<Copy("[CustKey]")>>)
        col == InnerJoin(c, ol, <<"[CustKey]">>,
                   [k \in DOMAIN CustomerInfo |-> Copy(CustomerInfo[k])] \o <<Copy("[NationKey]")>>)
        all == InnerJoin(Project(db.N, {"[NationKey]", "[Name]"}), col, <<"[NationKey]">>, <<Copy("[Name]")>>)
        sums == RenameColumn(Aggregated(all, <<"[CustKey]">>, <<<<"Revenue", "Revenue", "sum">>>>),
                             "Revenue", "[Revenue]")
    IN  OpenColumns(Sort(sums, <<"[Revenue]">>, "DESC"), <<"[CustKey]", "[Revenue]", "[Name]">> \o CustomerInfo)

Q10Sql(db, date, interval, flag) ==
    LET J == {<<c, o, l, n>> \in Rows(db.C) \X Between(db.O, "[OrderDate]", date, date + interval)
                                    \X Select(db.L, "[ReturnFlag]", "=", flag) \X Rows(db.N) :
                 /\ db.C[c]["[CustKey]"] = db.O[o]["[CustKey]"] /\ db.L[l]["[OrderKey]"] = db.O[o]["[OrderKey]"]
                 /\ db.C[c]["[NationKey]"] = db.N[n]["[NationKey]"]}
    IN  {<<db.C[g[1]]["[CustKey]"],
           MapThenSumSet(LAMBDA j : Discounted(db.L[j[3]]), {j \in J : j[1] = g[1] /\ j[4] = g[2]}),
           db.N[g[2]]["[Name]"]>> \o [k \in DOMAIN CustomerInfo |-> db.C[g[1]][CustomerInfo[k]]] :
               g \in {<<j[1], j[4]>> : j \in J}}

----------------------------------------------------------------------------
(* Q11: important stock.  The sum of all valid rows is divided and joined, *)
(* with no key, to every group.                                            *)
Q11(db, nationName, divide) ==
    LET ps == Project(db.PS, {"[SuppKey]", "[PartKey]", "[SupplyCost]", "SupplyCost", "AvailQty"})
        n0 == Project(db.N, {"[NationKey]", "[Name]"})
        n == Where(n0, "[Name]", "=", nationName)
        ns == InnerJoin(n, Project(db.S, {"[SuppKey]", "[NationKey]"}), <<"[NationKey]">>, <<>>)
        joined == InnerJoin(ns, ps, <<"[SuppKey]">>, <<>>)
        main == Product(joined, "Value", "SupplyCost", "AvailQty")
        total == SumOfValid(main, "Value", "SumValue")
        fraction == Project(PutEach(total, "[SumFraction]", LAMBDA r : r["SumValue"] \div divide),
                            {"SumValue", "[SumFraction]"})
        revalidated == Put(fraction, V, <<1>>)
        sums == Aggregated(AddColumns(main, {"SumValue"}), <<"[PartKey]">>, <<<<"Value", "SumValue", "sum">>>>)
        groups == Project(CopyColumn(sums, "[SumValue]", "SumValue"), {"[PartKey]", "[SumValue]"})
        compound == InnerJoin(revalidated, groups, <<>>, <<Copy("[SumFraction]")>>)
        large == Keep(compound, LAMBDA r : r["[SumValue]"] > r["[SumFraction]"])
    IN  OpenColumns(Sort(large, <<"[SumValue]">>, "DESC"), <<"[PartKey]", "[SumValue]">>)

Q11Sql(db, nationName, divide) ==
    LET J == {ps \in Rows(db.PS) : \E s \in Rows(db.S), n \in Select(db.N, "[Name]", "=", nationName) :
                 /\ db.PS[ps]["[SuppKey]"] = db.S[s]["[SuppKey]"]
                 /\ db.S[s]["[NationKey]"] = db.N[n]["[NationKey]"]}
        Value(rows) == MapThenSumSet(LAMBDA i : db.PS[i]["SupplyCost"] * db.PS[i]["AvailQty"], rows)
        Of(part) == {i \in J : db.PS[i]["[PartKey]"] = part}
    IN  {<<part, Value(Of(part))>> :
            part \in {part \in {db.PS[i]["[PartKey]"] : i \in J} : divide * Value(Of(part)) > Value(J)}}

----------------------------------------------------------------------------
(* Q12: shipping modes and order priority, a row per mode and priority.    *)
Q12(db, mode1, mode2, date) ==
    LET l0 == Project(db.L, {"[ShipMode]", "[CommitDate]", "[ReceiptDate]", "[ShipDate]", "[OrderKey]"})
        l == DeleteColumns(Keep(l0, LAMBDA r :
                 /\ r["[ReceiptDate]"] >= date /\ r["[ReceiptDate]"] < date + 365
                 /\ r["[ShipMode]"] \in {mode1, mode2} /\ r["[CommitDate]"] < r["[ReceiptDate]"]
                 /\ r["[ShipDate]"] < r["[CommitDate]"]), {"[CommitDate]", "[ReceiptDate]", "[ShipDate]"})
        o0 == Project(db.O, {"[OrderPriority]", "[OrderKey]"})
        o == DeleteColumns(Or(o0, "[HighLine]", "[OrderPriority]", {1, 2}), {"[OrderPriority]"})
        t == AddColumns(DeleteColumns(InnerJoin(o, l, <<"[OrderKey]">>, <<Copy("[HighLine]")>>), {"[OrderKey]"}),
                        {"LineCount"})
    IN  OpenColumns(Aggregated(t, <<"[ShipMode]", "[HighLine]">>, <<<<"LineCount", "LineCount", "count">>>>),
                    <<"[ShipMode]", "[HighLine]", "LineCount">>)

(* What the program looks up of the rows of the SQL, less the zero counts. *)
Q12Sql(db, mode1, mode2, date) ==
    LET J == {<<o, l>> \in Rows(db.O) \X Between(db.L, "[ReceiptDate]", date, date + 365) :
                 /\ db.O[o]["[OrderKey]"] = db.L[l]["[OrderKey]"] /\ db.L[l]["[ShipMode]"] \in {mode1, mode2}
                 /\ db.L[l]["[CommitDate]"] < db.L[l]["[ReceiptDate]"]
                 /\ db.L[l]["[ShipDate]"] < db.L[l]["[CommitDate]"]}
        Line(j) == <<db.L[j[2]]["[ShipMode]"], IF db.O[j[1]]["[OrderPriority]"] \in {1, 2} THEN 1 ELSE 0>>
    IN  {Append(g, Cardinality({j \in J : Line(j) = g})) : g \in {Line(j) : j \in J}}

----------------------------------------------------------------------------
(* Q13: customer distribution, over a left outer join that counts.         *)
Q13(db) ==
    LET c == Project(db.C, {"[CustKey]"})
        o0 == AddColumns(Project(db.O, {"[CustKey]", "[Comment]"}), {"Count"})
        o == DeleteColumns(Where(o0, "[Comment]", "#", 0), {"[Comment]"})
        t == LeftOuterJoin(c, o, <<"[CustKey]">>, <<<<"Count", "Count", "count">>>>)
        counted == AddColumns(CopyColumn(t, "[Count]", "Count"), {"CustDist"})
        f == AggregateTable(counted, <<"[Count]">>, <<<<"CustDist", "CustDist", "count">>>>,
                 [AggregationOptions EXCEPT !.reverse = TRUE])
        d == MarkDistinct(f, <<"[Count]">>, UNIQ)
        once == Where(d, UNIQ, "=", 1)
        final == DeleteColumns(CopyColumn(once, "[CustDist]", "CustDist"), {"[CustKey]", "Count", UNIQ, "CustDist"})
    IN  OpenColumns(Sort(final, <<"[CustDist]", "[Count]">>, "DESC"), <<"[Count]", "[CustDist]">>)

Q13Sql(db) ==
    LET OrderCount(c) == Cardinality({o \in Select(db.O, "[Comment]", "#", 0) :
                             db.O[o]["[CustKey]"] = db.C[c]["[CustKey]"]})
    IN  {<<n, Cardinality({c \in Rows(db.C) : OrderCount(c) = n})>> : n \in {OrderCount(c) : c \in Rows(db.C)}}

----------------------------------------------------------------------------
(* Q14: promotion effect, a quotient of two sums.                          *)
Q14(db, date, interval) ==
    LET l0 == Project(db.L, {"[ShipDate]", "[PartKey]", "Discount", "ExtendedPrice"})
        l == WhereBetween(l0, "[ShipDate]", date, date + interval)
        join == InnerJoin(Project(db.P, {"[PartKey]", "[Type]"}), l, <<"[PartKey]">>, <<Copy("[Type]")>>)
        Total(t) == OnlyValue(SumOfValid(WithRevenue(t, "Revenue"), "Revenue", "Sum"), "Sum")
    IN  <<<<Divide(100 * Total(Where(join, "[Type]", "=", 1)), Total(join))>>>>

Q14Sql(db, date, interval) ==
    LET J == {<<l, p>> \in Between(db.L, "[ShipDate]", date, date + interval) \X Rows(db.P) :
                 db.L[l]["[PartKey]"] = db.P[p]["[PartKey]"]}
        Volume(j) == Discounted(db.L[j[1]])
    IN  {<<(100 * MapThenSumSet(Volume, {j \in J : db.P[j[2]]["[Type]"] = 1})) \div MapThenSumSet(Volume, J)>>}

----------------------------------------------------------------------------
(* Q15: the suppliers with the largest revenue, which the sort puts last.  *)
Q15(db, date, interval) ==
    LET l0 == Project(db.L, {"[SuppKey]", "ExtendedPrice", "Discount", "[ShipDate]"})
        l1 == WithRevenue(WhereBetween(l0, "[ShipDate]", date, date + interval), "Revenue")
        l2 == Aggregated(AddColumns(l1, {"TotalRevenue"}), <<"[SuppKey]">>, <<<<"Revenue", "TotalRevenue", "sum">>>>)
        l3 == Project(CopyColumn(l2, "[TotalRevenue]", "TotalRevenue"), {"[SuppKey]", "[TotalRevenue]"})
        l == Sort(l3, <<V, "[TotalRevenue]">>, "ASC")
        largest == Where(l, "[TotalRevenue]", "=", l[Len(l)]["[TotalRevenue]"])
        s == Project(db.S, {"[SuppKey]", "[Name]", "[Address]", "[Phone]"})
        sl == InnerJoin(s, largest, <<"[SuppKey]">>, <<Copy("[Name]"), Copy("[Address]"), Copy("[Phone]")>>)
    IN  OpenColumns(Sort(sl, <<"[SuppKey]">>, "ASC"),
                    <<"[SuppKey]", "[Name]", "[Address]", "[Phone]", "[TotalRevenue]">>)

Q15Sql(db, date, interval) ==
    LET rows == Between(db.L, "[ShipDate]", date, date + interval)
        suppliers == {db.L[i]["[SuppKey]"] : i \in rows}
        Revenue(k) == MapThenSumSet(LAMBDA i : Discounted(db.L[i]), {i \in rows : db.L[i]["[SuppKey]"] = k})
        largest == {k \in suppliers : \A other \in suppliers : Revenue(other) <= Revenue(k)}
    IN  {<<db.S[s]["[SuppKey]"], db.S[s]["[Name]"], db.S[s]["[Address]"], db.S[s]["[Phone]"],
           Revenue(db.S[s]["[SuppKey]"])>> : s \in {s \in Rows(db.S) : db.S[s]["[SuppKey]"] \in largest}}

----------------------------------------------------------------------------
(* Q16: suppliers per kind of part, those with complaints left out.        *)
Q16(db, brand, type, comment, sizes) ==
    LET s == DeleteColumns(Where(Project(db.S, {"[SuppKey]", "[Comment]"}), "[Comment]", "=", comment),
                           {"[Comment]"})
        ps == AntiJoin(Project(db.PS, {"[SuppKey]", "[PartKey]"}), s, <<"[SuppKey]">>)
        p0 == Project(db.P, {"[PartKey]", "[Brand]", "[Type]", "[Size]"})
        p == Keep(p0, LAMBDA r : r["[Size]"] \in sizes /\ r["[Brand]"] # brand /\ r["[Type]"] # type)
        kind == <<"[Brand]", "[Type]", "[Size]">>
        pps == DeleteColumns(InnerJoin(p, ps, <<"[PartKey]">>, [k \in 1 .. 3 |-> Copy(kind[k])]), {"[PartKey]"})
        once == AddColumns(DistinctRows(pps, Append(kind, "[SuppKey]")), {"SupplierCount"})
        counts == RenameColumn(Aggregated(once, kind, <<<<"SupplierCount", "SupplierCount", "count">>>>),
                               "SupplierCount", "[SupplierCount]")
    IN  OpenColumns(Sort(counts, <<"[SupplierCount]">>, "DESC"), Append(kind, "[SupplierCount]"))

Q16Sql(db, brand, type, comment, sizes) ==
    LET complaints == {db.S[s]["[SuppKey]"] : s \in Select(db.S, "[Comment]", "=", comment)}
        J == {<<p, ps>> \in Rows(db.P) \X Rows(db.PS) :
                 /\ db.P[p]["[PartKey]"] = db.PS[ps]["[PartKey]"] /\ db.P[p]["[Brand]"] # brand
                 /\ db.P[p]["[Type]"] # type /\ db.P[p]["[Size]"] \in sizes
                 /\ db.PS[ps]["[SuppKey]"] \notin complaints}
        Kind(j) == <<db.P[j[1]]["[Brand]"], db.P[j[1]]["[Type]"], db.P[j[1]]["[Size]"]>>
    IN  {Append(g, Cardinality({db.PS[j[2]]["[SuppKey]"] : j \in {j \in J : Kind(j) = g}})) :
            g \in {Kind(j) : j \in J}}

----------------------------------------------------------------------------
(* Q17: what would be lost without the small orders of a part.             *)
Q17(db, brand, container) ==
    LET pl == InnerJoin(Project(db.P, {"[PartKey]", "[Brand]", "[Container]"}),
                        Project(db.L, {"[PartKey]", "Quantity", "ExtendedPrice"}),
                        <<"[PartKey]">>, <<Copy("[Brand]"), Copy("[Container]")>>)
        selected == Where(Where(pl, "[Brand]", "=", brand), "[Container]", "=", container)
        sums == Aggregated(AddColumns(pl, {"SumQuantity", "CountQuantity"}), <<"[PartKey]">>,
                    <<<<"Quantity", "SumQuantity", "sum">>, <<"Quantity", "CountQuantity", "count">>>>)
        last == TailRows(Sort(sums, <<V>>, "ASC"), Len(db.P))
        fifth == PutEach(last, "SumQuantity", LAMBDA r : r["SumQuantity"] \div 5)
        average == Ratio(fifth, "[AvgQuantity]", "SumQuantity", "CountQuantity")
        all == InnerJoin(average, selected, <<"[PartKey]">>, <<Copy("[AvgQuantity]")>>)
        small == AddColumns(Keep(all, LAMBDA r : r["Quantity"] < r["[AvgQuantity]"]),
                            {"SumExtendedPrice"})
    IN  <<<<OnlyValue(SumOfValid(small, "ExtendedPrice", "SumExtendedPrice"), "SumExtendedPrice") \div 7>>>>

Q17Sql(db, brand, container) ==
    LET Lines(p) == Select(db.L, "[PartKey]", "=", db.P[p]["[PartKey]"])
        Quantities(p) == MapThenSumSet(LAMBDA i : db.L[i]["Quantity"], Lines(p))
        J == {<<l, p>> \in Rows(db.L) \X (Select(db.P, "[Brand]", "=", brand)
                                              \cap Select(db.P, "[Container]", "=", container)) :
                 /\ l \in Lines(p)
                 /\ db.L[l]["Quantity"] < Quantities(p) \div (5 * Cardinality(Lines(p)))}
    IN  {<<MapThenSumSet(LAMBDA j : db.L[j[1]]["ExtendedPrice"], J) \div 7>>}

----------------------------------------------------------------------------
(* Q18: large volume customers.                                            *)
Q18(db, quantity) ==
    LET sums == Aggregated(AddColumns(Project(db.L, {"[OrderKey]", "Quantity"}), {"SumQuantity"}),
                    <<"[OrderKey]">>, <<<<"Quantity", "SumQuantity", "sum">>>>)
        l == Project(Where(sums, "SumQuantity", ">", quantity), {"[OrderKey]", "SumQuantity"})
        o == InnerJoin(Project(db.O, {"[OrderKey]", "[CustKey]", "[OrderDate]", "[TotalPrice]"}), l,
                       <<"[OrderKey]">>, <<Copy("[CustKey]"), Copy("[OrderDate]"), Copy("[TotalPrice]")>>)
        all == InnerJoin(Project(db.C, {"[CustKey]", "[C_Name]"}), o, <<"[CustKey]">>, <<Copy("[C_Name]")>>)
        total == Aggregated(AddColumns(all, {"FinalSum"}), <<"[CustKey]", "[OrderKey]">>,
                            <<<<"SumQuantity", "FinalSum", "sum">>>>)
    IN  OpenColumns(SortRows(total, <<<<"[TotalPrice]", "DESC">>, <<"[OrderDate]", "ASC">>>>),
                    <<"[C_Name]", "[CustKey]", "[OrderKey]", "[OrderDate]", "[TotalPrice]", "FinalSum">>)

Q18Sql(db, quantity) ==
    LET Sum(o) == MapThenSumSet(LAMBDA i : db.L[i]["Quantity"], Select(db.L, "[OrderKey]", "=", db.O[o]["[OrderKey]"]))
        J == {<<c, o>> \in Rows(db.C) \X {o \in Rows(db.O) : Sum(o) > quantity} :
                 db.C[c]["[CustKey]"] = db.O[o]["[CustKey]"]}
    IN  {<<db.C[j[1]]["[C_Name]"], db.C[j[1]]["[CustKey]"], db.O[j[2]]["[OrderKey]"], db.O[j[2]]["[OrderDate]"],
           db.O[j[2]]["[TotalPrice]"], Sum(j[2])>> : j \in J}

----------------------------------------------------------------------------
(* Q19: discounted revenue of three kinds of parts; kinds is a sequence of *)
(* records, the container of a kind its place less one.                    *)
KindOf(kinds, brand, container, quantity, size) ==
    \E k \in DOMAIN kinds :
        /\ brand = kinds[k].brand /\ container = k - 1 /\ size <= kinds[k].size
        /\ quantity >= kinds[k].quantity /\ quantity <= kinds[k].quantity + 10

Q19(db, kinds) ==
    LET l0 == Project(db.L, {"[ShipMode]", "[ShipInstruct]", "[PartKey]", "ExtendedPrice", "Discount", "Quantity"})
        l == DeleteColumns(Where(Where(l0, "[ShipMode]", "=", 1), "[ShipInstruct]", "=", 0),
                           {"[ShipMode]", "[ShipInstruct]"})
        p0 == Project(db.P, {"[Size]", "[PartKey]", "[Brand]", "[Container]"})
        p == Where(p0, "[Size]", ">=", 1)
        pl == InnerJoin(p, l, <<"[PartKey]">>, <<Copy("[Brand]"), Copy("[Container]"), Copy("[Size]")>>)
        masked == PutEach(pl, "[Container]", LAMBDA r : r["[Container]"] % 4)
        kept == Keep(masked, LAMBDA r : KindOf(kinds, r["[Brand]"], r["[Container]"], r["Quantity"], r["[Size]"]))
    IN  <<<<OnlyValue(SumOfValid(WithRevenue(kept, "Revenue"), "Revenue", "SumRevenue"), "SumRevenue")>>>>

Q19Sql(db, kinds) ==
    LET J == {<<l, p>> \in (Select(db.L, "[ShipMode]", "=", 1) \cap Select(db.L, "[ShipInstruct]", "=", 0))
                               \X Select(db.P, "[Size]", ">=", 1) :
                 /\ db.P[p]["[PartKey]"] = db.L[l]["[PartKey]"]
                 /\ KindOf(kinds, db.P[p]["[Brand]"], db.P[p]["[Container]"] % 4, db.L[l]["Quantity"], db.P[p]["[Size]"])}
    IN  {<<MapThenSumSet(LAMBDA j : Discounted(db.L[j[1]]), J)>>}

----------------------------------------------------------------------------
(* Q20: the suppliers of a nation with stock to spare of a part.           *)
Q20(db, nation, color, date, interval) ==
    LET p0 == Project(db.P, {"[Name]", "[PartKey]"})
        p == Project(Where(p0, "[Name]", "=", color), {"[PartKey]"})
        l0 == Project(db.L, {"[ShipDate]", "[PartKey]", "[SuppKey]", "Quantity"})
        l == DeleteColumns(WhereBetween(l0, "[ShipDate]", date, date + interval), {"[ShipDate]"})
        n0 == Project(db.N, {"[NationKey]", "[Name]"})
        n == Project(Where(n0, "[Name]", "=", nation), {"[NationKey]"})
        psl == InnerJoin(Project(db.PS, {"AvailQty", "[PartKey]", "[SuppKey]"}), l, <<"[PartKey]", "[SuppKey]">>,
                         <<Copy("AvailQty"), <<"Quantity", "Quantity", "sum">>>>)
        spare == DeleteColumns(Keep(psl, LAMBDA r : 2 * r["AvailQty"] > r["Quantity"]),
                               {"AvailQty", "Quantity"})
        sn == DeleteColumns(SemiJoin(Project(db.S, {"[SuppKey]", "[NationKey]", "[Name]", "[Address]"}), n,
                                     <<"[NationKey]">>), {"[NationKey]"})
        t1 == DistinctRows(Project(SemiJoin(spare, p, <<"[PartKey]">>), {"[SuppKey]"}), <<"[SuppKey]">>)
        t2 == DeleteColumns(SemiJoin(sn, t1, <<"[SuppKey]">>), {"[SuppKey]"})
    IN  OpenColumns(Sort(t2, <<"[Name]">>, "ASC"), <<"[Name]", "[Address]">>)

Q20Sql(db, nation, color, date, interval) ==
    LET Lines(ps) == {i \in Between(db.L, "[ShipDate]", date, date + interval) :
                         /\ db.L[i]["[PartKey]"] = db.PS[ps]["[PartKey]"]
                         /\ db.L[i]["[SuppKey]"] = db.PS[ps]["[SuppKey]"]}
        spare == {ps \in Rows(db.PS) :
                     /\ \E p \in Select(db.P, "[Name]", "=", color) : db.P[p]["[PartKey]"] = db.PS[ps]["[PartKey]"]
                     /\ Lines(ps) # {}
                     /\ 2 * db.PS[ps]["AvailQty"] > MapThenSumSet(LAMBDA i : db.L[i]["Quantity"], Lines(ps))}
        J == {s \in Rows(db.S) :
                 /\ \E n \in Select(db.N, "[Name]", "=", nation) : db.S[s]["[NationKey]"] = db.N[n]["[NationKey]"]
                 /\ \E ps \in spare : db.S[s]["[SuppKey]"] = db.PS[ps]["[SuppKey]"]}
    IN  {<<db.S[s]["[Name]"], db.S[s]["[Address]"]>> : s \in J}

----------------------------------------------------------------------------
(* Q21: the suppliers that alone kept an order waiting.  lines keeps, per  *)
(* order, the number of suppliers that were late and the key of the only   *)
(* one, if it is the only one.                                             *)
LateLines(t) ==
    LET l0 == Project(t, {"[SuppKey]", "[OrderKey]", "[ReceiptDate]", "[CommitDate]"})
        l1 == PutEach(l0, "[Late]", LAMBDA r : IF r["[ReceiptDate]"] > r["[CommitDate]"] THEN 1 ELSE 0)
        l2 == AddColumns(Sort(Project(l1, {"[Late]", "[SuppKey]", "[OrderKey]"}),
                              <<V, "[OrderKey]", "[SuppKey]">>, "ASC"), {"[AnyLate]"})
        l3 == AggregatedUnsorted(l2, <<"[OrderKey]", "[SuppKey]">>, <<<<"[Late]", "[AnyLate]", "bit_or">>>>)
        l4 == AddColumns(CopyColumn(l3, "AnyLate", "[AnyLate]"), {"NumLate", "CountSupp"})
        l5 == DeleteColumns(Product(l4, "[SuppKey]", "[SuppKey]", "[AnyLate]"), {"[AnyLate]"})
    IN  Aggregated(l5, <<"[OrderKey]">>, <<<<"AnyLate", "NumLate", "sum">>, <<"CountSupp", "CountSupp", "count">>,
                                           <<"[SuppKey]", "[SuppKey]", "bit_or">>>>)

Q21(db, nation) ==
    LET l0 == Project(db.L, {"[SuppKey]", "[OrderKey]", "[ReceiptDate]", "[CommitDate]"})
        l == Project(Keep(l0, LAMBDA r : r["[ReceiptDate]"] > r["[CommitDate]"]),
                     {"[SuppKey]", "[OrderKey]"})
        o0 == Project(db.O, {"[OrderKey]", "[OrderStatus]"})
        o == Project(Where(o0, "[OrderStatus]", "=", 0), {"[OrderKey]"})
        n0 == Project(db.N, {"[NationKey]", "[Name]"})
        n == Project(Where(n0, "[Name]", "=", nation), {"[NationKey]"})
        ol == InnerJoin(o, l, <<"[OrderKey]">>, <<>>)
        ns == InnerJoin(n, Project(db.S, {"[Name]", "[SuppKey]", "[NationKey]"}), <<"[NationKey]">>, <<>>)
        nsol == DeleteColumns(InnerJoin(ns, ol, <<"[SuppKey]">>, <<Copy("[NationKey]"), Copy("[Name]")>>), {"[NationKey]"})
        late == Aggregated(AddColumns(nsol, {"OrderCount"}), <<"[OrderKey]", "[SuppKey]">>,
                           <<<<"OrderCount", "OrderCount", "count">>>>)
        lines == LateLines(db.L)
        only == Project(Where(Where(lines, "NumLate", "=", 1), "CountSupp", ">", 1),
                        {"[OrderKey]", "[SuppKey]"})
        w == AddColumns(InnerJoin(only, late, <<"[OrderKey]", "[SuppKey]">>, <<>>), {"NumWait"})
        sums == Aggregated(w, <<"[Name]">>, <<<<"OrderCount", "NumWait", "sum">>>>)
        last == RenameColumn(TailRows(Sort(sums, <<V>>, "ASC"), Len(db.S)), "NumWait", "[NumWait]")
    IN  OpenColumns(SortRows(last, <<<<"[NumWait]", "DESC">>, <<"[Name]", "ASC">>>>), <<"[Name]", "[NumWait]">>)

Q21Sql(db, nation) ==
    LET late == {i \in Rows(db.L) : db.L[i]["[ReceiptDate]"] > db.L[i]["[CommitDate]"]}
        Others(i) == {k \in Rows(db.L) : /\ db.L[k]["[OrderKey]"] = db.L[i]["[OrderKey]"]
                                         /\ db.L[k]["[SuppKey]"] # db.L[i]["[SuppKey]"]}
        J == {<<s, l, o, n>> \in Rows(db.S) \X late \X Select(db.O, "[OrderStatus]", "=", 0)
                                    \X Select(db.N, "[Name]", "=", nation) :
                 /\ db.S[s]["[SuppKey]"] = db.L[l]["[SuppKey]"] /\ db.O[o]["[OrderKey]"] = db.L[l]["[OrderKey]"]
                 /\ Others(l) # {} /\ Others(l) \cap late = {} /\ db.S[s]["[NationKey]"] = db.N[n]["[NationKey]"]}
        Name(j) == db.S[j[1]]["[Name]"]
    IN  {<<x, Cardinality({j \in J : Name(j) = x})>> : x \in {Name(j) : j \in J}}

----------------------------------------------------------------------------
(* Q22: global sales opportunity.  The average balance is the quotient of  *)
(* two running values in the last row, which is valid if any row is.       *)
Q22(db, codes) ==
    LET c0 == Project(db.C, {"[CustKey]", "[CntryCode]", "[AcctBal]", "AcctBal"})
        c1 == Keep(c0, LAMBDA r : r["[CntryCode]"] \in codes /\ r["[AcctBal]"] > 0)
        c2 == AggregateTable(AddColumns(c1, {"TotalAcctBal", "CountAcctBal"}), <<>>,
                  <<<<"AcctBal", "TotalAcctBal", "sum">>, <<"AcctBal", "CountAcctBal", "count">>>>,
                  [AggregationOptions EXCEPT !.mark_valid = FALSE])
        c3 == AggregateTable(c2, <<V>>, <<Copy("TotalAcctBal"), Copy("CountAcctBal")>>,
                  [AggregationOptions EXCEPT !.reverse = TRUE, !.do_sort = FALSE, !.mark_valid = FALSE])
        last == c3[Len(c3)]
        average == Divide(last["TotalAcctBal"], last["CountAcctBal"])
        c == Project(Where(c3, "[AcctBal]", ">", average), {"[CustKey]", "[CntryCode]", "AcctBal"})
        aj == AddColumns(AntiJoin(c, Project(db.O, {"[CustKey]"}), <<"[CustKey]">>), {"NumCust", "TotAcctBal"})
        sums == Aggregated(aj, <<"[CntryCode]">>, <<<<"AcctBal", "NumCust", "count">>, <<"AcctBal", "TotAcctBal", "sum">>>>)
    IN  OpenColumns(sums, <<"[CntryCode]", "NumCust", "TotAcctBal">>)

Q22Sql(db, codes) ==
    LET local == {i \in Rows(db.C) : db.C[i]["[CntryCode]"] \in codes}
        Sum(rows) == MapThenSumSet(LAMBDA i : db.C[i]["AcctBal"], rows)
        positive == local \cap Select(db.C, "AcctBal", ">", 0)
        J == {i \in local : /\ db.C[i]["AcctBal"] * Cardinality(positive) > Sum(positive)
                            /\ \A o \in Rows(db.O) : db.O[o]["[CustKey]"] # db.C[i]["[CustKey]"]}
        Of(code) == {i \in J : db.C[i]["[CntryCode]"] = code}
    IN  {<<code, Cardinality(Of(code)), Sum(Of(code))>> : code \in {db.C[i]["[CntryCode]"] : i \in J}}
=============================================================================
