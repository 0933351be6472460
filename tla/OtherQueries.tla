---------------------------- MODULE OtherQueries ----------------------------
(***************************************************************************)
(* The benchmark queries of earlier systems (medical records, passwords,   *)
(* credit scores, taxi fares), with the tables they generate, each beside  *)
(* the SQL whose rows it is checked against; see TpchQueries.  After them  *)
(* TPC-H queries as SecretFlow runs them: the parties own the tables,      *)
(* compute what they can in their own databases, and share only what is    *)
(* left.                                                                   *)
(***************************************************************************)
EXTENDS TpchQueries2

LOCAL INSTANCE FiniteSetsExt
LOCAL INSTANCE SequencesExt

IntSqrt(n) == CHOOSE k \in 0 .. n : k * k <= n /\ n < (k + 1) * (k + 1)

SecrecyRTable(n, draws) ==
    SecretShare(<<"[id]", "[ak]">>,
        <<RandomColumn(draws, "[id]", n, 0, IntSqrt(n)), RandomColumn(draws, "[ak]", n, 0, IntSqrt(n))>>)

(* As many rows, and from the same range, as table R.                      *)
SecrecySTable(n, draws) ==
    SecretShare(<<"[id]">>, <<RandomColumn(draws, "[id]", n, 0, IntSqrt(n))>>)

MaxTime == 10000
DiagnosisTable(n, draws) ==
    SecretShare(<<"[pid]", "[time]", "[diagnosis]">>,
        <<RandomColumn(draws, "[pid]", n, 0, n \div 2), RandomColumn(draws, "[time]", n, 0, MaxTime),
          RandomColumn(draws, "[diagnosis]", n, 0, 10)>>)
MedicationTable(n, draws) ==
    SecretShare(<<"[pid]", "[time]", "[med]">>,
        <<RandomColumn(draws, "[pid]", n, 0, n \div 2), RandomColumn(draws, "[time]", n, 0, MaxTime),
          RandomColumn(draws, "[med]", n, 0, 10)>>)

PasswordTable(n, draws) ==
    SecretShare(<<"[ID]", "[Password]">>,
        <<RandomColumn(draws, "[ID]", n, 0, n \div 10), RandomColumn(draws, "[Password]", n, 0, n \div 50)>>)

(* The square of the draw: some companies are much larger than others.     *)
TaxiTable(n, companies, draws) ==
    LET company == RandomColumn(draws, "[Company]", n, 0, companies)
    IN  SecretShare(<<"[Company]", "Fare", "[Type]">>,
            <<[i \in 1 .. n |-> (company[i] * company[i]) % companies],
              RandomColumn(draws, "Fare", n, 0, 100), RandomColumn(draws, "[Type]", n, 0, 20)>>)

SecrecyT1Table(n, draws) ==
    SecretShare(<<"[person]", "coinsurance", "[state]">>,
        <<RandomColumn(draws, "[person]", n, 0, IntSqrt(n)), RandomColumn(draws, "coinsurance", n, 0, 100),
          RandomColumn(draws, "[state]", n, 0, 50)>>)
SecrecyT2Table(n, draws) ==
    SecretShare(<<"[person]", "[disease]", "cost">>,
        <<RandomColumn(draws, "[person]", n, 0, IntSqrt(n)), RandomColumn(draws, "[disease]", n, 0, 100),
          RandomColumn(draws, "cost", n, 0, 10000)>>)
SecrecyT3Table(n, draws) ==
    SecretShare(<<"[disease]", "[class_]">>,
        <<RandomColumn(draws, "[disease]", n, 0, 100), RandomColumn(draws, "[class_]", n, 0, 16)>>)

CreditScoreTable(n, draws) ==
    SecretShare(<<"[UID]", "[AGENCY]", "[YEAR]", "[CS]">>,
        <<RandomColumn(draws, "[UID]", n, 0, (2 * n) \div 10), RandomColumn(draws, "[AGENCY]", n, 0, 10),
          RandomColumn(draws, "[YEAR]", n, 2020, 2020 + 10), RandomColumn(draws, "[CS]", n, 300, 850)>>)

(* Half of the diagnoses are of patients outside the cohort.               *)
CohortTable(n) == SecretShare(<<"[pid]">>, <<CounterColumn(n)>>)
CohortDiagnosisTable(n, cohort, draws) ==
    SecretShare(<<"[pid]", "[diag]">>,
        <<RandomColumn(draws, "[pid]", n, 0, cohort * 2), RandomColumn(draws, "[diag]", n, 0, 1000)>>)

DemographicTable(n, draws) == SecretShare(<<"[pid]">>, <<RandomColumn(draws, "[pid]", n, 0, n)>>)
CodeDiagnosisTable(n, draws) ==
    SecretShare(<<"[code]", "[diag]">>,
        <<RandomColumn(draws, "[code]", n, 0, 500), RandomColumn(draws, "[diag]", n, 0, 500)>>)
CodeMedicationTable(n, draws) ==
    SecretShare(<<"[pid]", "[code]", "[med]">>,
        <<RandomColumn(draws, "[pid]", n, 0, n), RandomColumn(draws, "[code]", n, 0, 500),
          RandomColumn(draws, "[med]", n, 0, 50)>>)

----------------------------------------------------------------------------
(* Aspirin: the patients diagnosed before some prescription.               *)
Aspirin(D, M, diag, med) ==
    LET d == RenameColumn(DeleteColumns(Where(D, "[diagnosis]", "=", diag), {"[diagnosis]"}),
                          "[time]", "[d.time]")
        m == RenameColumn(DeleteColumns(Where(M, "[med]", "=", med), {"[med]"}),
                          "[time]", "[m.time]")
        first == Aggregated(d, <<"[pid]">>, <<<<"[d.time]", "[d.time]", "min">>>>)
        last == Aggregated(m, <<"[pid]">>, <<<<"[m.time]", "[m.time]", "max">>>>)
        t == InnerJoin(first, last, <<"[pid]">>, <<Copy("[d.time]")>>)
        kept == Project(Keep(t, LAMBDA r : r["[d.time]"] <= r["[m.time]"]), {"[pid]"})
    IN  <<<<LastSum(CopyColumn(kept, "Count", V), "Count")>>>>

AspirinSql(D, M, diag, med) ==
    LET J == {<<d, m>> \in Rows(D) \X Rows(M) :
                 /\ D[d]["[pid]"] = M[m]["[pid]"] /\ D[d]["[time]"] <= M[m]["[time]"]
                 /\ D[d]["[diagnosis]"] = diag /\ M[m]["[med]"] = med}
    IN  {<<Cardinality({D[j[1]]["[pid]"] : j \in J})>>}

----------------------------------------------------------------------------
(* Comorbidity: the most frequent diagnoses of a cohort.                   *)
Comorbidity(cohort, D, limit) ==
    LET f == AddColumns(SemiJoin(D, cohort, <<"[pid]">>), {"DiagCount"})
        counts == Aggregated(f, <<"[diag]">>, <<<<"DiagCount", "DiagCount", "count">>>>)
        c == CopyColumn(counts, "[DiagCount]", "DiagCount")
        s == Sort(Sort(c, <<V, "[DiagCount]">>, "DESC"), <<V, "[DiagCount]", "[diag]">>, "DESC")
    IN  OpenColumns(HeadRows(s, limit), <<"[diag]", "[DiagCount]">>)

ComorbiditySql(cohort, D, limit) ==
    LET rows == {i \in Rows(D) : \E c \in Rows(cohort) : cohort[c]["[pid]"] = D[i]["[pid]"]}
        Frequency(d) == Cardinality({i \in rows : D[i]["[diag]"] = d})
        all == {<<d, Frequency(d)>> : d \in {D[i]["[diag]"] : i \in rows}}
    IN  {g \in all : Cardinality({h \in all : h[2] > g[2] \/ (h[2] = g[2] /\ h[1] > g[1])}) < limit}

----------------------------------------------------------------------------
(* Credit score: the users whose scores of a year differ by too much.      *)
CreditScore(R, year, threshold) ==
    LET r == AddColumns(Where(R, "[YEAR]", "=", year), {"[CS_MIN]", "[CS_MAX]"})
        a == Aggregated(r, <<"[UID]">>, <<<<"[CS]", "[CS_MIN]", "min">>, <<"[CS]", "[CS_MAX]", "max">>>>)
        far == Keep(a, LAMBDA row : row["[CS_MAX]"] - row["[CS_MIN]"] > threshold)
    IN  OpenColumns(Project(far, {"[UID]"}), <<"[UID]">>)

CreditScoreSql(R, year, threshold) ==
    LET rows == Select(R, "[YEAR]", "=", year)
    IN  {<<R[i]["[UID]"]>> : i \in {i \in rows : \E j, k \in rows :
            /\ R[j]["[UID]"] = R[i]["[UID]"] /\ R[k]["[UID]"] = R[i]["[UID]"]
            /\ R[k]["[CS]"] - R[j]["[CS]"] > threshold}}

----------------------------------------------------------------------------
(* Custom aggregation: the insured cost per class of diseases, the sums    *)
(* pushed below the joins so that every join has one side without doubles. *)
CustomAgg(t1, t2, t3) ==
    LET p == Project(t1, {"[person]", "coinsurance"})
        share == Project(PutEach(p, "percentage", LAMBDA r : 100 - r["coinsurance"]),
                         {"[person]", "percentage"})
        perPerson == Aggregated(share, <<"[person]">>, <<<<"percentage", "percentage", "sum">>>>)
        t12 == InnerJoin(perPerson, t2, <<"[person]">>, <<Copy("percentage")>>)
        cost == Project(Product(t12, "insCost", "percentage", "cost"), {"[disease]", "insCost"})
        perDisease == Aggregated(cost, <<"[disease]">>, <<<<"insCost", "insCost", "sum">>>>)
        t123 == Project(InnerJoin(perDisease, t3, <<"[disease]">>, <<Copy("insCost")>>),
                        {"[class_]", "insCost"})
        perClass == Aggregated(t123, <<"[class_]">>, <<<<"insCost", "insCost", "sum">>>>)
    IN  OpenColumns(PutEach(perClass, "insCost", LAMBDA r : r["insCost"] \div 100),
                    <<"[class_]", "insCost">>)

CustomAggSql(t1, t2, t3) ==
    LET J == {<<i, j, k>> \in Rows(t1) \X Rows(t2) \X Rows(t3) :
                 t1[i]["[person]"] = t2[j]["[person]"] /\ t2[j]["[disease]"] = t3[k]["[disease]"]}
        OfClass(c) == {x \in J : t3[x[3]]["[class_]"] = c}
        Cost(x) == t2[x[2]]["cost"] * (100 - t1[x[1]]["coinsurance"])
    IN  {<<c, MapThenSumSet(Cost, OfClass(c)) \div 100>> : c \in {t3[x[3]]["[class_]"] : x \in J}}

----------------------------------------------------------------------------
(* Distinct patients: those of a diagnosis and a medicine.                 *)
Patients(demographic, D, M, diag, med) ==
    LET d == Project(Where(D, "[diag]", "=", diag), {"[code]"})
        m == Project(Where(M, "[med]", "=", med), {"[code]", "[pid]"})
        md == Project(InnerJoin(d, m, <<"[code]">>, <<>>), {"[pid]"})
    IN  InnerJoin(md, demographic, <<"[pid]">>, <<>>)
DistinctPatients(demographic, D, M, diag, med) ==
    OpenColumns(DistinctRows(Patients(demographic, D, M, diag, med), <<"[pid]">>), <<"[pid]">>)

DistinctPatientsSql(demographic, D, M, diag, med) ==
    {<<demographic[x]["[pid]"]>> : x \in {x \in Rows(demographic) : \E i \in Rows(D), j \in Rows(M) :
        /\ D[i]["[diag]"] = diag /\ M[j]["[med]"] = med
        /\ D[i]["[code]"] = M[j]["[code]"] /\ demographic[x]["[pid]"] = M[j]["[pid]"]}}

----------------------------------------------------------------------------
(* Market share: the concentration index of the companies' revenues.       *)
MarketShare(T, airport) ==
    LET t == AddColumns(DeleteColumns(Where(T, "[Type]", "=", airport), {"[Type]"}),
                        {"CompanyRevenue"})
        c == DeleteColumns(Aggregated(t, <<"[Company]">>, <<<<"Fare", "CompanyRevenue", "sum">>>>),
                           {"[Company]", "Fare"})
        v == CopyColumn(c, "Valid", V)
        total == PrefixSum(Product(v, "TotalRevenue", "Valid", "CompanyRevenue"), "TotalRevenue")
        squares == PrefixSum(PutEach(total, "SumSq",
                       LAMBDA r : r["Valid"] * r["CompanyRevenue"] * r["CompanyRevenue"]), "SumSq")
        Index(row) == Divide(row["SumSq"] * 10000, row["TotalRevenue"] * row["TotalRevenue"])
    IN  <<<<Index(TailRows(squares, 1)[1])>>>>

MarketShareSql(T, airport) ==
    LET rows == Select(T, "[Type]", "=", airport)
        Revenue(c) == MapThenSumSet(LAMBDA i : T[i]["Fare"], {i \in rows : T[i]["[Company]"] = c})
        companies == {T[i]["[Company]"] : i \in rows}
        total == MapThenSumSet(Revenue, companies)
    IN  {<<MapThenSumSet(LAMBDA c : 10000 * Revenue(c) * Revenue(c), companies) \div (total * total)>>}

----------------------------------------------------------------------------
(* Password reuse: users with one password on several sites, one row per   *)
(* such password; the SQL rows carry it, the query selects the user.       *)
PwdReuse(R) ==
    LET a == Aggregated(AddColumns(R, {"Count"}), <<"[ID]", "[Password]">>, <<<<"Count", "Count", "count">>>>)
        c == CopyColumn(a, "[Count]", "Count")
    IN  OpenColumns(Project(Where(c, "[Count]", ">", 1), {"[ID]"}), <<"[ID]">>)

PwdReuseSql(R) ==
    {<<R[i]["[ID]"], R[i]["[Password]"]>> : i \in {i \in Rows(R) : \E j \in Rows(R) \ {i} :
        R[j]["[ID]"] = R[i]["[ID]"] /\ R[j]["[Password]"] = R[i]["[Password]"]}}

----------------------------------------------------------------------------
(* Recurrence: patients diagnosed again within a range of days; every row  *)
(* is compared with the one below it, the last with zeros.                 *)
DiagnosedAgain(D, diag, min, max) ==
    LET s == Sort(DeleteColumns(Where(D, "[diagnosis]", "=", diag), {"[diagnosis]"}),
                  <<V, "[pid]", "[time]">>, "ASC")
        Next(c, i) == IF i < Len(s) THEN s[i + 1][c] ELSE 0
        again == Filter(s, {i \in DOMAIN s : /\ Next("[time]", i) - s[i]["[time]"] \in min .. max
                                             /\ Next("[pid]", i) = s[i]["[pid]"]})
    IN  DeleteColumns(again, {"[time]"})
RcDiff(D, diag, min, max) ==
    OpenColumns(DistinctRows(DiagnosedAgain(D, diag, min, max), <<"[pid]">>), <<"[pid]">>)

RcDiffSql(D, diag, min, max) ==
    LET rows == Select(D, "[diagnosis]", "=", diag)
        Before(i, j) ==
            \/ D[i]["[pid]"] < D[j]["[pid]"]
            \/ D[i]["[pid]"] = D[j]["[pid]"] /\ D[i]["[time]"] < D[j]["[time]"]
            \/ D[i]["[pid]"] = D[j]["[pid]"] /\ D[i]["[time]"] = D[j]["[time]"] /\ i < j
        Consecutive(i, j) == Before(i, j) /\ ~\E k \in rows : Before(i, k) /\ Before(k, j)
    IN  {<<D[i]["[pid]"]>> : i \in {i \in rows : \E j \in rows :
            /\ Consecutive(i, j) /\ D[i]["[pid]"] = D[j]["[pid]"]
            /\ D[j]["[time]"] - D[i]["[time]"] \in min .. max}}

----------------------------------------------------------------------------
(* The second query of Secrecy: counts per group over a join.              *)
SecrecyQ2(R, S) ==
    LET counts == Aggregated(AddColumns(S, {"CNT"}), <<"[id]">>, <<<<"CNT", "CNT", "count">>>>)
        rj == Project(InnerJoin(counts, R, <<"[id]">>, <<Copy("CNT")>>), {"[ak]", "CNT"})
    IN  OpenColumns(Aggregated(rj, <<"[ak]">>, <<<<"CNT", "CNT", "sum">>>>), <<"[ak]", "CNT">>)

SecrecyQ2Sql(R, S) ==
    LET J == {<<r, s>> \in Rows(R) \X Rows(S) : R[r]["[id]"] = S[s]["[id]"]}
    IN  {<<a, Cardinality({j \in J : R[j[1]]["[ak]"] = a})>> : a \in {R[j[1]]["[ak]"] : j \in J}}

-----------------------------------------------------------------------------
(* Queries over tables that their owners prepare: L, O and P are tables of *)
(* one party; L0 and L1 are the LINEITEM tables of parties 0 and 1.        *)

LineitemTableSF(n, draws) ==
    LET key == CounterColumn(n)
        quantity == RandomColumn(draws, "Quantity", n, 1, 51)
        discount == RandomColumn(draws, "Discount", n, 4, 6)
        shipDate == RandomColumn(draws, "[ShipDate]", n, 0, 365)
        flag == RandomColumn(draws, "[ReturnFlag]", n, 1, 3)
        Retail(k) == 90000 + ((k \div 10) % 20001) + (100 * (k % 1000))
    IN  SecretShare(
            <<"[OrderKey]", "[ReturnFlag]", "[LineStatus]", "Quantity", "[Quantity]", "ExtendedPrice",
              "Discount", "[Discount]", "Tax", "[ShipDate]", "[CommitDate]", "[ReceiptDate]",
              "[ShipMode]", "[PartKey]">>,
            <<key, [i \in 1 .. n |-> IF shipDate[i] + 2 > 168 THEN 0 ELSE flag[i]],
              [i \in 1 .. n |-> IF shipDate[i] > 168 THEN 0 ELSE 1], quantity, quantity,
              [i \in 1 .. n |-> Retail(key[i]) * quantity[i]], discount, discount,
              RandomColumn(draws, "Tax", n, 0, 8), shipDate, [i \in 1 .. n |-> shipDate[i] + 1],
              [i \in 1 .. n |-> shipDate[i] + 2], RandomColumn(draws, "[ShipMode]", n, 0, 3), key>>)

OrdersTableSF(n, draws) ==
    SecretShare(<<"[OrderKey]", "[OrderPriority]">>,
        <<CounterColumn(n), RandomColumn(draws, "[OrderPriority]", n, 1, 5)>>)

(* The rows of PART in the database: the insertion binds the type where    *)
(* the key belongs, and leaves the type unset, here 0.                     *)
Null == 0
PartRowsSF(n, draws) ==
    LET type == RandomColumn(draws, "[Type]", n, 1, 7)
    IN  [i \in 1 .. n |-> [PartKey |-> type[i], Type |-> Null]]

----------------------------------------------------------------------------
(* What a party groups in its own database, as Q1 wants it.                *)
Charged(row) == (Discounted(row) * (100 + row["Tax"])) \div 100
Group1(L, date, g) ==
    {i \in Select(L, "[ShipDate]", "<=", date) : <<L[i]["[ReturnFlag]"], L[i]["[LineStatus]"]>> = g}
Groups1(L, date) ==
    {<<L[i]["[ReturnFlag]"], L[i]["[LineStatus]"]>> : i \in Select(L, "[ShipDate]", "<=", date)}
Sums1(L, rows) ==
    LET Sum(c) == MapThenSumSet(LAMBDA i : L[i][c], rows)
    IN  [quantity |-> Sum("Quantity"), price |-> Sum("ExtendedPrice"), discount |-> Sum("Discount"),
         discPrice |-> MapThenSumSet(LAMBDA i : Discounted(L[i]), rows),
         charge |-> MapThenSumSet(LAMBDA i : Charged(L[i]), rows), count |-> Cardinality(rows)]

NoSums == [quantity |-> 0, price |-> 0, discount |-> 0, discPrice |-> 0, charge |-> 0, count |-> 0]
Added(x, y) == [f \in DOMAIN x |-> x[f] + y[f]]
LexLess(g, h) == g[1] < h[1] \/ (g[1] = h[1] /\ g[2] < h[2])

(* Q1: six rows per party, the groups of each in order from the first row  *)
(* on, added row by row; the averages are divided in the clear, by -1 in   *)
(* rows that count nothing.                                                *)
SfQ1Rows == 6
ClearRatio(a, count) == IF count > 0 THEN a \div count ELSE -a
SfQ1(L0, L1, date) ==
    LET Local(L) ==
            LET gs == SetToSortSeq(Groups1(L, date), LexLess)
            IN  [i \in 1 .. SfQ1Rows |->
                    IF i <= Len(gs) THEN [group |-> gs[i], sums |-> Sums1(L, Group1(L, date, gs[i]))]
                    ELSE [group |-> <<0, 0>>, sums |-> NoSums]]
        main == Local(L0)
        other == Local(L1)
    IN  [i \in 1 .. SfQ1Rows |->
            LET s == Added(main[i].sums, other[i].sums)
                count == IF s.count = 0 THEN -1 ELSE s.count
            IN  <<main[i].group[1], main[i].group[2], count, s.charge, ClearRatio(s.discount, count),
                  ClearRatio(s.price, count), ClearRatio(s.quantity, count)>>]

(* The groups of both tables, and rows of zeros up to the six.             *)
SfQ1Sql(L0, L1, date) ==
    LET groups == Groups1(L0, date) \cup Groups1(L1, date)
        Row(g) ==
            LET s == Added(Sums1(L0, Group1(L0, date, g)), Sums1(L1, Group1(L1, date, g)))
            IN  <<g[1], g[2], s.count, s.charge, s.discount \div s.count, s.price \div s.count,
                  s.quantity \div s.count>>
    IN  {Row(g) : g \in groups}
            \cup {<<0, 0, -1, 0, 0, 0, 0, k>> : k \in Cardinality(groups) + 1 .. SfQ1Rows}

(* Q6: two local sums; party 1 sends its own, party 0 adds.                *)
LocalQ6(L, date, interval, discount, quantity) ==
    MapThenSumSet(LAMBDA i : L[i]["ExtendedPrice"] * L[i]["Discount"],
        Between(L, "[ShipDate]", date, date + interval) \cap Select(L, "Discount", ">=", discount - 1)
            \cap Select(L, "Discount", "<=", discount + 1) \cap Select(L, "Quantity", "<", quantity))
SfQ6(pid, L0, L1, date, interval, discount, quantity) ==
    LET Local(L) == LocalQ6(L, date, interval, discount, quantity)
        otherResult == IF pid = 1 THEN 0 ELSE Local(L1)
    IN  <<<<Local(IF pid = 1 THEN L1 ELSE L0) + otherResult>>>>

SfQ6Sql(L0, L1, date, interval, discount, quantity) ==
    LET all == L0 \o L1
    IN  {<<MapThenSumSet(LAMBDA i : all[i]["ExtendedPrice"] * all[i]["Discount"],
             {i \in DOMAIN all : /\ all[i]["[ShipDate]"] >= date /\ all[i]["[ShipDate]"] < date + interval
                                 /\ all[i]["Discount"] \in discount - 1 .. discount + 1
                                 /\ all[i]["Quantity"] < quantity})>>}

----------------------------------------------------------------------------
(* Q1 split by columns: party 0 has all but the line status.               *)
SfQ1Mod(L, date) ==
    LET bob == Project(L, {"[OrderKey]", "[LineStatus]"})
        kept == SelectSeq(Whole(Len(L)), LAMBDA i : L[i]["[ShipDate]"] <= date)
        alice == SecretShare(
                     <<"[ReturnFlag]", "[OrderKey]", "Quantity", "ExtendedPrice", "Discount", "DiscPrice", "Charge">>,
                     <<[j \in DOMAIN kept |-> L[kept[j]]["[ReturnFlag]"]],
                       [j \in DOMAIN kept |-> L[kept[j]]["[OrderKey]"]],
                       [j \in DOMAIN kept |-> L[kept[j]]["Quantity"]],
                       [j \in DOMAIN kept |-> L[kept[j]]["ExtendedPrice"]],
                       [j \in DOMAIN kept |-> L[kept[j]]["Discount"]],
                       [j \in DOMAIN kept |-> Discounted(L[kept[j]])],
                       [j \in DOMAIN kept |-> Charged(L[kept[j]])]>>)
        joined == UniqueJoin(bob, alice, <<"[OrderKey]">>, {"[LineStatus]"}, FALSE, TRUE)
        keyed == Sort(PutEach(joined, "[Key]", LAMBDA r : BitOr(r["[ReturnFlag]"] * 2, r["[LineStatus]"])),
                      <<"[Key]">>, "ASC")
        c == CopyColumn(AddColumns(keyed, {"SumDiscPrice", "SumCharge", "SumQuantity", "SumPrice", "SumDisc", "Count"}),
                        "VA", V)
        Times(t, col) == Product(t, col, col, "VA")
        masked == Times(Times(Times(Times(Times(c, "Quantity"), "ExtendedPrice"), "Discount"), "DiscPrice"),
                        "Charge")
        sums == AggregateTable(masked, <<"[Key]">>,
                    <<<<"Quantity", "SumQuantity", "sum">>, <<"ExtendedPrice", "SumPrice", "sum">>,
                      <<"Discount", "SumDisc", "sum">>, <<"VA", "Count", "sum">>,
                      <<"DiscPrice", "SumDiscPrice", "sum">>, <<"Charge", "SumCharge", "sum">>>>,
                    [AggregationOptions EXCEPT !.reverse = TRUE, !.do_sort = FALSE])
        out == Open(Mask(DeleteColumns(sums, {"Quantity", "Discount", "ExtendedPrice", "Charge", "DiscPrice", "VA"})))
    IN  [i \in DOMAIN out |->
            <<out[i]["[ReturnFlag]"], out[i]["[LineStatus]"], out[i]["Count"], out[i]["SumQuantity"],
              out[i]["SumPrice"], out[i]["SumDiscPrice"], out[i]["SumCharge"],
              out[i]["SumDisc"] \div out[i]["Count"], out[i]["SumPrice"] \div out[i]["Count"],
              out[i]["SumQuantity"] \div out[i]["Count"]>>]

SfQ1ModSql(L, date) ==
    {LET s == Sums1(L, Group1(L, date, g))
     IN  <<g[1], g[2], s.count, s.quantity, s.price, s.discPrice, s.charge, s.discount \div s.count,
           s.price \div s.count, s.quantity \div s.count>> : g \in Groups1(L, date)}

(* The same with the date compared on shares.  The rows are sorted with    *)
(* the invalid ones first, but the validity is no key of the aggregation.  *)
SfQ1ModJoined(L, date) ==
    LET alice == Project(L, {"[ShipDate]", "[OrderKey]", "[ReturnFlag]", "ExtendedPrice", "Discount", "Tax", "Quantity"})
        kept == Where(alice, "[ShipDate]", "<=", date)
    IN  UniqueJoin(Project(L, {"[OrderKey]", "[LineStatus]"}), kept, <<"[OrderKey]">>, {"[LineStatus]"}, FALSE, TRUE)

SfQ1ModObliv(L, date) ==
    LET l1 == AddColumns(Sort(SfQ1ModJoined(L, date), <<V, "[ReturnFlag]", "[LineStatus]">>, "ASC"),
                  {"SumDiscPrice", "SumCharge", "CountOrder", "SumQuantity", "SumPrice", "SumDisc",
                   "CountQuantity", "CountPrice", "CountDisc"})
        l2 == PutEach(l1, "DiscPrice", Discounted)
        l3 == PutEach(l2, "Charge", LAMBDA r : (r["DiscPrice"] * (r["Tax"] + 100)) \div 100)
        sums == AggregateTable(l3, <<"[ReturnFlag]", "[LineStatus]">>,
                    <<<<"Quantity", "SumQuantity", "sum">>, <<"Quantity", "CountQuantity", "count">>,
                      <<"ExtendedPrice", "SumPrice", "sum">>, <<"ExtendedPrice", "CountPrice", "count">>,
                      <<"Discount", "SumDisc", "sum">>, <<"Discount", "CountDisc", "count">>,
                      <<"DiscPrice", "SumDiscPrice", "sum">>, <<"Charge", "SumCharge", "sum">>,
                      <<"CountOrder", "CountOrder", "count">>>>,
                    [AggregationOptions EXCEPT !.reverse = TRUE, !.do_sort = FALSE])
        last == TailRows(Sort(DeleteColumns(sums, {"Quantity", "Discount", "ExtendedPrice", "Charge", "DiscPrice"}),
                              <<V>>, "ASC"), 6)
        avgs == Ratio(Ratio(Ratio(last, "[AvgQuantity]", "SumQuantity", "CountQuantity"),
                            "[AvgPrice]", "SumPrice", "CountPrice"), "[AvgDisc]", "SumDisc", "CountDisc")
    IN  OpenColumns(avgs, <<"[ReturnFlag]", "[LineStatus]", "CountOrder", "SumQuantity", "SumPrice", "SumDiscPrice",
                            "SumCharge", "[AvgDisc]", "[AvgPrice]", "[AvgQuantity]">>)

----------------------------------------------------------------------------
(* Padding of a local table to a power of two with keys above all others.  *)
MaxKey == 2147483647
PadLocal(rows, pad, merge) ==
    IF merge /\ Len(rows) > 0
    THEN rows \o [i \in 1 .. NextPowerOfTwo(Len(rows)) - Len(rows) |-> pad] ELSE rows
ShareRows(schema, rows) ==
    SecretShare(schema, [k \in DOMAIN schema |-> [i \in DOMAIN rows |-> rows[i][k]]])

(* Q12: party 0 has the lines, party 1 the orders; the joined rows are     *)
(* shuffled by order, their ship modes opened, and the counts summed mode  *)
(* by mode.  The code keeps them in vectors with one element less than     *)
(* there are modes: the last one is written behind their end.              *)
MaxShipMode == 2
LinesInYear(L, date, modes) ==
    {i \in Between(L, "[ReceiptDate]", date, date + 365) :
        /\ L[i]["[ShipMode]"] \in modes
        /\ L[i]["[CommitDate]"] < L[i]["[ReceiptDate]"] /\ L[i]["[ShipDate]"] < L[i]["[CommitDate]"]}
High(row) == IF row["[OrderPriority]"] \in {1, 2} THEN 1 ELSE 0

SfQ12(L, O, date, merge, order) ==
    LET lines == SetToSortSeq(LinesInYear(L, date, 0 .. MaxShipMode),
                              LAMBDA i, j : L[i]["[OrderKey]"] < L[j]["[OrderKey]"])
        local1 == [j \in DOMAIN lines |-> <<L[lines[j]]["[OrderKey]"], L[lines[j]]["[ShipMode]"]>>]
        local2 == [i \in DOMAIN O |-> <<O[i]["[OrderKey]"], High(O[i]), 1 - High(O[i])>>]
        l2 == ShareRows(<<"[OrderKey]", "[ShipMode]">>, PadLocal(local1, <<MaxKey, 0>>, merge))
        o2 == ShareRows(<<"[OrderKey]", "HighLineCount", "LowLineCount">>, PadLocal(local2, <<MaxKey, 0, 0>>, merge))
        tj == DeleteColumns(UniqueJoin(o2, l2, <<"[OrderKey]">>, {"HighLineCount", "LowLineCount"}, merge, FALSE),
                            {"[OrderKey]"})
        counted == Product(Product(tj, "HighLineCount", V, "HighLineCount"), "LowLineCount", V, "LowLineCount")
        shuffled == Read(counted, order)
        openShipMode == Col(shuffled, "[ShipMode]")
        Total(c, s) == LastSum(Put(shuffled, c, [i \in DOMAIN shuffled |->
                                   IF openShipMode[i] = s THEN shuffled[i][c] ELSE 0]), c)
    IN  [s \in 1 .. MaxShipMode |-> <<s - 1, Total("HighLineCount", s - 1), Total("LowLineCount", s - 1)>>]

SfQ12Merge(L, O, date, order) == SfQ12(L, O, date, TRUE, order)

SfQ12Sql(L, O, date) ==
    LET J(s) == {<<o, l>> \in Rows(O) \X LinesInYear(L, date, {s}) : O[o]["[OrderKey]"] = L[l]["[OrderKey]"]}
        Highs(s) == MapThenSumSet(LAMBDA j : High(O[j[1]]), J(s))
    IN  {<<s, Highs(s), Cardinality(J(s)) - Highs(s)>> : s \in 0 .. MaxShipMode - 1}

----------------------------------------------------------------------------
(* Q14: party 0 has the lines, party 1 the parts.  The revenue is added up *)
(* per part in a hash map, whose order keys is.                            *)
PartKeysInRange(L, date, interval) ==
    {L[i]["[PartKey]"] : i \in Between(L, "[ShipDate]", date, date + interval)}
PartRevenue(L, date, interval, k) ==
    MapThenSumSet(LAMBDA i : Discounted(L[i]),
        {i \in Between(L, "[ShipDate]", date, date + interval) : L[i]["[PartKey]"] = k})

(* part is the table PART of the database of party 1; with merge its rows  *)
(* are selected in the order of their keys.                                *)
SfQ14(L, part, date, interval, merge, keys) ==
    LET local1 == [j \in DOMAIN keys |->
                      LET r == PartRevenue(L, date, interval, keys[j]) IN <<keys[j], 100 * r, r>>]
        inOrder == IF merge THEN SortSeq(part, LAMBDA p, q : p.PartKey < q.PartKey) ELSE part
        local2 == [i \in DOMAIN inOrder |-> <<inOrder[i].PartKey, IF inOrder[i].Type = 1 THEN 1 ELSE 0>>]
        lineitem2 == ShareRows(<<"[PartKey]", "KeyedPromoRevenue", "PromoRevenue">>,
                               PadLocal(local1, <<MaxKey, 0, 0>>, merge))
        part2 == ShareRows(<<"[PartKey]", "HasPromo">>, PadLocal(local2, <<MaxKey, 0>>, merge))
        join == UniqueJoin(part2, lineitem2, <<"[PartKey]">>, {"HasPromo"}, merge, FALSE)
        pr == Product(join, "PromoRevenue", "PromoRevenue", V)
        kp == PutEach(pr, "KeyedPromoRevenue", LAMBDA r : r["KeyedPromoRevenue"] * r["HasPromo"] * r[V])
    IN  <<<<Divide(LastSum(kp, "KeyedPromoRevenue"), LastSum(kp, "PromoRevenue"))>>>>

SfQ14Merge(L, part, date, interval, keys) == SfQ14(L, part, date, interval, TRUE, keys)

SfQ14Sql(L, part, date, interval) ==
    LET J == {<<l, p>> \in Between(L, "[ShipDate]", date, date + interval) \X (DOMAIN part) :
                 L[l]["[PartKey]"] = part[p].PartKey}
        Revenue(js) == MapThenSumSet(LAMBDA j : Discounted(L[j[1]]), js)
    IN  {<<(100 * Revenue({j \in J : part[j[2]].Type = 1})) \div Revenue(J)>>}
=============================================================================
