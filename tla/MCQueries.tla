----------------------------- MODULE MCQueries -----------------------------
(***************************************************************************)
(* The benchmark queries on small databases: every query is asked of       *)
(* several databases and compared with its SQL.                            *)
(***************************************************************************)
EXTENDS MCTables, OtherQueries

LOCAL INSTANCE SequencesExt

(* Draws that differ between databases, columns and rows.                  *)
Draws(k, salt, m) == [i \in 1 .. 7 |-> ((i * i * salt) + (i * k * 3) + (k * salt) + (i \div 3)) % m]

Db(k) ==
    [C |-> CustomersTable(4, "[NationKey]" :> Draws(k, 4, 3) @@ "[MktSegment]" :> Draws(k, 2, 2)
               @@ "[AcctBal]" :> [i \in 1 .. 7 |-> 99990 + Draws(k, 3, 40)[i]]
               @@ "[Phone]" :> [i \in 1 .. 7 |-> 300000 + 100000 * Draws(k, 4, 2)[i]]
               @@ "[Address]" :> Draws(k, 5, 4)),
     O |-> OrdersTable(4, 4, "keep" :> (CHOOSE rows \in Reductions(4, 75, 1) : TRUE) @@ "[CustKey]" :> Draws(k, 2, 3) @@ "[OrderDate]" :> [i \in 1 .. 7 |-> 94 + Draws(k, 3, 12)[i]]
               @@ "[OrderPriority]" :> Draws(k, 1, 3) @@ "[Comment]" :> Draws(k, 5, 4)
               @@ "[OrderStatus]" :> [i \in 1 .. 7 |-> IF i = k THEN 1 ELSE 0] @@ "[TotalPrice]" :> Draws(k, 7, 20)),
     L |-> LineitemTable(3, 3, 4, "lines" :> Draws(k, 1, 3) @@ "[ShipDate]" :> [i \in 1 .. 7 |-> IF i % 2 = k % 2 THEN 79 ELSE 92 + Draws(k, 5, 16)[i]]
               @@ "[CommitDate]" :> [i \in 1 .. 7 |-> IF i = k THEN 0 ELSE 59]
               @@ "[ReceiptDate]" :> [i \in 1 .. 7 |-> 6 * Draws(k, 3, 5)[i]] @@ "Quantity" :> Draws(k, 4, 12)
               @@ "ExtendedPrice" :> Draws(k, 3, 20) @@ "[SuppKey]" :> Draws(k, 1, 4)
               @@ "[PartKey]" :> [i \in 1 .. 7 |-> 1 + Draws(k, 2, 2)[i]] @@ "Discount" :> [i \in 1 .. 7 |-> 3 + Draws(k, 1, 5)[i]]
               @@ "Tax" :> Draws(k, 6, 8) @@ "[ReturnFlag]" :> Draws(k, 1, 3) @@ "[LineStatus]" :> Draws(k, 5, 2)
               @@ "[ShipMode]" :> Draws(k, 3, 2) @@ "[ShipInstruct]" :> Draws(k, 2, 2)),
     P |-> PartTable(3, "[Size]" :> Draws(k, 1, 2) @@ "[Type]" :> Draws(k, 2, 2) @@ "[Name]" :> Draws(k, 3, 2)
               @@ "[Brand]" :> Draws(k, 1, 2) @@ "[Container]" :> Draws(k, 4, 2)),
     PS |-> PartSuppTable(12, 4, "[SupplyCost]" :> Draws(k, 3, 4) @@ "AvailQty" :> Draws(k, 5, 9)),
     S |-> SupplierTable(4, "[NationKey]" :> Draws(k, 1, 3) @@ "[AcctBal]" :> Draws(k, 2, 9)
               @@ "[Comment]" :> Draws(k, 3, 3) @@ "[Address]" :> Draws(k, 4, 9)),
     N |-> NationTable(<<>>), R |-> RegionTable(<<>>)]

Plans == <<"original", "canonical", "selectivity 1", "selectivity 2", "selectivity 3", "selectivity 4">>
Plans5 == <<"original", "canonical", "selectivity">>
Kinds == <<[brand |-> 1, quantity |-> 1, size |-> 5], [brand |-> 2, quantity |-> 2, size |-> 10],
           [brand |-> 1, quantity |-> 3, size |-> 15]>>
TpchRows(q, db, plan) ==
    CASE q = "q1" -> Q1(db, 100)
      [] q = "q2" -> Q2(db, 1, 1, 3, 100)
      [] q = "q3" -> Q3(db, plan, 100, 1, 10)
      [] q = "q4" -> Q4(db, 96, 8)
      [] q = "q5" -> Q5(db, Plans5[plan], 96, 8, 3)
      [] q = "q6" -> Q6(db)
      [] q = "q7" -> Q7(db, 80, 100, 121, 1, 3)
      [] q = "q8" -> Q8(db, Plans[plan], 90, 100, 121, 3, 3, 1)
      [] q = "q9" -> Q9(db, Plans[plan], 1)
      [] q = "q10" -> Q10(db, 96, 8, 1)
      [] q = "q11" -> Q11(db, 3, 3)
      [] q = "q12" -> Q12(db, 0, 1, 15)
      [] q = "q13" -> Q13(db)
      [] q = "q14" -> Q14(db, 80, 20)
      [] q = "q15" -> Q15(db, 96, 10)
      [] q = "q16" -> Q16(db, 10, 10, 1, 1 .. 8)
      [] q = "q17" -> Q17(db, 1, 1)
      [] q = "q18" -> Q18(db, 5)
      [] q = "q19" -> Q19(db, Kinds)
      [] q = "q20" -> Q20(db, 3, 1, 90, 15)
      [] q = "q21" -> Q21(db, 1)
      [] q = "q22" -> Q22(db, {13})

TpchSql(q, db) ==
    CASE q = "q1" -> Q1Sql(db, 100)
      [] q = "q2" -> Q2Sql(db, 1, 1, 3)
      [] q = "q3" -> Q3Sql(db, 100, 1)
      [] q = "q4" -> Q4Sql(db, 96, 8)
      [] q = "q5" -> Q5Sql(db, 96, 8, 3)
      [] q = "q6" -> Q6Sql(db)
      [] q = "q7" -> Q7Sql(db, 80, 100, 121, 1, 3)
      [] q = "q8" -> Q8Sql(db, 90, 100, 121, 3, 3, 1)
      [] q = "q9" -> Q9Sql(db, 1)
      [] q = "q10" -> Q10Sql(db, 96, 8, 1)
      [] q = "q11" -> Q11Sql(db, 3, 3)
      [] q = "q12" -> Q12Sql(db, 0, 1, 15)
      [] q = "q13" -> Q13Sql(db)
      [] q = "q14" -> Q14Sql(db, 80, 20)
      [] q = "q15" -> Q15Sql(db, 96, 10)
      [] q = "q16" -> Q16Sql(db, 10, 10, 1, 1 .. 8)
      [] q = "q17" -> Q17Sql(db, 1, 1)
      [] q = "q18" -> Q18Sql(db, 5)
      [] q = "q19" -> Q19Sql(db, Kinds)
      [] q = "q20" -> Q20Sql(db, 3, 1, 90, 15)
      [] q = "q21" -> Q21Sql(db, 1)
      [] q = "q22" -> Q22Sql(db, {13})

(* The tables of the other systems' queries.                               *)
Records(k) ==
    [D |-> DiagnosisTable(6, "[pid]" :> Draws(k, 1, 3) @@ "[time]" :> Draws(k, 3, 5) @@ "[diagnosis]" :> Draws(k, 2, 2)),
     M |-> MedicationTable(6, "[pid]" :> Draws(k, 2, 3) @@ "[time]" :> Draws(k, 1, 5) @@ "[med]" :> Draws(k, 3, 2)),
     cohort |-> CohortTable(2),
     CD |-> CohortDiagnosisTable(6, 2, "[pid]" :> Draws(k, 1, 4) @@ "[diag]" :> Draws(k, 2, 3)),
     CS |-> CreditScoreTable(10, "[UID]" :> Draws(k, 1, 2) @@ "[YEAR]" :> Draws(k, 3, 2) @@ "[CS]" :> Draws(k, 5, 40)),
     T1 |-> SecrecyT1Table(4, "[person]" :> Draws(k, 1, 2) @@ "coinsurance" :> Draws(k, 3, 100)),
     T2 |-> SecrecyT2Table(4, "[person]" :> Draws(k, 2, 2) @@ "[disease]" :> Draws(k, 1, 3) @@ "cost" :> Draws(k, 5, 50)),
     T3 |-> SecrecyT3Table(4, "[disease]" :> Draws(k, 2, 3) @@ "[class_]" :> Draws(k, 3, 2)),
     people |-> DemographicTable(4, "[pid]" :> Draws(k, 1, 4)),
     codes |-> CodeDiagnosisTable(4, "[code]" :> <<0, 1, 2, 3>> @@ "[diag]" :> Draws(k, 1, 2)),
     meds |-> CodeMedicationTable(4, "[pid]" :> Draws(k, 2, 4) @@ "[code]" :> Draws(k, 1, 4) @@ "[med]" :> Draws(k, 3, 2)),
     taxis |-> TaxiTable(6, 4, "[Company]" :> Draws(k, 1, 4) @@ "Fare" :> Draws(k, 5, 9) @@ "[Type]" :> Draws(k, 2, 2)),
     passwords |-> PasswordTable(50, "[ID]" :> [i \in 1 .. 49 |-> Draws(k, i % 7, 5)[(i % 7) + 1]]),
     R |-> SecrecyRTable(9, "[id]" :> Draws(k, 1, 3) @@ "[ak]" :> Draws(k, 2, 3)),
     S |-> SecrecySTable(9, "[id]" :> Draws(k, 5, 3))]
OtherRows(q, db) ==
    CASE q = "aspirin" -> Aspirin(db.D, db.M, 1, 1)
      [] q = "comorbidity" -> Comorbidity(db.cohort, db.CD, 2)
      [] q = "credit_score" -> CreditScore(db.CS, 2020, 10)
      [] q = "custom_agg" -> CustomAgg(db.T1, db.T2, db.T3)
      [] q = "distinct_patients" -> DistinctPatients(db.people, db.codes, db.meds, 1, 1)
      [] q = "market_share" -> MarketShare(db.taxis, 1)
      [] q = "pwd_reuse" -> PwdReuse(db.passwords)
      [] q = "rcdiff" -> RcDiff(db.D, 1, 1, 3)
      [] q = "secrecy_q2" -> SecrecyQ2(db.R, db.S)

OtherSql(q, db) ==
    CASE q = "aspirin" -> AspirinSql(db.D, db.M, 1, 1)
      [] q = "comorbidity" -> ComorbiditySql(db.cohort, db.CD, 2)
      [] q = "credit_score" -> CreditScoreSql(db.CS, 2020, 10)
      [] q = "custom_agg" -> CustomAggSql(db.T1, db.T2, db.T3)
      [] q = "distinct_patients" -> DistinctPatientsSql(db.people, db.codes, db.meds, 1, 1)
      [] q = "market_share" -> MarketShareSql(db.taxis, 1)
      [] q = "pwd_reuse" -> PwdReuseSql(db.passwords)
      [] q = "rcdiff" -> RcDiffSql(db.D, 1, 1, 3)
      [] q = "secrecy_q2" -> SecrecyQ2Sql(db.R, db.S)

(* The tables of the two parties.                                          *)
LineitemSF(k, prices) ==
    LineitemTableSF(7, "Quantity" :> Draws(prices, 1, 3) @@ "Discount" :> Draws(prices, 2, 2)
        @@ "[ShipDate]" :> [i \in 1 .. 7 |-> 162 + 3 * Draws(k, 3, 4)[i]]
        @@ "[ReturnFlag]" :> Draws(k, 2, 2) @@ "Tax" :> Draws(k, 5, 8) @@ "[ShipMode]" :> Draws(k, 1, 3))
Shares(k) ==
    [L |-> LineitemSF(k, k), same |-> LineitemSF(k, k + 1), other |-> LineitemSF(k + 1, k + 2),
     O |-> OrdersTableSF(5 + (k % 3), "[OrderPriority]" :> Draws(k, 3, 4)),
     P |-> PartRowsSF(3 + (k % 3), "[Type]" :> [i \in 1 .. 7 |-> (k + i) % 6])]

(* The numbers of rows that are joined, before and after the padding.      *)
JoinedQ12(db) == <<Cardinality(LinesInYear(db.L, 160, 0 .. MaxShipMode)), Len(db.O)>>
JoinedQ14(db) == <<Cardinality(PartKeysInRange(db.L, 162, 7)), Len(db.P)>>
Padded(sizes, merge) ==
    [i \in DOMAIN sizes |-> IF merge /\ sizes[i] > 0 THEN NextPowerOfTwo(sizes[i]) ELSE sizes[i]]
Backwards(n) == [i \in 1 .. n |-> n + 1 - i]
PartKeys(L, merge) ==
    SetToSortSeq(PartKeysInRange(L, 162, 7), LAMBDA i, j : IF merge THEN i < j ELSE j < i)

ShuffledQ12(n) == Backwards(n[1] + n[2])
SecretflowRows(q, db, plan) ==
    CASE q = "sf-q1" -> SfQ1(db.L, db.same, 170)
      [] q = "sf-q6" -> SfQ6(0, db.L, db.other, 162, 7, 5, 3)
      [] q = "sf-q1-mod" -> SfQ1Mod(db.L, 170)
      [] q = "sf-q1-mod-obliv" -> SfQ1ModObliv(db.L, 168)
      [] q = "sf-q12" -> IF plan = 1 THEN SfQ12Merge(db.L, db.O, 160, ShuffledQ12(Padded(JoinedQ12(db), TRUE)))
                          ELSE SfQ12(db.L, db.O, 160, FALSE, ShuffledQ12(JoinedQ12(db)))
      [] q = "sf-q14" -> IF plan = 1 THEN SfQ14Merge(db.L, db.P, 162, 7, PartKeys(db.L, TRUE))
                          ELSE SfQ14(db.L, db.P, 162, 7, FALSE, PartKeys(db.L, FALSE))

SecretflowSql(q, db) ==
    CASE q = "sf-q1" -> SfQ1Sql(db.L, db.same, 170)
      [] q = "sf-q6" -> SfQ6Sql(db.L, db.other, 162, 7, 5, 3)
      [] q = "sf-q1-mod" -> SfQ1ModSql(db.L, 170)
      [] q = "sf-q1-mod-obliv" -> SfQ1ModSql(db.L, 168)
      [] q = "sf-q12" -> SfQ12Sql(db.L, db.O, 160)
      [] q = "sf-q14" -> SfQ14Sql(db.L, db.P, 162, 7)

(* The order the SQL asks for.                                             *)
SqlOrder(q) ==
    CASE q \in {"q1", "q12"} -> AscBy(<<1, 2>>)
      [] q = "q2" -> DescBy(<<1>>) \o AscBy(<<3, 2, 4>>)
      [] q = "q3" -> DescBy(<<2>>) \o AscBy(<<3>>)
      [] q \in {"q4", "q8", "q15", "q20", "q22"} -> AscBy(<<1>>)
      [] q \in {"q5", "q10", "q11", "comorbidity"} -> DescBy(<<2>>)
      [] q = "q7" -> AscBy(<<1, 2, 3>>)
      [] q = "q9" -> AscBy(<<1>>) \o DescBy(<<2>>)
      [] q = "q13" -> DescBy(<<2, 1>>)
      [] q = "q16" -> DescBy(<<4>>)
      [] q = "q18" -> DescBy(<<5>>) \o AscBy(<<4>>)
      [] q = "q21" -> DescBy(<<2>>) \o AscBy(<<1>>)
      [] OTHER -> <<>>

TpchNames == {"q1", "q2", "q3", "q4", "q5", "q6", "q7", "q8", "q9", "q10", "q11",
              "q12", "q13", "q14", "q15", "q16", "q17", "q18", "q19", "q20", "q21", "q22"}
OtherNames == {"aspirin", "comorbidity", "credit_score", "custom_agg", "distinct_patients",
               "market_share", "pwd_reuse", "rcdiff", "secrecy_q2"}
SecretflowNames == {"sf-q1", "sf-q6", "sf-q1-mod", "sf-q1-mod-obliv", "sf-q12", "sf-q14"}
PlansOf(q) == CASE q \in {"q8", "q9"} -> 1 .. 6
                [] q = "q5" -> 1 .. 3
                [] q \in {"q3", "sf-q12", "sf-q14"} -> 0 .. 1
                [] OTHER -> {1}

(* The questions the queries are written for: no table whose rows distinct *)
(* loses, the same groups at both parties, and tables that can be merged.  *)
Answerable(q, k, plan) ==
    CASE q = "q4" -> ~LosesARow(LateOrders(Db(k), 96, 8), <<"[OrderKey]">>)
      [] q = "distinct_patients" ->
             LET db == Records(k) IN ~LosesARow(Patients(db.people, db.codes, db.meds, 1, 1), <<"[pid]">>)
      [] q = "rcdiff" -> ~LosesARow(DiagnosedAgain(Records(k).D, 1, 1, 3), <<"[pid]">>)
      [] q = "sf-q1-mod-obliv" -> ~LosesARow(SfQ1ModJoined(Shares(k).L, 168), <<"[ReturnFlag]", "[LineStatus]">>)
      [] q = "sf-q1" -> Groups1(Shares(k).L, 170) = Groups1(Shares(k).same, 170)
      [] q = "sf-q12" -> LET n == Padded(JoinedQ12(Shares(k)), TRUE) IN plan = 1 => n[1] = n[2]
      [] q = "sf-q14" -> LET n == Padded(JoinedQ14(Shares(k)), TRUE) IN n[1] > 0 /\ (plan = 1 => n[1] = n[2])
      [] OTHER -> TRUE

Ordered(rows, order) ==
    \A i, j \in DOMAIN rows : i < j =>
        ~\E c \in DOMAIN order :
            /\ \A d \in 1 .. c - 1 : rows[i][order[d][1]] = rows[j][order[d][1]]
            /\ IF order[c][2] = "ASC" THEN rows[j][order[c][1]] < rows[i][order[c][1]]
               ELSE rows[j][order[c][1]] > rows[i][order[c][1]]

QueryNames == TpchNames \cup OtherNames \cup SecretflowNames
QueryRows(q, k, plan) ==
    IF q \in TpchNames THEN TpchRows(q, Db(k), plan)
    ELSE IF q \in OtherNames THEN OtherRows(q, Records(k)) ELSE SecretflowRows(q, Shares(k), plan)
SqlRows(q, k) ==
    IF q \in TpchNames THEN TpchSql(q, Db(k))
    ELSE IF q \in OtherNames THEN OtherSql(q, Records(k)) ELSE SecretflowSql(q, Shares(k))

(* Databases that between them give every query rows to return.            *)
Seeds == {2, 3, 4, 5, 9, 13}
QueryInit ==
    /\ op \in QueryNames
    /\ arg \in [db : Seeds, plan : PlansOf(op)]
    /\ Answerable(op, arg.db, arg.plan)
QueryCall == op \in QueryNames /\ Return(QueryRows(op, arg.db, arg.plan))

OpensRows(sql) ==
    /\ Len(out) = Cardinality(sql)
    /\ \A r \in Names(out) : Count(out, r) = Cardinality({g \in sql : SubSeq(g, 1, Len(r)) = r})

(* Every plan of a query opens the rows of its SQL, each once, in the      *)
(* order the SQL asks for: what the programs under bench/queries assert    *)
(* with ASSERT_SAME.  The rows of the SQL may end with columns by which    *)
(* they differ and which the query does not select.                        *)
QueriesMatchSql ==
    Returned(QueryNames) => OpensRows(SqlRows(op, arg.db)) /\ Ordered(out, SqlOrder(op))
=============================================================================
