------------------------------ MODULE TpchData ------------------------------
(***************************************************************************)
(* The generated data of the benchmark queries.  Every generator builds    *)
(* its table from counters and random draws; the same columns go to the    *)
(* secret shared table and to the database the results are checked with.   *)
(*                                                                         *)
(* draws gives, per random column, the words drawn for it, repeated from   *)
(* the start where the table is longer; columns without draws draw zeros.  *)
(* The sizes, which follow from the scale factor in the code, are bounds   *)
(* here, as are the numbers of nations and regions (25 and 5).             *)
(***************************************************************************)
EXTENDS Tables

CONSTANTS NationSize, RegionSize

DataSizesAssumption == NationSize \in 1 .. 25 /\ RegionSize \in 1 .. 5

(* A draw modulo the range, moved up to its lower end.                     *)
RandomColumn(draws, c, n, min, max) ==
    [i \in 1 .. n |->
        IF c \in DOMAIN draws
        THEN min + (draws[c][((i - 1) % Len(draws[c])) + 1] % (max - min)) ELSE min]
CounterColumn(n) == [i \in 1 .. n |-> i - 1]
RunningSum(x) ==
    LET sum[i \in 0 .. Len(x)] == IF i = 0 THEN 0 ELSE sum[i - 1] + x[i]
    IN  [i \in DOMAIN x |-> sum[i]]

(* A reduced relation keeps the rows whose hashes rank lowest, as many as  *)
(* the percentage says, half a row rounded up: here any rows, in order.    *)
SelectedCount(numerator, denominator, n) ==
    (numerator * n) \div (denominator * 100)
        + (IF 2 * ((numerator * n) % (denominator * 100)) >= denominator * 100 THEN 1 ELSE 0)
Reductions(n, numerator, denominator) ==
    {SelectSeq(Whole(n), LAMBDA i : i \in keep) :
        keep \in {S \in SUBSET (1 .. n) : Cardinality(S) = SelectedCount(numerator, denominator, n)}}
Reduce(t, draws) == IF "keep" \in DOMAIN draws THEN Read(t, draws["keep"]) ELSE t

----------------------------------------------------------------------------
CustomersTable(n, draws) ==
    LET phone == RandomColumn(draws, "[Phone]", n, 1000000, 9999999)
        acctbal == RandomColumn(draws, "[AcctBal]", n, -99999, 999999 + 1)
    IN  SecretShare(<<"[CustKey]", "[C_Name]", "[Address]", "[NationKey]", "[Phone]",
                      "[CntryCode]", "[AcctBal]", "AcctBal", "[MktSegment]", "[Comment]">>,
            <<CounterColumn(n), CounterColumn(n), RandomColumn(draws, "[Address]", n, 0, n),
              RandomColumn(draws, "[NationKey]", n, 0, NationSize), phone,
              [i \in 1 .. n |-> phone[i] \div 100000], acctbal, acctbal,
              RandomColumn(draws, "[MktSegment]", n, 1, 6),
              RandomColumn(draws, "[Comment]", n, 0, 16)>>)

(* One to seven lines per order; the key of a line is the number of orders *)
(* that end before it.  There is one line more, of no order.               *)
LineitemOrderKeys(perOrder) ==
    LET ends == RunningSum(perOrder)
        n == ends[Len(ends)] + 1
    IN  RunningSum([i \in 1 .. n |-> IF i - 1 \in Names(ends) THEN 1 ELSE 0])

LineitemTable(orders, parts, suppliers, draws) ==
    LET orderKey == LineitemOrderKeys(RandomColumn(draws, "lines", orders, 1, 7 + 1))
        n == Len(orderKey)
        quantity == RandomColumn(draws, "Quantity", n, 1, 51)
        unit == RandomColumn(draws, "ExtendedPrice", n, 90, 111)
        discount == RandomColumn(draws, "Discount", n, 0, 10)
        shipDate == RandomColumn(draws, "[ShipDate]", n, 1, 121)
        delay == RandomColumn(draws, "[ReceiptDate]", n, 1, 30)
    IN  Reduce(SecretShare(
            <<"[OrderKey]", "[ReturnFlag]", "[LineStatus]", "Quantity", "[Quantity]",
              "ExtendedPrice", "Discount", "[Discount]", "Tax", "[ShipDate]", "[CommitDate]",
              "[ReceiptDate]", "[ShipMode]", "[PartKey]", "[ShipInstruct]", "[LineNumber]",
              "[SuppKey]">>,
            <<orderKey, RandomColumn(draws, "[ReturnFlag]", n, 0, 3),
              RandomColumn(draws, "[LineStatus]", n, 0, 2), quantity, quantity,
              [i \in 1 .. n |-> unit[i] * quantity[i]], discount, discount,
              RandomColumn(draws, "Tax", n, 0, 8), shipDate,
              RandomColumn(draws, "[CommitDate]", n, 30, 90),
              [i \in 1 .. n |-> shipDate[i] + delay[i]],
              RandomColumn(draws, "[ShipMode]", n, 0, 7), RandomColumn(draws, "[PartKey]", n, 0, parts),
              RandomColumn(draws, "[ShipInstruct]", n, 0, 4), [i \in 1 .. n |-> (i - 1) % 7],
              RandomColumn(draws, "[SuppKey]", n, 0, suppliers)>>), draws)

(* Columns shared already shifted, so that only signs are left to compare. *)
DateThreshold == 100
DateInterval == 10
DiscountThreshold == 5
QuantityThreshold == 40
ProactiveSharing(t) ==
    LET ship == Col(t, "[ShipDate]")
        Shifted(x, by) == [i \in DOMAIN t |-> x[i] - by]
    IN  Put(Put(Put(Put(Put(t,
            "[ShipDateAdj]", Shifted(ship, DateThreshold)),
            "[ShipDateAdjInterval]", Shifted(ship, DateThreshold + DateInterval)),
            "[DiscountHigh]", Shifted(Col(t, "Discount"), DiscountThreshold - 1)),
            "[DiscountLow]", Shifted(Col(t, "Discount"), DiscountThreshold + 2)),
            "[QuantityAdj]", Shifted(Col(t, "Quantity"), QuantityThreshold))

(* Only two customers in three ever order.                                 *)
OrdersTable(n, customers, draws) ==
    Reduce(SecretShare(<<"[OrderKey]", "[CustKey]", "[Comment]", "[OrderPriority]", "[OrderDate]",
                         "[TotalPrice]", "[OrderStatus]">>,
        <<CounterColumn(n), RandomColumn(draws, "[CustKey]", n, 0, (2 * customers + 1) \div 3),
          RandomColumn(draws, "[Comment]", n, 0, 16),
          RandomColumn(draws, "[OrderPriority]", n, 1, 5 + 1),
          RandomColumn(draws, "[OrderDate]", n, 1, 121),
          RandomColumn(draws, "[TotalPrice]", n, 90, 111),
          RandomColumn(draws, "[OrderStatus]", n, 0, 2 + 1)>>), draws)

RegionTable(draws) ==
    SecretShare(<<"[RegionKey]", "[Name]", "[Comment]">>,
        <<CounterColumn(RegionSize), [i \in 1 .. RegionSize |-> 2 * (i - 1) + 1],
          RandomColumn(draws, "[Comment]", RegionSize, 0, 16)>>)

RegionOfNation ==
    <<0, 1, 1, 1, 4, 0, 3, 3, 2, 2, 4, 4, 2, 4, 0, 0, 0, 1, 2, 3, 4, 2, 3, 3, 1>>
NationTable(draws) ==
    SecretShare(<<"[NationKey]", "[Name]", "[RegionKey]", "[Comment]">>,
        <<CounterColumn(NationSize), [i \in 1 .. NationSize |-> 2 * (i - 1) + 1],
          SubSeq(RegionOfNation, 1, NationSize),
          RandomColumn(draws, "[Comment]", NationSize, 0, 16)>>)

PartTable(n, draws) ==
    Reduce(SecretShare(<<"[PartKey]", "[Brand]", "[Container]", "[Type]", "[Size]", "[Name]">>,
        <<CounterColumn(n), RandomColumn(draws, "[Brand]", n, 1, 25 + 1),
          RandomColumn(draws, "[Container]", n, 1, 40 + 1), RandomColumn(draws, "[Type]", n, 1, 10 + 1),
          RandomColumn(draws, "[Size]", n, 1, 50 + 1), RandomColumn(draws, "[Name]", n, 0, 20 + 1)>>),
        draws)

SupplierTable(n, draws) ==
    SecretShare(<<"[SuppKey]", "[NationKey]", "[AcctBal]", "[Name]", "[Address]", "[Phone]", "[Comment]">>,
        <<CounterColumn(n), RandomColumn(draws, "[NationKey]", n, 0, NationSize),
          RandomColumn(draws, "[AcctBal]", n, -1000, 10000 + 1), [i \in 1 .. n |-> 2 * (i - 1) + 1],
          RandomColumn(draws, "[Address]", n, 0, 100000 + 1),
          RandomColumn(draws, "[Phone]", n, 1000000000, 2000000000 + 1),
          RandomColumn(draws, "[Comment]", n, 0, 16)>>)

(* Four rows per part.  The arithmetic is unsigned with 64 bits: the part  *)
(* before part 0 is the largest word, divided by 2, 3 or 4 suppliers and   *)
(* multiplied by i; here is what that leaves modulo the suppliers.         *)
PartSuppPerPart == 4
WrappedQuotient(i, suppliers) ==
    CASE suppliers = 2 -> i % 2
      [] suppliers = 3 -> (2 * i) % 3
      [] suppliers = 4 -> (4 - i) % 4
PartSuppKey(part, i, suppliers) ==
    IF part = 0 THEN ((WrappedQuotient(i, suppliers) + i * (suppliers \div 4)) % suppliers) + 1
    ELSE ((part + i * (suppliers \div 4 + (part - 1) \div suppliers)) % suppliers) + 1
PartSuppTable(n, suppliers, draws) ==
    LET partKey == [i \in 1 .. n |-> (i - 1) \div PartSuppPerPart]
        cost == RandomColumn(draws, "[SupplyCost]", n, 1, 1000 + 1)
    IN  SecretShare(<<"[SuppKey]", "[PartKey]", "[SupplyCost]", "SupplyCost", "AvailQty">>,
            <<[i \in 1 .. n |-> PartSuppKey(partKey[i], (i - 1) % 4, suppliers)], partKey,
              cost, cost, RandomColumn(draws, "AvailQty", n, 1, 9999 + 1)>>)
=============================================================================
