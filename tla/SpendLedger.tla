------------------------------ MODULE SpendLedger ------------------------------
(***************************************************************************)
(* apps/api, routes/client/ledger.ts and the comparisons of                *)
(* routes/client/receipt.ts: what a wallet spent, month by month, against  *)
(* the same days of the month before and against what other people pay.    *)
(* Every answer is computed by several queries over the same receipts,     *)
(* each with filters of its own; a request's queries are taken at one      *)
(* moment.                                                                 *)
(*                                                                         *)
(* A month is a stretch of days, one longer than another.  Money is whole; *)
(* a median of the wallet's own prices is kept doubled.                    *)
(***************************************************************************)
EXTENDS Market

CONSTANT MonthStart     \* the first day of each month, and the day after the last one

ASSUME MonthAssumption ==
    MonthStart \in Seq(Nat) /\ \A m \in DOMAIN MonthStart \ {1} : MonthStart[m - 1] < MonthStart[m]

(* Months with a month before them.                                        *)
Month == DOMAIN MonthStart \ {1, Len(MonthStart)}

(* Mutant of previousSpan: the same days, whatever month they are in.      *)
previousSpanUnclipped(m, throughDay) == MonthStart[m - 1] + throughDay

(* monthWindow: both spans have the same number of days, unless the month  *)
(* before ran out of them.                                                 *)
previousSpan(m, throughDay) == Min({MonthStart[m - 1] + throughDay, MonthStart[m]})

monthWindow(m) ==
    LET isCurrent == MonthStart[m] <= today /\ today < MonthStart[m + 1]
        end == IF isCurrent THEN today + 1 ELSE MonthStart[m + 1]
    IN  [start |-> MonthStart[m], end |-> end,
         previousStart |-> MonthStart[m - 1], previousEnd |-> previousSpan(m, end - MonthStart[m])]

Mine(w) == {r \in receipts : r.paper.wallet = w /\ Settled(r)}
walletCurrency(w) == Commonest(Mine(w))

(* The receipts a wallet's month is made of, for every query but readSpend *)
(* (which wants a printed total as well), and their lines, as receipt and  *)
(* place.                                                                  *)
InMonth(w, from, to) ==
    LET currency == walletCurrency(w)
    IN  {r \in Mine(w) : r.paper.currency = currency /\ Within(r, from, to)}

LinesOf(rs) == UNION {{[receipt |-> r, at |-> i] : i \in DOMAIN r.lines} : r \in rs}
Entry(line) == line.receipt.lines[line.at]
Paid(lines) ==
    SumFunction([line \in {l \in lines : Entry(l).total # NULL} |-> Entry(line).total])
Placed(lines) == {line \in lines : Entry(line).category # NULL}
OfPrice(lines) == {line \in lines : Entry(line).price # NULL}

readSpend(w, from, to) ==
    LET printed == {r \in Mine(w) : r.paper.total # NULL /\ Within(r, from, to)}
        counted == printed \cap InMonth(w, from, to)
    IN  [total |-> SumFunction([r \in counted |-> r.paper.total]),
         receipts |-> Cardinality(counted), elsewhere |-> Cardinality(printed \ counted)]

Median2Price(lines) ==
    IF OfPrice(lines) = {} THEN NULL ELSE Median2({<<line, Entry(line).price>> : line \in OfPrice(lines)})

(* GROUP BY category: a row for each category there is a line of.          *)
ByCategory(lines) ==
    LET Of(c) == {line \in lines : Entry(line).category = c}
    IN  {[category |-> c, median |-> Median2Price(Of(c)), buys |-> Cardinality(Of(c)),
          spent |-> Paid(Of(c))] : c \in {Entry(line).category : line \in lines}}

(* Mutant of readUserPrices: only the lines that could be priced.          *)
readPricedOnly(w, from, to) == ByCategory(OfPrice(Placed(LinesOf(InMonth(w, from, to)))))

readUserPrices(w, from, to) == ByCategory(Placed(LinesOf(InMonth(w, from, to))))

InGroup(rows, group) == {row \in rows : CATEGORY_GROUP[row.category] = group}

(* Rows of both spans with a price in each: nothing to compare is neither  *)
(* dearer nor cheaper.                                                     *)
PriceMoves(now, before) ==
    {[from |-> p[2].median, to |-> p[1].median, category |-> p[1].category] :
        p \in {pair \in now \X before : /\ pair[1].category = pair[2].category
                                          /\ pair[1].median # NULL /\ pair[2].median # NULL}}

breakdown(now, before) ==
    [categories |-> {row.category : row \in now},
     dearer |-> Cardinality({move \in PriceMoves(now, before) : move.to > move.from}),
     cheaper |-> Cardinality({move \in PriceMoves(now, before) : move.to < move.from})]

(* The lines of a month with a price, against what others pay for them.    *)
comparison(w, lines) ==
    LET priced == OfPrice(Placed(lines))
        country == userCountry(w)
        reference == {<<c, PriceOf(marketUnitPrice(c, country, w, marketWindow(MarketDays, 0)))>> :
                        c \in {Entry(line).category : line \in priced}}
        matched == {p \in priced \X reference : Entry(p[1]).category = p[2][1] /\ p[2][2] # NULL}
        gaps == {p[2][2] - 4 * Entry(p[1]).price : p \in matched}
    IN  IF matched = {} THEN NULL
        ELSE [best |-> Max(gaps), worst |-> IF Cardinality(matched) < 2 THEN NULL ELSE Min(gaps),
              matched |-> Cardinality(matched),
              unmatched |-> Cardinality(priced) - Cardinality(matched)]

(* GET /ledger/month.                                                      *)
monthRoute(w, m) ==
    LET window == monthWindow(m)
        current == readSpend(w, window.start, window.end)
        previous == readSpend(w, window.previousStart, window.previousEnd)
        now == readUserPrices(w, window.start, window.end)
        before == readUserPrices(w, window.previousStart, window.previousEnd)
        lines == LinesOf(InMonth(w, window.start, window.end))
        InThe(group) == {line \in Placed(lines) : CATEGORY_GROUP[Entry(line).category] = group}
    IN  [spent |-> current.total, receiptCount |-> current.receipts,
         previous |-> IF previous.receipts > 0 THEN previous.total ELSE NULL,
         groups |-> [g \in Group |-> Paid(InThe(g))],
         breakdown |-> [g \in Group |-> breakdown(InGroup(now, g), InGroup(before, g))],
         unmatched |-> Paid(lines \ Placed(lines)),
         comparison |-> comparison(w, lines)]

(* GET /ledger/group/{group}: the lines nothing was made of are shown      *)
(* under one group only.                                                   *)
categoryRoute(w, group, m) ==
    LET window == monthWindow(m)
        now == InGroup(readUserPrices(w, window.start, window.end), group)
        before == InGroup(readUserPrices(w, window.previousStart, window.previousEnd), group)
        lines == LinesOf(InMonth(w, window.start, window.end))
        nothing == IF group = "groceries" THEN lines \ Placed(lines) ELSE {}
    IN  [items |-> now, moves |-> PriceMoves(now, before),
         spent |-> SumFunction([row \in now |-> row.spent]),
         previousSpent |-> SumFunction([row \in before |-> row.spent]),
         unmatched |-> Paid(nothing), unmatchedLines |-> Cardinality(nothing)]

(* GET /ledger/item/{category}: every purchase in whatever currency, month *)
(* by month beside what others paid that month.                            *)
Purchases(w, category) ==
    {line \in OfPrice(LinesOf(Mine(w))) : Entry(line).category = category}
MonthOf(day) == CHOOSE m \in 1..(Len(MonthStart) - 1) : MonthStart[m] <= day /\ day < MonthStart[m + 1]

itemRoute(w, category, since) ==
    LET bought == Purchases(w, category)
        charted == {line \in bought : line.receipt.issued >= since}
        months == {MonthOf(line.receipt.issued) : line \in charted}
    IN  [purchases |-> {<<line.receipt.paper, line.at>> : line \in bought},
         history |-> [m \in months |->
            [unitPrice |-> Median2Price({line \in charted : MonthOf(line.receipt.issued) = m}),
             market |-> PriceOf(marketUnitPrice(category, userCountry(w), w,
                            [since |-> MonthStart[m], until |-> MonthStart[m + 1]]))]],
         yours |-> IF months = {} THEN NULL ELSE Max(months),
         market |-> marketUnitPrice(category, userCountry(w), w, marketWindow(MarketDays, 0))]

(* GET /receipts/{id}: the receipt against its own country.                *)
Going(w, country) ==
    [c \in ITEM_CATEGORIES |-> PriceOf(marketUnitPrice(c, country, w, marketWindow(MarketDays, 0)))]
receiptDetail(r) == compareWithMarket(r.lines, Going(r.paper.wallet, r.paper.country))

(* GET /receipts: one country for a page, that of its first receipt with   *)
(* one; the others are left uncompared.                                    *)
receiptHistory(r, country) ==
    IF country # r.paper.country THEN NULL
    ELSE LET priced == Restrict(r.lines, {i \in DOMAIN r.lines : r.lines[i].price # NULL})
         IN  compareWithMarket(priced, Going(r.paper.wallet, country))

-------------------------------------------------------------------------------
Sold == {row.category : row \in UNION {Range(r.lines) : r \in receipts}} \ {NULL}
Countries == {r.paper.country : r \in receipts} \ {NULL}

(* The month screen, its two drill-downs and the lines themselves are read *)
(* by different queries: the groups and what was not placed make up the    *)
(* whole of the month's lines, each group opens on the amount it was       *)
(* tapped at, and the unplaced lines are shown once.                       *)
MonthAddsUp ==
    \A w \in Wallet, m \in Month :
        LET month == monthRoute(w, m)
            detail == [g \in Group |-> categoryRoute(w, g, m)]
            lines == LinesOf(InMonth(w, monthWindow(m).start, monthWindow(m).end))
        IN  /\ \A g \in Group : detail[g].spent = month.groups[g]
            /\ SumFunction(month.groups) + month.unmatched = Paid(lines)
            /\ SumFunction([g \in Group |-> detail[g].unmatched]) = month.unmatched

(* A receipt is never on both sides of a comparison: not in a month and    *)
(* the span it is held against, and not in the last days and the days      *)
(* before them.                                                            *)
NothingOnBothSides ==
    /\ \A w \in Wallet, m \in Month :
          LET window == monthWindow(m) IN
            InMonth(w, window.start, window.end)
                \cap InMonth(w, window.previousStart, window.previousEnd) = {}
    /\ \A country \in Countries, c \in Sold :
          Behind(c, country, NULL, marketWindow(ChangeDays, 0))
            \cap Behind(c, country, NULL, marketWindow(ChangeDays, ChangeDays)) = {}

(* Prices are whole here, and have four decimals in the code: a sum of     *)
(* savings is exact for papers whose prices divide, and is rounded with    *)
(* the price for others.                                                   *)
Content(row) == toCanonicalQuantity(row.category, row.quantity, row.unit)
Exact(row) == row.price # NULL => row.price * Content(row) = 1000 * row.total
PricesDivide == \A paper \in Paper : \A i \in DOMAIN paper.lines : Exact(Row(paper.lines[i], 0))

(* What a receipt is said to have saved is what its compared lines would   *)
(* have cost at the market price less what was printed beside them, though *)
(* the price, the quantity and the unit were each read, corrected and      *)
(* stored on their own; and the list never says otherwise than the page of *)
(* the receipt.                                                            *)
ComparedAtTheMarket ==
    \A r \in receipts :
        LET said == receiptDetail(r)
            market == Going(r.paper.wallet, r.paper.country)
            compared == {i \in DOMAIN r.lines : Comparable(r.lines[i], market)}
            There(i) == market[r.lines[i].category] * Content(r.lines[i])
        IN  /\ said # NULL => said.amount =
                    SumFunction([i \in compared |-> There(i)])
                        - 4000 * SumFunction([i \in compared |-> r.lines[i].total])
            /\ \A country \in Countries : receiptHistory(r, country) \in {NULL, said}

(* "Shoppers paid" and "most people" never include the reader: while only  *)
(* a wallet's own receipts change, what others pay, as that wallet is      *)
(* shown it, stays.                                                        *)
OthersReceipts(w) == {r \in receipts : r.paper.wallet # w}
OwnReceiptsNeverCount ==
    \A w \in Wallet, country \in Countries :
        (OthersReceipts(w)' = OthersReceipts(w) /\ today' = today) =>
            Going(w, country)' = Going(w, country)

=============================================================================
