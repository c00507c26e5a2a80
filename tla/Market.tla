-------------------------------- MODULE Market --------------------------------
(***************************************************************************)
(* apps/api, lib/market.ts: what other people pay.  Every figure that      *)
(* comes from someone else's receipts is a median of medians: one price    *)
(* for each receipt, then the middle of those, withheld below a floor.     *)
(*                                                                         *)
(* A median of two middle values is a half, so a receipt's price is kept   *)
(* doubled and a published price in quarters.  Days stand for moments.     *)
(***************************************************************************)
EXTENDS Corpus

CONSTANTS
    Currencies,      \* the currencies, in the order the database sorts them
    MinObservations, \* MIN_MARKET_OBSERVATIONS
    MarketDays,      \* MARKET_WINDOW_DAYS
    ChangeDays       \* MARKET_CHANGE_WINDOW_DAYS

ASSUME MarketAssumption == {MinObservations, MarketDays, ChangeDays} \subseteq Nat \ {0}

(* percentile_cont(0.5), doubled: the sum of the two middle values among   *)
(* readings <<what was read, value>>.                                      *)
AtRank(readings, j) ==
    (CHOOSE p \in readings :
        /\ Cardinality({q \in readings : q[2] < p[2]}) < j
        /\ j <= Cardinality({q \in readings : q[2] <= p[2]}))[2]

Median2(readings) ==
    LET n == Cardinality(readings)
    IN  AtRank(readings, (n + 1) \div 2) + AtRank(readings, n \div 2 + 1)

(* MODE() WITHIN GROUP (ORDER BY currency): of equals, the first.          *)
Commonest(rs) ==
    LET Printed(i) == Cardinality({r \in rs : r.paper.currency = Currencies[i]})
        most == {i \in DOMAIN Currencies : \A j \in DOMAIN Currencies : Printed(j) <= Printed(i)}
    IN  IF \A r \in rs : r.paper.currency = NULL THEN NULL ELSE Currencies[Min(most)]

Within(r, from, to) == r.issued >= from /\ (to = NULL \/ r.issued < to)

(* Mutant of marketWindow: every window runs up to today.                  *)
marketWindowOpen(days, endedDaysAgo) == [since |-> today - endedDaysAgo - days, until |-> NULL]

marketWindow(days, endedDaysAgo) ==
    [since |-> today - endedDaysAgo - days,
     until |-> IF endedDaysAgo = 0 THEN NULL ELSE today - endedDaysAgo]

Priced(r, category) == {i \in DOMAIN r.lines : r.lines[i].category = category /\ r.lines[i].price # NULL}

(* Mutant of Seen: lines of whatever source.                               *)
SeenOrSeeded(r, category) == Priced(r, category)

Seen(r, category) == {i \in Priced(r, category) : r.lines[i].source = "vision"}
receiptPrice(r, category) == Median2({<<i, r.lines[i].price>> : i \in Seen(r, category)})

(* Mutant of Behind: the reader's own receipts too.                        *)
BehindAll(category, country, exclude, window) ==
    {r \in receipts : /\ Settled(r) /\ r.paper.country = country
                      /\ Within(r, window.since, window.until)
                      /\ Seen(r, category) # {}}

(* The receipts one median is taken over.                                  *)
Behind(category, country, exclude, window) ==
    {r \in receipts : /\ Settled(r) /\ r.paper.country = country /\ r.paper.wallet # exclude
                      /\ Within(r, window.since, window.until)
                      /\ Seen(r, category) # {}}

(* marketUnitPrices for one category: NULL when the query has no row.      *)
marketUnitPrice(category, country, exclude, window) ==
    LET behind == Behind(category, country, exclude, window)
        n == Cardinality(behind)
    IN  IF country = NULL \/ behind = {} THEN NULL
        ELSE [unitPrice |-> IF n >= MinObservations
                            THEN Median2({<<r, receiptPrice(r, category)>> : r \in behind}) ELSE NULL,
              observations |-> n, needed |-> Max({0, MinObservations - n})]

PriceOf(published) == IF published = NULL THEN NULL ELSE published.unitPrice

(* The latest receipt that names a country, whatever became of it.         *)
userCountry(w) ==
    LET named == {r \in receipts : r.paper.wallet = w /\ r.paper.country # NULL}
        latest == {r \in named : \A s \in named : s.issued <= r.issued}
    IN  IF named = {} THEN NULL ELSE (CHOOSE paper \in {r.paper : r \in latest} : TRUE).country

countryMarket(country) ==
    LET read == {r \in receipts : Settled(r) /\ r.paper.country = country}
    IN  [currency |-> Commonest(read), receipts |-> Cardinality(read)]

(* The two published prices a change is drawn from, or NULL.               *)
priceChange(recent, prior) ==
    IF PriceOf(recent) = NULL \/ PriceOf(prior) = NULL THEN NULL
    ELSE IF prior.unitPrice <= 0 THEN NULL
    ELSE [now |-> recent.unitPrice, before |-> prior.unitPrice]

(* marketBoard: a row for every category, nobody left out.                 *)
boardItem(category, country) ==
    LET price == marketUnitPrice(category, country, NULL, marketWindow(MarketDays, 0))
        recent == marketUnitPrice(category, country, NULL, marketWindow(ChangeDays, 0))
        prior == marketUnitPrice(category, country, NULL, marketWindow(ChangeDays, ChangeDays))
    IN  [unitPrice |-> PriceOf(price),
         observations |-> IF price = NULL THEN 0 ELSE price.observations,
         needed |-> IF price = NULL THEN MinObservations ELSE price.needed,
         change |-> priceChange(recent, prior)]

marketBoard(country) ==
    [totals |-> countryMarket(country),
     items |-> [c \in ITEM_CATEGORIES |-> boardItem(c, country)]]

=============================================================================
