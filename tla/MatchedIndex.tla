------------------------------ MODULE MatchedIndex ------------------------------
(***************************************************************************)
(* apps/api, lib/matched-index: the index an epoch settles on.  The lines  *)
(* of two adjacent windows are reduced to one price for each person and    *)
(* product, then to one for each product, and the products of both windows *)
(* become ratios, of which the implausible, the thin and the extreme are   *)
(* dropped (applyIntegrity).  The logarithms and weights that make one     *)
(* number of what is left (computeIndex) are left out: the set of ratios   *)
(* and expenditures is the result.                                         *)
(*                                                                         *)
(* A product is an item at a shop.  A person's price is kept doubled, a    *)
(* product's in quarters; a ratio is the pair of them.                     *)
(***************************************************************************)
EXTENDS Market

CONSTANTS
    WindowDays,         \* windowDays
    MinPeoplePerItem,   \* MIN_PEOPLE_PER_ITEM
    MinPairs, MinOutlets, MinPeople,
    TrimOneIn           \* 1 / TRIM

ASSUME IndexAssumption ==
    {WindowDays, MinPeoplePerItem, MinPairs, MinOutlets, MinPeople, TrimOneIn} \subseteq Nat \ {0}

(* Mutant of ObservedAt: the date the paper was printed.                   *)
ObservedAtPrinted(line) == line.receipt.issued

(* The moment a line is placed at.                                         *)
ObservedAt(line) == line.receipt.lines[line.at].at

(* pull: the newest lines first and up to a limit this model never meets.  *)
pull(country, from, to) ==
    {line \in UNION {{[receipt |-> r, at |-> i] : i \in DOMAIN r.lines} : r \in receipts} :
        /\ line.receipt.paper.country = country /\ line.receipt.paper.shop # NULL
        /\ Settled(line.receipt)
        /\ line.receipt.lines[line.at].source = "vision"
        /\ from <= ObservedAt(line) /\ ObservedAt(line) < to}

(* Mutant of personOf: a wallet is a person.                               *)
personIsWallet(humanOf, w) == <<"wallet", w>>

(* The human behind a wallet, once it is proved, or else the wallet.       *)
personOf(humanOf, w) == IF humanOf[w] # NULL THEN <<"human", humanOf[w]>> ELSE <<"wallet", w>>

(* toObservations: the unit price, or the line's total for want of one.    *)
PriceOn(row) == IF row.price # NULL THEN row.price ELSE row.total
Observation(line, humanOf) ==
    LET row == line.receipt.lines[line.at] IN
        [line |-> line, key |-> <<line.receipt.paper.shop, row.item>>,
         person |-> personOf(humanOf, line.receipt.paper.wallet), price |-> PriceOn(row),
         expenditure |-> IF row.total \in {NULL, 0} THEN PriceOn(row) ELSE row.total,
         at |-> ObservedAt(line)]
toObservations(lines, humanOf) ==
    {Observation(line, humanOf) : line \in {l \in lines : PriceOn(l.receipt.lines[l.at]) \notin {NULL, 0}}}

(* One observation for a person and a product: the median of what they     *)
(* paid, and all of it.                                                    *)
capPerPerson(observations) ==
    LET Of(o) == {p \in observations : p.person = o.person /\ p.key = o.key}
    IN  {[person |-> o.person, key |-> o.key,
          price |-> Median2({<<p, p.price>> : p \in Of(o)}),
          expenditure |-> MapThenSumSet(LAMBDA p : p.expenditure, Of(o)),
          at |-> Max({p.at : p \in Of(o)})] : o \in observations}

(* One price for a product.                                                *)
collapseToPeriodPrices(capped) ==
    LET Of(key) == {o \in capped : o.key = key}
    IN  [key \in {o.key : o \in capped} |->
            [price |-> Median2({<<o, o.price>> : o \in Of(key)}),
             expenditure |-> MapThenSumSet(LAMBDA o : o.expenditure, Of(key)),
             people |-> {o.person : o \in Of(key)}]]

Relative(key, before, now) ==
    [key |-> key, before |-> before.price, now |-> now.price,
     expenditure |-> before.expenditure + now.expenditure,
     people |-> Cardinality(before.people \cup now.people)]

(* Mutant of priceRelatives: a product that was not seen before has not    *)
(* moved.                                                                  *)
priceRelativesOfAll(previous, current) ==
    {Relative(key, IF key \in DOMAIN previous THEN previous[key] ELSE current[key], current[key]) :
        key \in DOMAIN current}

(* Only products of both windows.                                          *)
priceRelatives(previous, current) ==
    {Relative(key, previous[key], current[key]) : key \in DOMAIN current \cap DOMAIN previous}

dropImplausible(relatives) == {r \in relatives : r.before <= 2 * r.now /\ r.now <= 2 * r.before}

requirePeoplePerItem(relatives) == {r \in relatives : r.people >= MinPeoplePerItem}

(* By ratio, without dividing.                                             *)
Cheaper(relatives, r) == {s \in relatives : s.now * r.before < r.now * s.before}
Likewise(relatives, r) == {s \in relatives : s.now * r.before = r.now * s.before}

(* Sorted by ratio, without so many at either end.  Which of equal ratios  *)
(* is cut is up to the order they came in; here it is any choice, but the  *)
(* same one whenever the ratios are the same.                              *)
TrimmedOff(relatives, low, high) ==
    LET Places(r) == LET below == Cardinality(Cheaper(relatives, r)) IN
                        (below + 1)..(below + Cardinality(Likewise(relatives, r)))
        left == (low + 1)..(Cardinality(relatives) - high)
    IN  CHOOSE kept \in SUBSET relatives :
            \A r \in relatives : Cardinality(Likewise(kept, r)) = Cardinality(Places(r) \cap left)

(* Mutant of trimTails: only the steepest rises are cut.                   *)
trimRises(relatives) ==
    LET n == Cardinality(relatives) IN
        IF n < 3 THEN relatives ELSE TrimmedOff(relatives, 0, n \div TrimOneIn)

trimTails(relatives) ==
    LET n == Cardinality(relatives)
        cut == n \div TrimOneIn
    IN  IF n < 3 THEN relatives ELSE TrimmedOff(relatives, cut, cut)

applyIntegrity(relatives) == trimTails(requirePeoplePerItem(dropImplausible(relatives)))

checkEligibility(relatives, people) ==
    /\ Cardinality(relatives) >= MinPairs /\ people >= MinPeople
    /\ Cardinality({r.key[1] : r \in relatives}) >= MinOutlets

(* The lines of two windows to what is published of them; leaves do not    *)
(* say whose they are.                                                     *)
IndexOf(previous, current, humanOf) ==
    LET cappedPrevious == capPerPerson(toObservations(previous, humanOf))
        cappedCurrent == capPerPerson(toObservations(current, humanOf))
        clean == applyIntegrity(priceRelatives(collapseToPeriodPrices(cappedPrevious),
                                               collapseToPeriodPrices(cappedCurrent)))
        people == {o.person : o \in cappedPrevious \cup cappedCurrent}
        Leaf(o) == [key |-> o.key, price |-> o.price, expenditure |-> o.expenditure, at |-> o.at]
        Leaves(capped) ==
            [leaf \in {Leaf(o) : o \in capped} |-> Cardinality({o \in capped : Leaf(o) = leaf})]
    IN  [relatives |-> clean, people |-> Cardinality(people),
         verified |-> Cardinality({p \in people : p[1] = "human"}),
         eligible |-> checkEligibility(clean, Cardinality(people)),
         leaves |-> Leaves(cappedPrevious \cup cappedCurrent)]

Previous(country, closesAt) == pull(country, closesAt - 2 * WindowDays, closesAt - WindowDays)
Current(country, closesAt) == pull(country, closesAt - WindowDays, closesAt)

computeEpochIndex(country, closesAt) == 
    IndexOf(Previous(country, closesAt), Current(country, closesAt), human)

-------------------------------------------------------------------------------
Closes == 1..today      \* windows that have closed by now
IndexCountries == {r.paper.country : r \in receipts} \ {NULL}

(* "A window that cannot be edited after it closes": late receipts, old    *)
(* paper, backfills, seeds and claims leave the index of a closed window   *)
(* as it was, to the leaf.  A proof of who holds a wallet does not.        *)
ClosedWindowStands ==
    human' = human => \A country \in IndexCountries, t \in Closes :
            IndexOf(Previous(country, t)', Current(country, t)', human')
                = computeEpochIndex(country, t)

(* Prices that double and then halve leave the index where it was: with    *)
(* the windows exchanged, the ratios that are kept are the inverse ones,   *)
(* as often.                                                               *)
ReversalUndoesTheMove ==
    \A country \in IndexCountries, t \in Closes :
        LET forth == IndexOf(Previous(country, t), Current(country, t), human).relatives
            back == IndexOf(Current(country, t), Previous(country, t), human).relatives
        IN  \A r \in forth \cup back :
                Cardinality({s \in forth : s.now * r.before = s.before * r.now})
                    = Cardinality({s \in back : s.before * r.before = s.now * r.now})

(* A human gains nothing by shopping with several wallets: had one of them *)
(* made every purchase, the index would be the same.                       *)
OneOf(w) == CHOOSE v \in Wallet : v = w \/ (human[v] # NULL /\ human[v] = human[w])
ByOneWallet(lines) ==
    {[line EXCEPT !.receipt.paper.wallet = OneOf(@)] : line \in lines}

AnyWalletOfAHuman ==
    \A country \in IndexCountries, t \in Closes :
        IndexOf(ByOneWallet(Previous(country, t)), ByOneWallet(Current(country, t)), human)
            = computeEpochIndex(country, t)

(* The index favours neither a direction of prices nor an owner of many    *)
(* wallets.                                                                *)
IndexIsFair == ReversalUndoesTheMove /\ AnyWalletOfAHuman

(* A product that is not in both windows contributes nothing, whenever it  *)
(* arrives: while the lines of the others stay, so do the ratios.          *)
ofBoth(previous, current, humanOf) ==
    LET before == toObservations(previous, humanOf)
        now == toObservations(current, humanOf)
    IN  {o \in before \cup now : o.key \in {b.key : b \in before} \cap {n.key : n \in now}}
NewcomersMoveNothing ==
    \A country \in IndexCountries, t \in 1..(today + WindowDays) :
        ofBoth(Previous(country, t)', Current(country, t)', human')
                = ofBoth(Previous(country, t), Current(country, t), human) =>
            IndexOf(Previous(country, t)', Current(country, t)', human').relatives
                = computeEpochIndex(country, t).relatives

=============================================================================
