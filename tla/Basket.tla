-------------------------------- MODULE Basket --------------------------------
(***************************************************************************)
(* apps/api: what becomes of a line the vision model read off a receipt    *)
(* (lib/receipt-processor/categories.ts) until it is a row of              *)
(* receipt_line_items (toLineItemRows of queues/receipt-analysis.ts), and  *)
(* what a basket would have cost elsewhere (compareWithMarket of           *)
(* lib/market.ts).                                                         *)
(*                                                                         *)
(* The words of a line are an item and what those words give away: that    *)
(* they name a dish or bleach, print a volume, or count slices.            *)
(* Quantities are whole and are kept in thousandths of the unit a category *)
(* is priced in, so that grams and millilitres divide exactly.             *)
(***************************************************************************)
EXTENDS Integers, Sequences, FiniteSets, SequencesExt, FiniteSetsExt

CONSTANTS
    NULL,        \* SQL's and JavaScript's null
    Wording      \* what the words of an item give away: [Item -> SUBSET Hint]

Hint == {"produce", "dish", "bleach", "wash", "shampoo", "toothpaste", "paper", "biscuit",
         "milk", "volume", "sliced", "servings"}

ASSUME WordingAssumption == \A item \in DOMAIN Wording : Wording[item] \subseteq Hint

CANONICAL_UNIT ==
    [rice |-> "kg", beans |-> "kg", garri |-> "kg", bread |-> "loaf", noodles |-> "pack",
     cooking_oil |-> "l", eggs |-> "crate", milk_powder |-> "kg", sugar |-> "kg",
     tomato_paste |-> "kg", detergent |-> "kg", soap |-> "piece"]
ITEM_CATEGORIES == DOMAIN CANONICAL_UNIT
CATEGORY_GROUP ==
    [c \in ITEM_CATEGORIES |-> IF c \in {"detergent", "soap"} THEN "household" ELSE "groceries"]
Group == {"groceries", "household"}

(* Null for the label "other".                                             *)
toCategory(label) == IF label \in ITEM_CATEGORIES THEN label ELSE NULL

(* CONVERSION: mass and volume convert, nothing countable does.            *)
ConvertsTo(unit) == CASE unit = "g" -> "kg" [] unit = "ml" -> "l" [] OTHER -> unit
Thousandths(unit) == IF unit \in {"g", "ml"} THEN 1 ELSE 1000

PLAUSIBLE_QUANTITY ==
    [kg |-> 1..60, g |-> 20..60000, l |-> 1..30, ml |-> 50..30000, piece |-> 1..200,
     pack |-> 1..200, crate |-> 1..30, loaf |-> 1..50, sachet |-> 1..500, tin |-> 1..200]

COPIED_PRICE_FLOOR == 20

EXCLUDED_TERMS ==
    [c \in ITEM_CATEGORIES |->
        CASE c \in {"beans", "rice", "garri"} -> {"produce", "dish"}
          [] c \in {"sugar", "tomato_paste"} -> {"produce"}
          [] c \in {"eggs", "noodles"} -> {"dish"}
          [] c = "detergent" -> {"bleach", "wash", "shampoo", "paper"}
          [] c = "soap" -> {"bleach", "shampoo", "toothpaste"}
          [] c = "bread" -> {"dish", "biscuit"}
          [] c = "milk_powder" -> {"milk"}
          [] OTHER -> {}]

(* Whether the words or the unit rule the model's answer out.              *)
Excluded(category, item, unit) ==
    \/ category = "milk_powder" /\ (unit \in {"l", "ml"} \/ "volume" \in Wording[item])
    \/ EXCLUDED_TERMS[category] \cap Wording[item] # {}

applyExclusions(category, item, unit) ==
    IF category = NULL \/ Excluded(category, item, unit) THEN NULL ELSE category

(* A number that describes the product and not the purchase: six slices    *)
(* are one loaf, five servings are five packs.                             *)
readPrintedQuantity(category, line) ==
    CASE category = "bread" /\ "sliced" \in Wording[line.item] -> [quantity |-> 1, unit |-> "loaf"]
      [] category = "noodles" /\ "servings" \in Wording[line.item] ->
            [quantity |-> line.quantity, unit |-> "pack"]
      [] OTHER -> [quantity |-> line.quantity, unit |-> line.unit]

Positive(n) == n # NULL /\ n > 0

(* In thousandths of the category's unit.                                  *)
toCanonicalQuantity(category, quantity, unit) ==
    IF ~ Positive(quantity) \/ unit = NULL THEN NULL
    ELSE IF ConvertsTo(unit) # CANONICAL_UNIT[category] THEN NULL
    ELSE quantity * Thousandths(unit)

(* The number of another column: the wrong size for its unit, or the price *)
(* a second time.                                                          *)
Misread(printed, total) ==
    \/ printed.quantity = NULL \/ printed.unit = NULL
    \/ printed.quantity \notin PLAUSIBLE_QUANTITY[printed.unit]
    \/ total >= COPIED_PRICE_FLOOR /\ printed.quantity = total

(* Mutant of unitPrice: a line is priced by the numbers the model answered. *)
PricedAsAnswered(category, line) ==
    LET canonical == toCanonicalQuantity(category, line.quantity, line.unit) IN
        IF ~ Positive(line.total) \/ canonical = NULL THEN NULL
        ELSE IF Misread(line, line.total) THEN NULL
        ELSE (line.total * 1000) \div canonical

unitPrice(category, line) ==
    LET printed == readPrintedQuantity(category, line)
        canonical == toCanonicalQuantity(category, printed.quantity, printed.unit)
    IN  IF ~ Positive(line.total) \/ canonical = NULL THEN NULL
        ELSE IF Misread(printed, line.total) THEN NULL
        ELSE (line.total * 1000) \div canonical

(* storableDecimal: a coupon and a free item have no amount.               *)
Storable(n) == IF Positive(n) THEN n ELSE NULL

(* toLineItemRows: one row for every line, whatever it was placed in.      *)
Row(line, at) ==
    LET category == applyExclusions(toCategory(line.label), line.item, line.unit)
        printed == IF category = NULL THEN [quantity |-> line.quantity, unit |-> line.unit]
                   ELSE readPrintedQuantity(category, line)
    IN  [item |-> line.item, category |-> category, quantity |-> Storable(printed.quantity),
         unit |-> printed.unit, total |-> Storable(line.total), source |-> "vision", at |-> at,
         price |-> IF category = NULL THEN NULL ELSE unitPrice(category, line)]

toLineItemRows(lines, at) == [i \in DOMAIN lines |-> Row(lines[i], at)]

(* compareWithMarket: what each line that has a price of its own and one   *)
(* on the market would have cost there, less what it did, in quarters of   *)
(* thousandths; market gives four times the price, or NULL.                *)
Comparable(row, market) ==
    /\ row.category # NULL /\ row.price # NULL
    /\ market[row.category] # NULL
    /\ toCanonicalQuantity(row.category, row.quantity, row.unit) # NULL

Saved(row, market) ==
    (market[row.category] - 4 * row.price)
        * toCanonicalQuantity(row.category, row.quantity, row.unit)

compareWithMarket(rows, market) ==
    LET compared == {i \in DOMAIN rows : Comparable(rows[i], market)} IN
        IF compared = {} THEN NULL
        ELSE [lines |-> Cardinality(compared),
              amount |-> SumFunction([i \in compared |-> Saved(rows[i], market)])]

=============================================================================
