----------------------------- MODULE Reads_proofs ------------------------------
(***************************************************************************)
(* What holds of the numbers the app shows for any papers, wallets and     *)
(* operators: of the receipts that were read, with their lines (Corpus),   *)
(* and of the prices and the index that are drawn from them.               *)
(***************************************************************************)
EXTENDS PublicNumbers, Sums

-----------------------------------------------------------------------------
(* Types of the two tables, with what every writer of them keeps: a paper  *)
(* is one receipt, and no line is younger than today.                      *)

Status == {"claimable", "claimed", "rejected", "rejected-claimed"}
Amount == Int \cup {NULL}
Price == Nat \cup {NULL}
Printed == (Nat \ {0}) \cup {NULL}
RowRecord == [item : DOMAIN Wording, category : ITEM_CATEGORIES \cup {NULL}, quantity : Amount,
              unit : DOMAIN PLAUSIBLE_QUANTITY \cup {NULL}, total : Printed,
              source : {"vision", "seed"}, at : Nat, price : Price]

\* A row with a price has what it is drawn from.
Coherent(row) ==
    row.price # NULL => /\ row.category # NULL /\ row.total \in Nat /\ Content(row) \in Nat
                        /\ PricesDivide => Exact(row)
ItemRow == {row \in RowRecord : Coherent(row)}
Receipt == [paper : Paper, issued : Int, status : Status, lines : Seq(ItemRow)]

OnePaperEach == \A r, s \in receipts : r.paper = s.paper => r = s
NoneIsYounger == \A r \in receipts : \A i \in DOMAIN r.lines : r.lines[i].at <= today
CorpusHolds ==
    /\ today \in Nat
    /\ IsFiniteSet(receipts) /\ receipts \subseteq Receipt
    /\ OnePaperEach /\ NoneIsYounger

LEMMA StorableType == \A n \in Amount : Storable(n) \in Printed /\ Storable(n) \in Amount
BY PaperAssumption DEF Storable, Positive, Amount, Printed

LEMMA ToCategoryType == \A label : toCategory(label) \in ITEM_CATEGORIES \cup {NULL}
BY DEF toCategory

LEMMA PrintedType ==
  ASSUME NEW category, NEW line \in LineItem
  PROVE  /\ readPrintedQuantity(category, line).quantity \in Amount
         /\ readPrintedQuantity(category, line).unit \in DOMAIN PLAUSIBLE_QUANTITY \cup {NULL}
<1>1. line.quantity \in Amount /\ line.unit \in DOMAIN PLAUSIBLE_QUANTITY \cup {NULL}
  BY DEF LineItem, Amount
<1>2. {"loaf", "pack"} \subseteq DOMAIN PLAUSIBLE_QUANTITY
  BY DEF PLAUSIBLE_QUANTITY
<1>3. 1 \in Amount
  BY DEF Amount
<1> QED BY <1>1, <1>2, <1>3 DEF readPrintedQuantity

LEMMA CanonicalType ==
  ASSUME NEW category, NEW quantity \in Amount, NEW unit
  PROVE  toCanonicalQuantity(category, quantity, unit) \in (Nat \ {0}) \cup {NULL}
<1>1. CASE ~ Positive(quantity) \/ unit = NULL \/ ConvertsTo(unit) # CANONICAL_UNIT[category]
  BY <1>1 DEF toCanonicalQuantity
<1>2. CASE ~(~ Positive(quantity) \/ unit = NULL \/ ConvertsTo(unit) # CANONICAL_UNIT[category])
  <2>1. quantity \in Int /\ quantity > 0
    BY <1>2, PaperAssumption DEF Positive, Amount
  <2>2. Thousandths(unit) \in {1, 1000}
    BY DEF Thousandths
  <2>3. toCanonicalQuantity(category, quantity, unit) = quantity * Thousandths(unit)
    BY <1>2 DEF toCanonicalQuantity
  <2> QED BY <2>1, <2>2, <2>3
<1> QED BY <1>1, <1>2

LEMMA UnitPriceType ==
  ASSUME NEW category, NEW line \in LineItem
  PROVE  LET printed == readPrintedQuantity(category, line)
         IN  /\ unitPrice(category, line) \in Price
             /\ unitPrice(category, line) # NULL =>
                    /\ line.total \in Nat /\ Positive(line.total) /\ Positive(printed.quantity)
                    /\ toCanonicalQuantity(category, printed.quantity, printed.unit) \in Nat
<1> DEFINE printed == readPrintedQuantity(category, line)
           canonical == toCanonicalQuantity(category, printed.quantity, printed.unit)
<1>1. canonical \in (Nat \ {0}) \cup {NULL}
  BY PrintedType, CanonicalType
<1>2. line.total \in Amount
  BY DEF LineItem, Amount
<1>3. unitPrice(category, line) \in {NULL, (line.total * 1000) \div canonical}
  BY DEF unitPrice
<1>4. unitPrice(category, line) # NULL => Positive(line.total) /\ canonical # NULL
  BY DEF unitPrice
<1>5. canonical # NULL => Positive(printed.quantity)
  BY DEF toCanonicalQuantity
<1> HIDE DEF canonical, printed
<1>6. CASE unitPrice(category, line) # NULL
  <2>1. line.total \in Nat /\ canonical \in Nat \ {0} /\ Positive(line.total) /\ Positive(printed.quantity)
    BY <1>1, <1>2, <1>4, <1>5, <1>6 DEF Positive, Amount
  <2>2. line.total * 1000 \in Nat
    BY <2>1
  <2>3. (line.total * 1000) \div canonical \in Nat
    BY <2>1, <2>2
  <2> QED BY <1>3, <1>6, <2>1, <2>3 DEF Price, printed, canonical
<1>7. CASE unitPrice(category, line) = NULL
  BY <1>7 DEF Price
<1> QED BY <1>6, <1>7 DEF printed, canonical

LEMMA RowType ==
  ASSUME NEW line \in LineItem, NEW at \in Nat
  PROVE  /\ Row(line, at) \in RowRecord /\ Row(line, at).at = at
         /\ Row(line, at) = [Row(line, 0) EXCEPT !.at = at]
         /\ Row(line, at).price # NULL => /\ Row(line, at).category # NULL /\ Row(line, at).total \in Nat
                                          /\ Content(Row(line, at)) \in Nat
<1> DEFINE category == applyExclusions(toCategory(line.label), line.item, line.unit)
           printed == IF category = NULL THEN [quantity |-> line.quantity, unit |-> line.unit]
                      ELSE readPrintedQuantity(category, line)
           price == IF category = NULL THEN NULL ELSE unitPrice(category, line)
<1>1. category \in ITEM_CATEGORIES \cup {NULL}
  BY ToCategoryType DEF applyExclusions
<1>2. line.item \in DOMAIN Wording /\ line.total \in Amount /\ line.quantity \in Amount
      /\ line.unit \in DOMAIN PLAUSIBLE_QUANTITY \cup {NULL}
  BY DEF LineItem, Amount
<1>3. printed.quantity \in Amount /\ printed.unit \in DOMAIN PLAUSIBLE_QUANTITY \cup {NULL}
  BY <1>2, PrintedType
<1>4. price \in Price
  BY UnitPriceType DEF Price
<1>5. Storable(printed.quantity) \in Amount /\ Storable(line.total) \in Printed
  BY <1>2, <1>3, StorableType
<1>6. price # NULL =>
         /\ category # NULL /\ line.total \in Nat /\ Positive(line.total) /\ Positive(printed.quantity)
         /\ toCanonicalQuantity(category, printed.quantity, printed.unit) \in Nat
  BY UnitPriceType
<1>7. \A day : Row(line, day) = [item |-> line.item, category |-> category,
                                 quantity |-> Storable(printed.quantity), unit |-> printed.unit,
                                 total |-> Storable(line.total), source |-> "vision", at |-> day, price |-> price]
  BY DEF Row
<1> HIDE DEF category, printed, price
<1>8. Row(line, at) \in RowRecord /\ Row(line, at).at = at
  BY <1>1, <1>2, <1>3, <1>4, <1>5, <1>7 DEF RowRecord
<1>9. Row(line, at) = [Row(line, 0) EXCEPT !.at = at]
  BY <1>7
<1>10. price # NULL => /\ Row(line, at).category # NULL /\ Row(line, at).total \in Nat
                       /\ Content(Row(line, at)) \in Nat
  BY <1>6, <1>7 DEF Content, Storable
<1> QED BY <1>7, <1>8, <1>9, <1>10

Sourced(row, source) == [row EXCEPT !.source = source]

LEMMA RowFits ==
  ASSUME NEW paper \in Paper, NEW i \in DOMAIN paper.lines, NEW at \in Nat, NEW source \in {"vision", "seed"}
  PROVE  /\ Sourced(Row(paper.lines[i], at), source) \in ItemRow
         /\ Sourced(Row(paper.lines[i], at), source).at = at
<1>0. PICK row : row = Sourced(Row(paper.lines[i], at), source)
  OBVIOUS
<1>1. PICK line \in LineItem : line = paper.lines[i]
  <2>1. PICK lines \in Seq(LineItem) : lines = paper.lines
    BY PaperAssumption DEF IsPaper
  <2> QED BY <2>1
<1>2. PICK made, first : made = Row(line, at) /\ first = Row(line, 0)
  OBVIOUS
<1>3. /\ made \in RowRecord /\ made.at = at /\ first \in RowRecord /\ made = [first EXCEPT !.at = at]
      /\ made.price # NULL => made.category # NULL /\ made.total \in Nat /\ Content(made) \in Nat
  BY <1>2, RowType
<1>4. row = [made EXCEPT !.source = source]
  BY <1>0, <1>1, <1>2 DEF Sourced
<1>5. /\ row \in RowRecord /\ row.at = at
      /\ row.price = made.price /\ row.category = made.category /\ row.total = made.total
      /\ row.quantity = made.quantity /\ row.unit = made.unit
  BY <1>3, <1>4 DEF RowRecord
<1>6. /\ first.price = made.price /\ first.category = made.category /\ first.total = made.total
      /\ first.quantity = made.quantity /\ first.unit = made.unit
  BY <1>3 DEF RowRecord
<1>7. Content(row) = Content(made) /\ Content(first) = Content(made)
  BY <1>5, <1>6 DEF Content
<1>8. PricesDivide => Exact(first)
  BY <1>1, <1>2 DEF PricesDivide
<1>9. Coherent(row)
  BY <1>3, <1>5, <1>6, <1>7, <1>8 DEF Coherent, Exact
<1> QED BY <1>0, <1>5, <1>9 DEF ItemRow

LEMMA RowsType ==
  ASSUME NEW paper \in Paper, NEW at \in Nat
  PROVE  /\ toLineItemRows(paper.lines, at) \in Seq(ItemRow)
         /\ \A i \in DOMAIN toLineItemRows(paper.lines, at) : toLineItemRows(paper.lines, at)[i].at = at
<1>1. PICK lines \in Seq(LineItem) : lines = paper.lines
  BY PaperAssumption DEF IsPaper
<1>2. ASSUME NEW i \in DOMAIN lines PROVE Row(lines[i], at) \in ItemRow /\ Row(lines[i], at).at = at
  <2>1. PICK row : row = Row(lines[i], at)
    OBVIOUS
  <2>2. lines[i] \in LineItem
    BY <1>1
  <2>3. row \in RowRecord /\ row.source = "vision"
    BY <2>1, <2>2, RowType DEF Row
  <2>4. row = Sourced(row, "vision")
    BY <2>3 DEF RowRecord, Sourced
  <2>5. "vision" \in {"vision", "seed"}
    OBVIOUS
  <2>6. Sourced(Row(paper.lines[i], at), "vision") \in ItemRow /\ Sourced(Row(paper.lines[i], at), "vision").at = at
    BY <1>1, <2>5, RowFits
  <2> QED BY <1>1, <2>1, <2>4, <2>6
<1>3. DOMAIN lines = 1 .. Len(lines) /\ Len(lines) \in Nat
  OBVIOUS
<1>4. toLineItemRows(lines, at) = [i \in DOMAIN lines |-> Row(lines[i], at)]
  BY DEF toLineItemRows
<1>5. toLineItemRows(lines, at) \in [1 .. Len(lines) -> ItemRow]
  BY <1>2, <1>3, <1>4
<1>6. toLineItemRows(lines, at) \in Seq(ItemRow)
  BY <1>3, <1>5
<1> QED BY <1>1, <1>2, <1>4, <1>6

LEMMA InventedType ==
  ASSUME NEW r \in Receipt, today \in Nat
  PROVE  /\ Invented(r) \in Seq(ItemRow)
         /\ \A i \in DOMAIN Invented(r) : Invented(r)[i].at = today
<1>1. r.paper \in Paper
  BY DEF Receipt
<1>2. PICK lines \in Seq(LineItem) : lines = r.paper.lines
  BY <1>1, PaperAssumption DEF IsPaper
<1>3. DOMAIN lines = 1 .. Len(lines) /\ Len(lines) \in Nat
  OBVIOUS
<1> DEFINE Made(i) == [Row(lines[i], today) EXCEPT !.source = "seed"]
<1>4. \A i \in DOMAIN lines : Made(i) \in ItemRow /\ Made(i).at = today
  <2> SUFFICES ASSUME NEW i \in DOMAIN lines PROVE Made(i) \in ItemRow /\ Made(i).at = today
    OBVIOUS
  <2>1. PICK paper \in Paper : paper = r.paper
    BY <1>1
  <2>2. i \in DOMAIN paper.lines /\ "seed" \in {"vision", "seed"}
    BY <1>2, <2>1
  <2>3. Sourced(Row(paper.lines[i], today), "seed") \in ItemRow /\ Sourced(Row(paper.lines[i], today), "seed").at = today
    BY <2>2, RowFits
  <2>4. Made(i) = Sourced(Row(paper.lines[i], today), "seed")
    BY <1>2, <2>1 DEF Sourced
  <2> QED BY <2>3, <2>4
<1>5. Invented(r) = [i \in DOMAIN lines |-> Made(i)]
  BY <1>2 DEF Invented
<1> HIDE DEF Made
<1>6. Invented(r) \in [1 .. Len(lines) -> ItemRow]
  BY <1>3, <1>4, <1>5
<1>7. Invented(r) \in Seq(ItemRow)
  BY <1>3, <1>6
<1> QED BY <1>4, <1>5, <1>7

LEMMA CorpusStarts == CorpusInit => CorpusHolds
<1> SUFFICES ASSUME CorpusInit PROVE CorpusHolds
  OBVIOUS
<1>1. today = 0 /\ receipts = {} /\ IsFiniteSet({})
  BY FS_EmptySet DEF CorpusInit
<1> QED BY <1>1 DEF CorpusHolds, OnePaperEach, NoneIsYounger

(* What any step makes of a receipt: it keeps its paper, its verdict and   *)
(* the lines it has, and lines it is given are of today.                   *)
Grew(r, s) ==
    /\ s \in Receipt /\ s.paper = r.paper /\ (Settled(s) <=> Settled(r))
    /\ DOMAIN r.lines \subseteq DOMAIN s.lines
    /\ \A i \in DOMAIN r.lines : s.lines[i] = r.lines[i]
    /\ \A i \in DOMAIN s.lines \ DOMAIN r.lines : s.lines[i].at = today

\* A receipt with lines of today at the end of those it has.
LEMMA WithMoreLines ==
  ASSUME CorpusHolds, NEW r \in receipts, NEW rows \in Seq(ItemRow),
         \A i \in DOMAIN rows : rows[i].at = today,
         NEW new, new = [r EXCEPT !.lines = r.lines \o rows]
  PROVE  Grew(r, new)
<1> DEFINE all == r.lines \o rows
<1>1. r \in Receipt
  BY DEF CorpusHolds
<1>2. PICK old \in Seq(ItemRow) : old = r.lines
  BY <1>1 DEF Receipt
<1>3. all \in Seq(ItemRow) /\ Len(all) = Len(old) + Len(rows) /\ Len(old) \in Nat /\ Len(rows) \in Nat
      /\ DOMAIN all = 1 .. Len(all) /\ DOMAIN old = 1 .. Len(old) /\ DOMAIN rows = 1 .. Len(rows)
  BY <1>2
<1>4. \A i \in DOMAIN all : all[i] = IF i <= Len(old) THEN old[i] ELSE rows[i - Len(old)]
  BY <1>2, <1>3
<1>5. \A i \in DOMAIN old : i \in DOMAIN all /\ all[i] = old[i]
  BY <1>3, <1>4
<1>6. \A i \in DOMAIN all \ DOMAIN old : all[i].at = today
  <2> SUFFICES ASSUME NEW i \in DOMAIN all \ DOMAIN old PROVE all[i].at = today
    OBVIOUS
  <2>1. i - Len(old) \in DOMAIN rows /\ all[i] = rows[i - Len(old)]
    BY <1>3, <1>4
  <2> QED BY <2>1
<1>7. new \in Receipt /\ new.paper = r.paper /\ new.status = r.status /\ new.lines = all
  <2> HIDE DEF all
  <2>1. new = [r EXCEPT !.lines = all]
    BY DEF all
  <2> QED BY <1>1, <1>3, <2>1 DEF Receipt
<1> HIDE DEF all
<1> QED BY <1>2, <1>5, <1>6, <1>7 DEF Grew, Settled

OfToday(s) == /\ s \in Receipt /\ (\A r \in receipts : r.paper # s.paper)
              /\ \A i \in DOMAIN s.lines : s.lines[i].at = today

OnlyGrows ==
    /\ today' \in Nat /\ today <= today'
    /\ \A r \in receipts : \E s \in receipts' : Grew(r, s)
    /\ \A s \in receipts' : OfToday(s) \/ \E r \in receipts : Grew(r, s)
    /\ IsFiniteSet(receipts')
    /\ OnePaperEach'

LEMMA GrewSame == ASSUME CorpusHolds, NEW r \in receipts PROVE Grew(r, r)
BY DEF Grew, CorpusHolds

\* A step that writes a receipt anew.
LEMMA RewriteGrows ==
  ASSUME CorpusHolds, NEW r \in receipts, NEW new, Rewrite(r, new), Grew(r, new), today' = today
  PROVE  OnlyGrows
<1>1. receipts' = (receipts \ {r}) \cup {new}
  BY DEF Rewrite
<1>2. IsFiniteSet(receipts')
  <2>1. IsFiniteSet(receipts \ {r})
    BY Smaller DEF CorpusHolds
  <2> QED BY <1>1, <2>1, FS_AddElement
<1>3. \A q \in receipts : q.paper = r.paper => q = r
  BY DEF CorpusHolds, OnePaperEach
<1>4. new.paper = r.paper
  BY DEF Grew
<1>5. OnePaperEach'
  BY <1>1, <1>3, <1>4 DEF CorpusHolds, OnePaperEach
<1>6. \A q \in receipts : \E s \in receipts' : Grew(q, s)
  BY <1>1, GrewSame
<1>7. \A s \in receipts' : \E q \in receipts : Grew(q, s)
  BY <1>1, GrewSame
<1>8. today' \in Nat /\ today <= today'
  BY DEF CorpusHolds
<1> QED BY <1>2, <1>5, <1>6, <1>7, <1>8 DEF OnlyGrows

LEMMA TheSameGrows == ASSUME CorpusHolds, receipts' = receipts, today' \in Nat, today <= today' PROVE OnlyGrows
<1>1. IsFiniteSet(receipts') /\ OnePaperEach'
  BY DEF CorpusHolds, OnePaperEach
<1>2. \A r \in receipts : Grew(r, r)
  BY GrewSame
<1> QED BY <1>1, <1>2 DEF OnlyGrows

LEMMA UploadGrows ==
  ASSUME CorpusHolds, NEW paper \in Paper, NEW withLines \in BOOLEAN, analyzeReceipt(paper, withLines)
  PROVE  OnlyGrows
<1> DEFINE rows == IF withLines THEN toLineItemRows(paper.lines, today) ELSE <<>>
           new == [paper |-> paper, issued |-> today - paper.age, status |-> paper.verdict, lines |-> rows]
<1>1. receipts' = receipts \cup {new} /\ today' = today /\ \A r \in receipts : r.paper # paper
  BY DEF analyzeReceipt
<1>2. today \in Nat /\ paper.age \in Nat /\ paper.verdict \in Status
  BY PaperAssumption DEF CorpusHolds, Status, IsPaper
<1>3. rows \in Seq(ItemRow) /\ \A i \in DOMAIN rows : rows[i].at = today
  <2>1. CASE withLines
    BY <1>2, <2>1, RowsType
  <2>2. CASE ~ withLines
    BY <2>2
  <2> QED BY <2>1, <2>2
<1> HIDE DEF rows
<1>4. new \in Receipt /\ new.paper = paper /\ new.lines = rows
  BY <1>2, <1>3 DEF Receipt
<1> HIDE DEF new
<1>5. OfToday(new)
  BY <1>1, <1>3, <1>4 DEF OfToday
<1>6. IsFiniteSet(receipts')
  BY <1>1, FS_AddElement DEF CorpusHolds
<1>7. OnePaperEach'
  BY <1>1, <1>4 DEF CorpusHolds, OnePaperEach
<1>8. \A r \in receipts : \E s \in receipts' : Grew(r, s)
  BY <1>1, GrewSame
<1>9. \A s \in receipts' : OfToday(s) \/ \E r \in receipts : Grew(r, s)
  BY <1>1, <1>5, GrewSame
<1> QED BY <1>1, <1>2, <1>6, <1>7, <1>8, <1>9 DEF OnlyGrows

LEMMA ClaimGrows ==
  ASSUME CorpusHolds, NEW w \in Wallet, NEW settled \in SUBSET receipts, NEW nullifier, claim(w, settled, nullifier)
  PROVE  OnlyGrows
<1>1. receipts' = (receipts \ settled) \cup {Claimed(r) : r \in settled} /\ today' = today
  BY DEF claim
<1>2. \A r \in settled : r \in Receipt /\ r.status \in {"claimable", "rejected"}
  BY DEF claim, Unclaimed, CorpusHolds
<1>3. \A r \in settled : /\ Claimed(r) \in Receipt /\ Claimed(r).paper = r.paper /\ Claimed(r).lines = r.lines
                         /\ Claimed(r).status = IF r.status = "claimable" THEN "claimed" ELSE "rejected-claimed"
  BY <1>2 DEF Claimed, Receipt, Status
<1>4. \A r \in settled : Grew(r, Claimed(r))
  BY <1>2, <1>3 DEF Grew, Settled, SETTLED
<1>5. IsFiniteSet(receipts')
  <2>1. IsFiniteSet(receipts \ settled) /\ IsFiniteSet(settled)
    BY FS_Subset DEF CorpusHolds
  <2>2. PICK e : e = [r \in settled |-> Claimed(r)]
    OBVIOUS
  <2>3. PICK T : T = {Claimed(r) : r \in settled}
    OBVIOUS
  <2>4. e \in Surjection(settled, T)
    BY <2>2, <2>3 DEF Surjection
  <2>5. IsFiniteSet(T)
    BY <2>1, <2>4, FS_Surjection
  <2> QED BY <1>1, <2>1, <2>3, <2>5, FS_Union
<1>6. OnePaperEach'
  BY <1>1, <1>3 DEF CorpusHolds, OnePaperEach
<1>7. \A r \in receipts : \E s \in receipts' : Grew(r, s)
  BY <1>1, <1>4, GrewSame
<1>8. \A s \in receipts' : \E r \in receipts : Grew(r, s)
  BY <1>1, <1>4, GrewSame
<1>9. today' \in Nat /\ today <= today'
  BY <1>1 DEF CorpusHolds
<1> QED BY <1>5, <1>6, <1>7, <1>8, <1>9 DEF OnlyGrows

LEMMA BackfillGrows ==
  ASSUME CorpusHolds, NEW b \in Backfill, backfillWrite(b)
  PROVE  OnlyGrows
<1>1. PICK r \in receipts : Rewrite(r, [r EXCEPT !.lines = r.lines \o toLineItemRows(r.paper.lines, today)])
  BY DEF backfillWrite
<1>2. today' = today /\ today \in Nat /\ r \in Receipt
  BY DEF backfillWrite, CorpusHolds
<1>3. r.paper \in Paper
  BY <1>2 DEF Receipt
<1>4. PICK rows : rows = toLineItemRows(r.paper.lines, today)
  OBVIOUS
<1>5. rows \in Seq(ItemRow) /\ \A i \in DOMAIN rows : rows[i].at = today
  BY <1>2, <1>3, <1>4, RowsType
<1>6. PICK new : new = [r EXCEPT !.lines = r.lines \o rows]
  OBVIOUS
<1>7. Grew(r, new)
  BY <1>5, <1>6, WithMoreLines
<1> QED BY <1>1, <1>2, <1>4, <1>6, <1>7, RewriteGrows

LEMMA SeedGrows ==
  ASSUME CorpusHolds, NEW r \in receipts, seedLines(r)
  PROVE  OnlyGrows
<1>1. r \in Receipt /\ today \in Nat /\ today' = today /\ r.lines = <<>>
  BY DEF seedLines, CorpusHolds
<1>2. PICK rows : rows = Invented(r)
  OBVIOUS
<1>3. rows \in Seq(ItemRow) /\ \A i \in DOMAIN rows : rows[i].at = today
  BY <1>1, <1>2, InventedType
<1>4. PICK new : new = [r EXCEPT !.lines = rows]
  OBVIOUS
<1>5. new \in Receipt /\ new.paper = r.paper /\ new.status = r.status /\ new.lines = rows
  BY <1>1, <1>3, <1>4 DEF Receipt
<1>6. DOMAIN r.lines = {}
  BY <1>1
<1>7. Grew(r, new)
  BY <1>3, <1>5, <1>6 DEF Grew, Settled
<1> QED BY <1>1, <1>2, <1>4, <1>7, RewriteGrows DEF seedLines

\* Every step of the corpus, and a stutter.
LEMMA CorpusOnlyGrows == CorpusHolds /\ [CorpusNext]_corpusVars => OnlyGrows
<1> SUFFICES ASSUME CorpusHolds, [CorpusNext]_corpusVars PROVE OnlyGrows
  OBVIOUS
<1>1. CASE \E paper \in Paper, withLines \in BOOLEAN : analyzeReceipt(paper, withLines)
  BY <1>1, UploadGrows
<1>2. CASE \E w \in Wallet, settled \in SUBSET receipts, nullifier \in Human \cup {NULL} : claim(w, settled, nullifier)
  BY <1>2, ClaimGrows
<1>3. CASE \E r \in receipts : seedLines(r)
  BY <1>3, SeedGrows
<1>4. CASE \E b \in Backfill : backfillWrite(b)
  BY <1>4, BackfillGrows
<1>5. CASE \/ \E b \in Backfill : (\E r \in receipts : backfillPick(b, r)) \/ backfillCheck(b) \/ backfillFails(b)
           \/ UNCHANGED corpusVars
  <2>1. receipts' = receipts /\ today' = today
    BY <1>5 DEF backfillPick, backfillCheck, backfillFails, corpusVars
  <2> QED BY <2>1, TheSameGrows DEF CorpusHolds
<1>6. CASE DayPasses
  <2>1. receipts' = receipts /\ today' = today + 1
    BY <1>6 DEF DayPasses
  <2> QED BY <2>1, TheSameGrows DEF CorpusHolds
<1> QED BY <1>1, <1>2, <1>3, <1>4, <1>5, <1>6 DEF CorpusNext

LEMMA CorpusKept == CorpusHolds /\ [CorpusNext]_corpusVars => CorpusHolds'
<1> SUFFICES ASSUME CorpusHolds, OnlyGrows PROVE CorpusHolds'
  BY CorpusOnlyGrows
<1>1. receipts' \subseteq Receipt
  BY DEF OnlyGrows, OfToday, Grew
<1>2. NoneIsYounger'
  <2> SUFFICES ASSUME NEW s \in receipts', NEW i \in DOMAIN s.lines PROVE s.lines[i].at <= today'
    BY DEF NoneIsYounger
  <2>1. today \in Nat /\ today' \in Nat /\ today <= today'
    BY DEF OnlyGrows, CorpusHolds
  <2>2. CASE OfToday(s)
    BY <2>1, <2>2 DEF OfToday
  <2>3. ASSUME NEW r \in receipts, Grew(r, s) PROVE s.lines[i].at <= today'
    <3>1. CASE i \in DOMAIN r.lines
      <4>1. s.lines[i] = r.lines[i] /\ r.lines[i].at <= today
        BY <2>3, <3>1 DEF Grew, CorpusHolds, NoneIsYounger
      <4>2. r.lines[i].at \in Nat
        <5>1. PICK lines \in Seq(ItemRow) : lines = r.lines
          BY DEF CorpusHolds, Receipt
        <5>2. lines[i] \in ItemRow
          BY <3>1, <5>1
        <5> QED BY <5>1, <5>2 DEF ItemRow, RowRecord
      <4> QED BY <2>1, <4>1, <4>2
    <3>2. CASE i \notin DOMAIN r.lines
      BY <2>1, <2>3, <3>2 DEF Grew
    <3> QED BY <3>1, <3>2
  <2> QED BY <2>2, <2>3 DEF OnlyGrows
<1> QED BY <1>1, <1>2 DEF OnlyGrows, CorpusHolds

(* Receipts are of one paper each, typed, and no line is younger than the  *)
(* day it is.                                                              *)
THEOREM CorpusIsSound == CorpusSpec => []CorpusHolds
BY CorpusStarts, CorpusKept, PTL DEF CorpusSpec

-----------------------------------------------------------------------------
(* What others pay.                                                        *)

\* Whose the receipts behind a median are: never the reader's.
LEMMA OwnNeverCounts == OwnReceiptsNeverCount
<1> SUFFICES ASSUME NEW w \in Wallet, NEW country \in Countries,
                    OthersReceipts(w)' = OthersReceipts(w), today' = today
             PROVE  Going(w, country)' = Going(w, country)
  BY DEF OwnReceiptsNeverCount
<1>1. marketWindow(MarketDays, 0)' = marketWindow(MarketDays, 0)
  BY DEF marketWindow
<1>2. PICK window : window = marketWindow(MarketDays, 0)
  OBVIOUS
<1>3. ASSUME NEW c PROVE Behind(c, country, w, window)' = Behind(c, country, w, window)
  <2>1. Behind(c, country, w, window) =
            {r \in OthersReceipts(w) : /\ Settled(r) /\ r.paper.country = country
                                       /\ Within(r, window.since, window.until)
                                       /\ Seen(r, c) # {}}
    BY DEF Behind, OthersReceipts
  <2>2. Behind(c, country, w, window)' =
            {r \in OthersReceipts(w)' : /\ Settled(r) /\ r.paper.country = country
                                        /\ Within(r, window.since, window.until)
                                        /\ Seen(r, c) # {}}
    BY DEF Behind, OthersReceipts
  <2> QED BY <2>1, <2>2
<1>4. ASSUME NEW c PROVE marketUnitPrice(c, country, w, window)' = marketUnitPrice(c, country, w, window)
  BY <1>3 DEF marketUnitPrice
<1>5. ASSUME NEW c \in ITEM_CATEGORIES
      PROVE  marketUnitPrice(c, country, w, marketWindow(MarketDays, 0))'
                = marketUnitPrice(c, country, w, marketWindow(MarketDays, 0))
  <2>1. marketUnitPrice(c, country, w, marketWindow(MarketDays, 0))' = marketUnitPrice(c, country, w, window)'
    BY <1>1, <1>2 DEF marketUnitPrice, Behind
  <2> QED BY <1>2, <1>4, <2>1
<1>6. \A c \in ITEM_CATEGORIES : PriceOf(marketUnitPrice(c, country, w, marketWindow(MarketDays, 0)))'
                                    = PriceOf(marketUnitPrice(c, country, w, marketWindow(MarketDays, 0)))
  BY <1>5 DEF PriceOf
<1> QED BY <1>6 DEF Going

-----------------------------------------------------------------------------
(* The index by its parts: one price for a person and a product, and one   *)
(* for a product.                                                          *)

SameOf(observations, o) == {p \in observations : p.person = o.person /\ p.key = o.key}
PersonPrice(person, key, S) ==
    [person |-> person, key |-> key, price |-> Median2({<<p, p.price>> : p \in S}),
     expenditure |-> MapThenSumSet(LAMBDA p : p.expenditure, S), at |-> Max({p.at : p \in S})]
CappedFor(observations, o) == PersonPrice(o.person, o.key, SameOf(observations, o))
WithKey(observations, key) == {o \in observations : o.key = key}
PeriodPrice(S) ==
    [price |-> Median2({<<o, o.price>> : o \in S}),
     expenditure |-> MapThenSumSet(LAMBDA o : o.expenditure, S), people |-> {o.person : o \in S}]

LEMMA CapIs == \A observations : capPerPerson(observations) = {CappedFor(observations, o) : o \in observations}
BY DEF capPerPerson, CappedFor, PersonPrice, SameOf

LEMMA CollapseIs ==
  \A capped : collapseToPeriodPrices(capped) = [key \in {o.key : o \in capped} |-> PeriodPrice(WithKey(capped, key))]
BY DEF collapseToPeriodPrices, PeriodPrice, WithKey

LEMMA CappedKey == \A observations, o : CappedFor(observations, o).key = o.key
BY DEF CappedFor, PersonPrice

\* What a product costs is up to the observations of that product.
LEMMA CapOfKey ==
  ASSUME NEW A, NEW B, NEW key, WithKey(A, key) = WithKey(B, key)
  PROVE  WithKey(capPerPerson(A), key) = WithKey(capPerPerson(B), key)
<1>1. \A o \in WithKey(A, key) : SameOf(A, o) = SameOf(B, o)
  BY DEF SameOf, WithKey
<1>2. \A o \in WithKey(A, key) : CappedFor(A, o) = CappedFor(B, o)
  BY <1>1 DEF CappedFor
<1>3. \A S : WithKey(capPerPerson(S), key) = {CappedFor(S, o) : o \in WithKey(S, key)}
  <2> SUFFICES ASSUME NEW S PROVE WithKey(capPerPerson(S), key) = {CappedFor(S, o) : o \in WithKey(S, key)}
    OBVIOUS
  <2>1. capPerPerson(S) = {CappedFor(S, o) : o \in S}
    BY CapIs
  <2>2. \A o \in S : CappedFor(S, o).key = o.key
    BY CappedKey
  <2> HIDE DEF CappedFor
  <2> QED BY <2>1, <2>2 DEF WithKey
<1> QED BY <1>2, <1>3

LEMMA CapKeys == \A S : {o.key : o \in capPerPerson(S)} = {o.key : o \in S}
BY CapIs, CappedKey

KeysOf(S) == {o.key : o \in S}

LEMMA RelativesOfBoth ==
  ASSUME NEW P, NEW C, NEW h, NEW P2, NEW C2, NEW h2, NEW cut \in Int,
         \A l \in P \cup P2 : ObservedAt(l) \in Int /\ ObservedAt(l) < cut,
         \A l \in C \cup C2 : ObservedAt(l) \in Int /\ cut <= ObservedAt(l),
         ofBoth(P2, C2, h2) = ofBoth(P, C, h)
  PROVE  IndexOf(P2, C2, h2).relatives = IndexOf(P, C, h).relatives
<1>1. PICK B, N, B2, N2 : /\ B = toObservations(P, h) /\ N = toObservations(C, h)
                          /\ B2 = toObservations(P2, h2) /\ N2 = toObservations(C2, h2)
  OBVIOUS
<1>2. /\ \A o \in B \cup B2 : o.at \in Int /\ o.at < cut
      /\ \A o \in N \cup N2 : o.at \in Int /\ cut <= o.at
  BY <1>1 DEF toObservations, Observation
<1>3. PICK K, K2 : K = KeysOf(B) \cap KeysOf(N) /\ K2 = KeysOf(B2) \cap KeysOf(N2)
  OBVIOUS
<1>4. {o \in B \cup N : o.key \in K} = {o \in B2 \cup N2 : o.key \in K2}
  BY <1>1, <1>3, Zenon DEF ofBoth, KeysOf
<1>5. K = K2
  BY <1>3, <1>4 DEF KeysOf
<1>6. \A key \in K : WithKey(B, key) = WithKey(B2, key) /\ WithKey(N, key) = WithKey(N2, key)
  <2> SUFFICES ASSUME NEW key \in K
               PROVE  WithKey(B, key) = WithKey(B2, key) /\ WithKey(N, key) = WithKey(N2, key)
    OBVIOUS
  <2>1. \A o : o \in B \cap N2 \/ o \in N \cap B2 => FALSE
    BY <1>2
  <2> QED BY <1>4, <1>5, <2>1 DEF WithKey
<1>7. PICK b, n, b2, n2 : /\ b = capPerPerson(B) /\ n = capPerPerson(N)
                          /\ b2 = capPerPerson(B2) /\ n2 = capPerPerson(N2)
  OBVIOUS
<1>8. \A key \in K : WithKey(b, key) = WithKey(b2, key) /\ WithKey(n, key) = WithKey(n2, key)
  BY <1>6, <1>7, CapOfKey
<1>9. PICK p, c, p2, c2 : /\ p = collapseToPeriodPrices(b) /\ c = collapseToPeriodPrices(n)
                          /\ p2 = collapseToPeriodPrices(b2) /\ c2 = collapseToPeriodPrices(n2)
  OBVIOUS
<1>10. DOMAIN c \cap DOMAIN p = K /\ DOMAIN c2 \cap DOMAIN p2 = K
  <2>1. KeysOf(b) = KeysOf(B) /\ KeysOf(n) = KeysOf(N) /\ KeysOf(b2) = KeysOf(B2) /\ KeysOf(n2) = KeysOf(N2)
    BY <1>7, CapKeys DEF KeysOf
  <2>2. DOMAIN p = KeysOf(b) /\ DOMAIN c = KeysOf(n) /\ DOMAIN p2 = KeysOf(b2) /\ DOMAIN c2 = KeysOf(n2)
    BY <1>9, CollapseIs DEF KeysOf
  <2> QED BY <1>3, <1>5, <2>1, <2>2
<1>11. \A key \in K : p[key] = p2[key] /\ c[key] = c2[key]
  <2> SUFFICES ASSUME NEW key \in K PROVE p[key] = p2[key] /\ c[key] = c2[key]
    OBVIOUS
  <2>1. key \in DOMAIN p /\ key \in DOMAIN c /\ key \in DOMAIN p2 /\ key \in DOMAIN c2
    BY <1>10
  <2>2. p[key] = PeriodPrice(WithKey(b, key)) /\ c[key] = PeriodPrice(WithKey(n, key))
    BY <1>9, <2>1, CollapseIs
  <2>3. p2[key] = PeriodPrice(WithKey(b2, key)) /\ c2[key] = PeriodPrice(WithKey(n2, key))
    BY <1>9, <2>1, CollapseIs
  <2> QED BY <1>8, <2>2, <2>3
<1>12. priceRelatives(p, c) = priceRelatives(p2, c2)
  BY <1>10, <1>11 DEF priceRelatives
<1>13. /\ IndexOf(P, C, h).relatives = applyIntegrity(priceRelatives(p, c))
       /\ IndexOf(P2, C2, h2).relatives = applyIntegrity(priceRelatives(p2, c2))
  BY <1>1, <1>7, <1>9 DEF IndexOf
<1> QED BY <1>12, <1>13

\* The lines of a table, as pull finds them.
PulledFrom(table, country, from, to) ==
    {line \in UNION {{[receipt |-> r, at |-> i] : i \in DOMAIN r.lines} : r \in table} :
        /\ line.receipt.paper.country = country /\ line.receipt.paper.shop # NULL
        /\ Settled(line.receipt)
        /\ line.receipt.lines[line.at].source = "vision"
        /\ from <= ObservedAt(line) /\ ObservedAt(line) < to}

LEMMA PullIs == \A country, from, to :
    /\ pull(country, from, to) = PulledFrom(receipts, country, from, to)
    /\ pull(country, from, to)' = PulledFrom(receipts', country, from, to)
BY DEF pull, PulledFrom, Settled, ObservedAt

\* A line that may be pulled for a country.
Public(country, r, i) ==
    /\ r.paper.country = country /\ r.paper.shop # NULL /\ Settled(r)
    /\ r.lines[i].source = "vision"

LEMMA Pulled ==
  ASSUME NEW table, NEW country, NEW from, NEW to, NEW l
  PROVE  l \in PulledFrom(table, country, from, to) <=>
            \E r \in table : \E i \in DOMAIN r.lines :
                /\ l = [receipt |-> r, at |-> i] /\ Public(country, r, i)
                /\ from <= r.lines[i].at /\ r.lines[i].at < to
BY DEF PulledFrom, Public, ObservedAt

LEMMA LineType ==
  ASSUME NEW r \in Receipt, NEW i \in DOMAIN r.lines
  PROVE  r.lines[i] \in ItemRow /\ r.lines[i].at \in Nat
<1>1. PICK lines \in Seq(ItemRow) : lines = r.lines
  BY DEF Receipt
<1>2. lines[i] \in ItemRow
  BY <1>1
<1> QED BY <1>1, <1>2 DEF ItemRow, RowRecord

\* A receipt, or what one of its readers sees of it.
HasRows(r) == IsFiniteSet(DOMAIN r.lines) /\ \A i \in DOMAIN r.lines : r.lines[i] \in ItemRow

LEMMA ReceiptRows == \A r \in Receipt : HasRows(r)
<1> SUFFICES ASSUME NEW r \in Receipt PROVE IsFiniteSet(DOMAIN r.lines)
  BY LineType DEF HasRows
<1>1. PICK rows \in Seq(ItemRow) : rows = r.lines
  BY DEF Receipt
<1>2. DOMAIN rows = 1 .. Len(rows) /\ Len(rows) \in Nat
  OBVIOUS
<1> QED BY <1>1, <1>2, FS_Interval

LEMMA PulledType ==
  ASSUME NEW table, \A r \in table : HasRows(r), NEW country, NEW from, NEW to,
         NEW l \in PulledFrom(table, country, from, to)
  PROVE  /\ l.receipt \in table /\ l.at \in DOMAIN l.receipt.lines
         /\ l = [receipt |-> l.receipt, at |-> l.at]
         /\ l.receipt.lines[l.at] \in ItemRow /\ ObservedAt(l) \in Nat
         /\ from <= ObservedAt(l) /\ ObservedAt(l) < to
<1>1. PICK r \in table : \E i \in DOMAIN r.lines :
         /\ l = [receipt |-> r, at |-> i] /\ from <= r.lines[i].at /\ r.lines[i].at < to
  BY Pulled
<1>2. PICK i \in DOMAIN r.lines : l = [receipt |-> r, at |-> i] /\ from <= r.lines[i].at /\ r.lines[i].at < to
  BY <1>1
<1>3. r.lines[i] \in ItemRow /\ r.lines[i].at \in Nat
  BY DEF HasRows, ItemRow, RowRecord
<1> QED BY <1>2, <1>3 DEF ObservedAt

\* Products that are not in both windows move nothing.
LEMMA NewcomersDoNot == CorpusHolds /\ CorpusHolds' => NewcomersMoveNothing
<1> SUFFICES ASSUME CorpusHolds, CorpusHolds', NEW country \in IndexCountries, NEW t \in 1 .. (today + WindowDays),
                    ofBoth(Previous(country, t)', Current(country, t)', human')
                        = ofBoth(Previous(country, t), Current(country, t), human)
             PROVE  IndexOf(Previous(country, t)', Current(country, t)', human').relatives
                        = computeEpochIndex(country, t).relatives
  BY DEF NewcomersMoveNothing
<1>1. receipts \in SUBSET Receipt /\ receipts' \in SUBSET Receipt /\ today \in Nat
  BY DEF CorpusHolds
<1>2. PICK cut : cut = t - WindowDays
  OBVIOUS
<1>3. cut \in Int
  BY <1>1, <1>2, IndexAssumption
<1>4. PICK P, C, P2, C2 : /\ P = Previous(country, t) /\ C = Current(country, t)
                          /\ P2 = Previous(country, t)' /\ C2 = Current(country, t)'
  OBVIOUS
<1>5. /\ P = PulledFrom(receipts, country, t - 2 * WindowDays, cut)
      /\ C = PulledFrom(receipts, country, cut, t)
      /\ P2 = PulledFrom(receipts', country, t - 2 * WindowDays, cut)
      /\ C2 = PulledFrom(receipts', country, cut, t)
  BY <1>2, <1>4, PullIs DEF Previous, Current
<1>6. \A l \in P \cup P2 : ObservedAt(l) \in Int /\ ObservedAt(l) < cut
  BY <1>1, <1>5, ReceiptRows, PulledType
<1>7. \A l \in C \cup C2 : ObservedAt(l) \in Int /\ cut <= ObservedAt(l)
  BY <1>1, <1>5, ReceiptRows, PulledType
<1>8. PICK h, h2 : h = human /\ h2 = human'
  OBVIOUS
<1>9. ofBoth(P2, C2, h2) = ofBoth(P, C, h)
  BY <1>4, <1>8
<1>10. IndexOf(P2, C2, h2).relatives = IndexOf(P, C, h).relatives
  BY <1>3, <1>6, <1>7, <1>9, RelativesOfBoth
<1> QED BY <1>4, <1>8, <1>10 DEF computeEpochIndex

-----------------------------------------------------------------------------
(* A median is a matter of the values, not of what they were read from.    *)

Less(readings, v) == {q \in readings : q[2] < v}
AtMost(readings, v) == {q \in readings : q[2] <= v}
Ranked(readings, p, j) ==
    Cardinality(Less(readings, p[2])) < j /\ j <= Cardinality(AtMost(readings, p[2]))

LEMMA AtRankIs ==
  \A readings, j : AtRank(readings, j) = (CHOOSE p : p \in readings /\ Ranked(readings, p, j))[2]
BY Zenon DEF AtRank, Ranked, Less, AtMost

\* At most one value has a rank.
LEMMA RankIsOne ==
  ASSUME NEW R, IsFiniteSet(R), \A q \in R : q[2] \in Int, NEW j \in Int,
         NEW p \in R, NEW s \in R, Ranked(R, p, j), Ranked(R, s, j)
  PROVE  p[2] = s[2]
<1>1. ASSUME NEW x \in R, NEW y \in R, Ranked(R, x, j), Ranked(R, y, j), x[2] < y[2] PROVE FALSE
  <2>1. AtMost(R, x[2]) \subseteq Less(R, y[2]) /\ Less(R, y[2]) \subseteq R
    BY <1>1 DEF AtMost, Less
  <2>2. IsFiniteSet(Less(R, y[2])) /\ IsFiniteSet(AtMost(R, x[2]))
    BY <2>1, FS_Subset
  <2>3. Cardinality(AtMost(R, x[2])) <= Cardinality(Less(R, y[2]))
    BY <2>1, <2>2, FS_Subset
  <2>4. Cardinality(AtMost(R, x[2])) \in Nat /\ Cardinality(Less(R, y[2])) \in Nat
    BY <2>2, FS_CardinalityType
  <2> QED BY <1>1, <2>3, <2>4 DEF Ranked
<1> QED BY <1>1

\* Readings of the same values, one for one.
SameReadings(g, R, T) == g \in Bijection(R, T) /\ \A q \in R : g[q][2] = q[2]

LEMMA CountsAgree ==
  ASSUME NEW R, NEW T, IsFiniteSet(R), NEW g, SameReadings(g, R, T), NEW A \in SUBSET R, NEW B \in SUBSET T,
         \A q \in R : q \in A <=> g[q] \in B
  PROVE  Cardinality(A) = Cardinality(B)
<1>1. /\ \A q \in R : g[q] \in T
      /\ \A q, s \in R : g[q] = g[s] => q = s
      /\ \A y \in T : \E q \in R : g[q] = y
  BY DEF SameReadings, Bijection, Injection, Surjection, IsInjective
<1>2. PICK e : e = [q \in A |-> g[q]]
  OBVIOUS
<1>3. e \in Bijection(A, B)
  BY <1>1, <1>2 DEF Bijection, Injection, Surjection, IsInjective
<1>4. ExistsBijection(A, B) /\ IsFiniteSet(A)
  BY <1>3, FS_Subset DEF ExistsBijection
<1> QED BY <1>4, FS_Bijection

LEMMA RanksAgree ==
  ASSUME NEW R, NEW T, IsFiniteSet(R), IsFiniteSet(T), NEW g, SameReadings(g, R, T), NEW p \in R, NEW j
  PROVE  Ranked(R, p, j) <=> Ranked(T, g[p], j)
<1>1. \A q \in R : g[q] \in T /\ g[q][2] = q[2]
  BY DEF SameReadings, Bijection, Injection
<1>2. PICK v : v = p[2] /\ v = g[p][2]
  BY <1>1
<1>3. Cardinality(Less(R, v)) = Cardinality(Less(T, v))
  <2>1. Less(R, v) \in SUBSET R /\ Less(T, v) \in SUBSET T
    BY DEF Less
  <2>2. \A q \in R : q \in Less(R, v) <=> g[q] \in Less(T, v)
    BY <1>1 DEF Less
  <2> QED BY <2>1, <2>2, CountsAgree
<1>4. Cardinality(AtMost(R, v)) = Cardinality(AtMost(T, v))
  <2>1. AtMost(R, v) \in SUBSET R /\ AtMost(T, v) \in SUBSET T
    BY DEF AtMost
  <2>2. \A q \in R : q \in AtMost(R, v) <=> g[q] \in AtMost(T, v)
    BY <1>1 DEF AtMost
  <2> QED BY <2>1, <2>2, CountsAgree
<1> QED BY <1>2, <1>3, <1>4 DEF Ranked

LEMMA AtRankAgrees ==
  ASSUME NEW R, NEW T, IsFiniteSet(R), IsFiniteSet(T), NEW g, SameReadings(g, R, T),
         \A q \in R : q[2] \in Int, NEW j \in Int
  PROVE  AtRank(R, j) = AtRank(T, j)
<1>1. /\ \A q \in R : g[q] \in T /\ g[q][2] = q[2]
      /\ \A y \in T : \E q \in R : g[q] = y
  BY DEF SameReadings, Bijection, Injection, Surjection, IsInjective
<1>2. \A y \in T : y[2] \in Int
  BY <1>1
<1>3. CASE \E p \in R : Ranked(R, p, j)
  <2>1. PICK p : p = CHOOSE q : q \in R /\ Ranked(R, q, j)
    OBVIOUS
  <2>2. p \in R /\ Ranked(R, p, j)
    BY <1>3, <2>1, Zenon
  <2>3. g[p] \in T /\ Ranked(T, g[p], j) /\ g[p][2] = p[2]
    BY <1>1, <2>2, RanksAgree
  <2>4. PICK s : s = CHOOSE q : q \in T /\ Ranked(T, q, j)
    OBVIOUS
  <2>5. s \in T /\ Ranked(T, s, j)
    BY <2>3, <2>4, Zenon
  <2>6. s[2] = g[p][2]
    BY <1>2, <2>3, <2>5, RankIsOne
  <2> QED BY <2>1, <2>3, <2>4, <2>6, AtRankIs
<1>4. CASE ~ \E p \in R : Ranked(R, p, j)
  <2>1. ~ \E s \in T : Ranked(T, s, j)
    BY <1>1, <1>4, RanksAgree
  <2>2. \A p : (p \in R /\ Ranked(R, p, j)) <=> (p \in T /\ Ranked(T, p, j))
    BY <1>4, <2>1
  <2>3. (CHOOSE p : p \in R /\ Ranked(R, p, j)) = (CHOOSE p : p \in T /\ Ranked(T, p, j))
    BY <2>2, Zenon
  <2> QED BY <2>3, AtRankIs, Zenon
<1> QED BY <1>3, <1>4

LEMMA MediansAgree ==
  ASSUME NEW R, NEW T, IsFiniteSet(R), NEW g, SameReadings(g, R, T), \A q \in R : q[2] \in Int
  PROVE  Median2(R) = Median2(T)
<1>1. ExistsBijection(R, T)
  BY DEF SameReadings, ExistsBijection
<1>2. IsFiniteSet(T) /\ Cardinality(T) = Cardinality(R) /\ Cardinality(R) \in Nat
  BY <1>1, FS_Bijection, FS_CardinalityType
<1>3. PICK n \in Nat : n = Cardinality(R)
  BY <1>2
<1>4. (n + 1) \div 2 \in Int /\ n \div 2 + 1 \in Int
  OBVIOUS
<1>5. AtRank(R, (n + 1) \div 2) = AtRank(T, (n + 1) \div 2) /\ AtRank(R, n \div 2 + 1) = AtRank(T, n \div 2 + 1)
  BY <1>2, <1>4, AtRankAgrees
<1> QED BY <1>2, <1>3, <1>5 DEF Median2

-----------------------------------------------------------------------------
(* What a person paid for a product is a matter of the observations' data. *)

SpentOn(S) == [p \in S |-> p.expenditure]
AddsSpent(h, S) ==
    h = [s \in SUBSET S |-> IF s = {} THEN 0 ELSE First(s).expenditure + h[s \ {First(s)}]]

LEMMA SpentIs ==
  ASSUME NEW S, IsFiniteSet(S)
  PROVE  MapThenSumSet(LAMBDA p : p.expenditure, S) = SumFunctionOnSet(SpentOn(S), S)
<1>1. MapThenSumSet(LAMBDA p : p.expenditure, S) = (CHOOSE h : AddsSpent(h, S))[S]
  BY Zenon DEF MapThenSumSet, MapThenFoldSet, AddsSpent, First
<1>2. \A h : AddsSpent(h, S) <=> Adds(h, SpentOn(S), S)
  <2> SUFFICES ASSUME NEW h PROVE AddsSpent(h, S) <=> Adds(h, SpentOn(S), S)
    OBVIOUS
  <2>1. \A s \in SUBSET S : (IF s = {} THEN 0 ELSE First(s).expenditure + h[s \ {First(s)}]) = Term(h, SpentOn(S), s)
    BY FirstIsIn DEF Term, SpentOn
  <2> QED BY <2>1 DEF AddsSpent, Adds
<1>3. (CHOOSE h : AddsSpent(h, S)) = (CHOOSE h : Adds(h, SpentOn(S), S))
  BY <1>2, Zenon
<1>4. PICK h : h = CHOOSE x : Adds(x, SpentOn(S), S)
  OBVIOUS
<1>5. Adds(h, SpentOn(S), S)
  BY <1>4, AddsExists, Zenon
<1>6. PICK k : Adds(k, SpentOn(S), S) /\ SumFunctionOnSet(SpentOn(S), S) = k[S]
  BY SumIsAdded
<1>7. h[S] = k[S]
  <2>1. S \in SUBSET S
    OBVIOUS
  <2>2. \A s \in SUBSET S : h[s] = k[s]
    BY <1>5, <1>6, <2>1, AddsAgree
  <2> QED BY <2>1, <2>2
<1> QED BY <1>1, <1>3, <1>4, <1>6, <1>7

\* Two observations with the same data.
Alike(o, u) ==
    /\ u.person = o.person /\ u.key = o.key /\ u.at = o.at
    /\ u.price = o.price /\ o.price \in Int
    /\ u.expenditure = o.expenditure /\ o.expenditure \in Int

AlikeOneForOne(d, S, T) ==
    /\ \A p \in S : d[p] \in T /\ Alike(p, d[p])
    /\ \A p, q \in S : d[p] = d[q] => p = q
    /\ \A u \in T : \E p \in S : d[p] = u

LEMMA MedianPaid ==
  ASSUME NEW S, NEW T, IsFiniteSet(S), NEW d, AlikeOneForOne(d, S, T)
  PROVE  Median2({<<p, p.price>> : p \in S}) = Median2({<<p, p.price>> : p \in T})
<1>1. PICK R, V : R = {<<p, p.price>> : p \in S} /\ V = {<<p, p.price>> : p \in T}
  OBVIOUS
<1>2. IsFiniteSet(R)
  <2>1. PICK f : f = [p \in S |-> <<p, p.price>>]
    OBVIOUS
  <2>2. f \in Surjection(S, R)
    BY <1>1, <2>1 DEF Surjection
  <2> QED BY <2>2, FS_Surjection
<1>3. PICK g : g = [q \in R |-> <<d[q[1]], q[2]>>]
  OBVIOUS
<1>4. \A q \in R : q[1] \in S /\ q = <<q[1], q[1].price>> /\ q[2] = q[1].price /\ q[2] \in Int
  BY <1>1 DEF AlikeOneForOne, Alike
<1>5. \A q \in R : g[q] = <<d[q[1]], q[2]>> /\ g[q] \in V
  BY <1>1, <1>3, <1>4 DEF AlikeOneForOne, Alike
<1>6. \A q, s \in R : g[q] = g[s] => q = s
  BY <1>4, <1>5 DEF AlikeOneForOne
<1>7. \A y \in V : \E q \in R : g[q] = y
  <2> SUFFICES ASSUME NEW u \in T PROVE \E q \in R : g[q] = <<u, u.price>>
    BY <1>1
  <2>1. PICK p \in S : d[p] = u
    BY DEF AlikeOneForOne
  <2>2. u.price = p.price /\ <<p, p.price>> \in R
    BY <1>1, <2>1 DEF AlikeOneForOne, Alike
  <2>3. g[<<p, p.price>>] = <<u, u.price>>
    BY <1>5, <2>1, <2>2
  <2> QED BY <2>2, <2>3
<1>8. g \in Bijection(R, V)
  <2>1. g \in [R -> V]
    BY <1>3, <1>5
  <2> QED BY <1>6, <1>7, <2>1 DEF Bijection, Injection, Surjection, IsInjective
<1>9. SameReadings(g, R, V)
  BY <1>5, <1>8 DEF SameReadings
<1> QED BY <1>1, <1>2, <1>4, <1>9, MediansAgree

LEMMA SumPaid ==
  ASSUME NEW S, NEW T, IsFiniteSet(S), NEW d, AlikeOneForOne(d, S, T)
  PROVE  MapThenSumSet(LAMBDA p : p.expenditure, S) = MapThenSumSet(LAMBDA p : p.expenditure, T)
<1>1. PICK f, k : f = SpentOn(T) /\ k = SpentOn(S)
  OBVIOUS
<1>2. \A p, q \in S : d[p] = d[q] => p = q
  BY DEF AlikeOneForOne
<1>3. \A p \in S : f[d[p]] = k[p] /\ k[p] \in Int
  BY <1>1 DEF SpentOn, AlikeOneForOne, Alike
<1>4. SameSum(f, d, k, S)
  BY <1>2, <1>3, SumRenamed
<1>5. ImageOf(d, S) = T
  BY DEF ImageOf, AlikeOneForOne
<1>6. IsFiniteSet(T) /\ SumFunctionOnSet(f, T) = SumFunctionOnSet(k, S)
  BY <1>4, <1>5 DEF SameSum
<1>7. MapThenSumSet(LAMBDA p : p.expenditure, S) = SumFunctionOnSet(k, S)
  BY <1>1, SpentIs
<1>8. MapThenSumSet(LAMBDA p : p.expenditure, T) = SumFunctionOnSet(f, T)
  BY <1>1, <1>6, SpentIs
<1> QED BY <1>6, <1>7, <1>8

LEMMA PricesPaid ==
  ASSUME NEW S, NEW T, IsFiniteSet(S), NEW d, AlikeOneForOne(d, S, T), NEW person, NEW key
  PROVE  PersonPrice(person, key, S) = PersonPrice(person, key, T)
<1>1. {p.at : p \in S} = {p.at : p \in T}
  BY DEF AlikeOneForOne, Alike
<1>2. Median2({<<p, p.price>> : p \in S}) = Median2({<<p, p.price>> : p \in T})
  BY MedianPaid
<1>3. MapThenSumSet(LAMBDA p : p.expenditure, S) = MapThenSumSet(LAMBDA p : p.expenditure, T)
  BY SumPaid
<1> QED BY <1>1, <1>2, <1>3, Zenon DEF PersonPrice

LEMMA CapsAgree ==
  ASSUME NEW A, NEW B, IsFiniteSet(A), NEW e, AlikeOneForOne(e, A, B)
  PROVE  capPerPerson(A) = capPerPerson(B)
<1>1. ASSUME NEW o \in A PROVE CappedFor(A, o) = CappedFor(B, e[o])
  <2>1. PICK S, T : S = SameOf(A, o) /\ T = SameOf(B, e[o])
    OBVIOUS
  <2>2. e[o] \in B /\ e[o].person = o.person /\ e[o].key = o.key
    BY DEF AlikeOneForOne, Alike
  <2>3. S \subseteq A /\ IsFiniteSet(S)
    BY <2>1, FS_Subset DEF SameOf
  <2>4. AlikeOneForOne(e, S, T)
    <3>1. \A p \in S : e[p] \in T /\ Alike(p, e[p])
      BY <2>1, <2>2 DEF SameOf, AlikeOneForOne, Alike
    <3>2. \A p, q \in S : e[p] = e[q] => p = q
      BY <2>3 DEF AlikeOneForOne
    <3>3. \A u \in T : \E p \in S : e[p] = u
      BY <2>1, <2>2 DEF SameOf, AlikeOneForOne, Alike
    <3> QED BY <3>1, <3>2, <3>3 DEF AlikeOneForOne
  <2>5. PersonPrice(o.person, o.key, S) = PersonPrice(o.person, o.key, T)
    BY <2>3, <2>4, PricesPaid
  <2> QED BY <2>1, <2>2, <2>5 DEF CappedFor
<1>2. \A u \in B : \E o \in A : e[o] = u
  BY DEF AlikeOneForOne
<1>3. \A o \in A : e[o] \in B
  BY DEF AlikeOneForOne
<1>4. {CappedFor(A, o) : o \in A} = {CappedFor(B, u) : u \in B}
  <2> HIDE DEF CappedFor
  <2> QED BY <1>1, <1>2, <1>3
<1> QED BY <1>4, CapIs

-----------------------------------------------------------------------------
(* Lines of two tables that are the same lines: of the same papers, at the *)
(* same places, reading the same.                                          *)

Mark(l) == <<l.receipt.paper, l.at, l.receipt.lines[l.at]>>
MarksOf(lines) == {Mark(l) : l \in lines}

\* Lines as they are pulled from a table with one receipt for a paper.
Distinct(lines) ==
    /\ IsFiniteSet(lines)
    /\ \A l, k \in lines : Mark(l) = Mark(k) => l = k
    /\ \A l \in lines : l.receipt.lines[l.at] \in ItemRow

LEMMA PricedType ==
  ASSUME NEW row \in ItemRow, PriceOn(row) \notin {NULL, 0}
  PROVE  /\ PriceOn(row) \in Nat \ {0}
         /\ (IF row.total \in {NULL, 0} THEN PriceOn(row) ELSE row.total) \in Nat \ {0}
BY DEF PriceOn, ItemRow, RowRecord, Printed, Price

Observable(l) == PriceOn(l.receipt.lines[l.at]) \notin {NULL, 0}

LEMMA ObservationsAre ==
  \A lines, h : toObservations(lines, h) = {Observation(l, h) : l \in {l \in lines : Observable(l)}}
BY DEF toObservations, Observable

LEMMA SameMarkAlike ==
  ASSUME NEW l, NEW k, NEW h, Mark(l) = Mark(k), l.receipt.lines[l.at] \in ItemRow, Observable(l)
  PROVE  Observable(k) /\ Alike(Observation(l, h), Observation(k, h))
<1>1. PICK row : row = l.receipt.lines[l.at]
  OBVIOUS
<1>2. k.receipt.paper = l.receipt.paper /\ k.at = l.at /\ k.receipt.lines[k.at] = row
  BY <1>1 DEF Mark
<1>3. row \in ItemRow /\ PriceOn(row) \notin {NULL, 0}
  BY <1>1 DEF Observable
<1>4. PICK price, spent : price = PriceOn(row) /\ spent = IF row.total \in {NULL, 0} THEN PriceOn(row) ELSE row.total
  OBVIOUS
<1>5. price \in Int /\ spent \in Int
  BY <1>3, <1>4, PricedType
<1>6. PICK person, key : person = personOf(h, l.receipt.paper.wallet) /\ key = <<l.receipt.paper.shop, row.item>>
  OBVIOUS
<1>7. Observation(l, h) = [line |-> l, key |-> key, person |-> person, price |-> price,
                           expenditure |-> spent, at |-> row.at]
  BY <1>1, <1>4, <1>6 DEF Observation, ObservedAt
<1>8. Observation(k, h) = [line |-> k, key |-> key, person |-> person, price |-> price,
                           expenditure |-> spent, at |-> row.at]
  BY <1>2, <1>4, <1>6 DEF Observation, ObservedAt
<1>9. Alike(Observation(l, h), Observation(k, h))
  BY <1>5, <1>7, <1>8 DEF Alike
<1> QED BY <1>2, <1>3, <1>9 DEF Observable

LEMMA ObservedFinite ==
  ASSUME NEW lines, IsFiniteSet(lines), NEW h
  PROVE  IsFiniteSet(toObservations(lines, h))
<1>1. PICK S : S = {l \in lines : Observable(l)}
  OBVIOUS
<1>2. IsFiniteSet(S)
  BY <1>1, FS_Subset
<1>3. PICK f : f = [l \in S |-> Observation(l, h)]
  OBVIOUS
<1>4. f \in Surjection(S, toObservations(lines, h))
  <2>1. toObservations(lines, h) = {Observation(l, h) : l \in S}
    BY <1>1, ObservationsAre
  <2> QED BY <1>3, <2>1 DEF Surjection
<1> QED BY <1>2, <1>4, FS_Surjection

LEMMA SameMarksSameCaps ==
  ASSUME NEW P, NEW Q, NEW h, Distinct(P), Distinct(Q), MarksOf(P) = MarksOf(Q)
  PROVE  capPerPerson(toObservations(P, h)) = capPerPerson(toObservations(Q, h))
<1>1. PICK A, B : A = toObservations(P, h) /\ B = toObservations(Q, h)
  OBVIOUS
<1>2. IsFiniteSet(A)
  BY <1>1, ObservedFinite DEF Distinct
<1>3. /\ \A l \in P : \E k \in Q : Mark(k) = Mark(l)
      /\ \A k \in Q : \E l \in P : Mark(k) = Mark(l)
  BY DEF MarksOf
<1>4. \A l : Observation(l, h).line = l
  BY DEF Observation
<1>5. /\ \A o \in A : o.line \in P /\ Observable(o.line) /\ o = Observation(o.line, h)
      /\ \A o \in B : o.line \in Q /\ Observable(o.line) /\ o = Observation(o.line, h)
      /\ \A l \in P : Observable(l) => Observation(l, h) \in A
      /\ \A l \in Q : Observable(l) => Observation(l, h) \in B
  BY <1>1, <1>4, ObservationsAre
<1>6. ASSUME NEW o \in A PROVE \E u \in B : Mark(u.line) = Mark(o.line)
  <2>1. PICK k \in Q : Mark(k) = Mark(o.line)
    BY <1>3, <1>5
  <2>2. o.line.receipt.lines[o.line.at] \in ItemRow
    BY <1>5 DEF Distinct
  <2>3. Observable(k)
    BY <1>5, <2>1, <2>2, SameMarkAlike
  <2> QED BY <1>4, <1>5, <2>1, <2>3
<1>7. PICK e : e = [o \in A |-> CHOOSE u : u \in B /\ Mark(u.line) = Mark(o.line)]
  OBVIOUS
<1>8. \A o \in A : e[o] \in B /\ Mark(e[o].line) = Mark(o.line)
  <2> SUFFICES ASSUME NEW o \in A PROVE e[o] \in B /\ Mark(e[o].line) = Mark(o.line)
    OBVIOUS
  <2>1. \E u : u \in B /\ Mark(u.line) = Mark(o.line)
    BY <1>6
  <2>2. e[o] = CHOOSE u : u \in B /\ Mark(u.line) = Mark(o.line)
    BY <1>7
  <2> QED BY <2>1, <2>2, Zenon
<1>9. \A o \in A : Alike(o, e[o])
  <2> SUFFICES ASSUME NEW o \in A PROVE Alike(o, e[o])
    OBVIOUS
  <2>1. o.line.receipt.lines[o.line.at] \in ItemRow /\ Observable(o.line)
    BY <1>5 DEF Distinct
  <2>2. Alike(Observation(o.line, h), Observation(e[o].line, h))
    BY <1>8, <2>1, SameMarkAlike
  <2>3. o = Observation(o.line, h) /\ e[o] = Observation(e[o].line, h)
    BY <1>5, <1>8
  <2> QED BY <2>2, <2>3
<1>10. \A o, u \in A : e[o] = e[u] => o = u
  <2> SUFFICES ASSUME NEW o \in A, NEW u \in A, e[o] = e[u] PROVE o = u
    OBVIOUS
  <2>1. Mark(o.line) = Mark(u.line)
    BY <1>8
  <2>2. o.line = u.line
    BY <1>5, <2>1 DEF Distinct
  <2> QED BY <1>5, <2>2
<1>11. \A u \in B : \E o \in A : e[o] = u
  <2> SUFFICES ASSUME NEW u \in B PROVE \E o \in A : e[o] = u
    OBVIOUS
  <2>1. PICK l \in P : Mark(u.line) = Mark(l)
    BY <1>3, <1>5
  <2>2. u.line.receipt.lines[u.line.at] \in ItemRow /\ Observable(u.line)
    BY <1>5 DEF Distinct
  <2>3. Observable(l)
    BY <2>1, <2>2, SameMarkAlike
  <2>4. PICK o \in A : o.line = l
    BY <1>4, <1>5, <2>3
  <2>5. Mark(e[o].line) = Mark(u.line)
    BY <1>8, <2>1, <2>4
  <2>6. e[o].line = u.line
    BY <1>5, <1>8, <2>5 DEF Distinct
  <2> QED BY <1>5, <1>8, <2>6
<1>12. AlikeOneForOne(e, A, B)
  BY <1>8, <1>9, <1>10, <1>11 DEF AlikeOneForOne
<1> QED BY <1>1, <1>2, <1>12, CapsAgree

\* What is published of two windows is up to what each person paid in them.
LEMMA IndexOfCaps ==
  ASSUME NEW P, NEW C, NEW P2, NEW C2, NEW h,
         capPerPerson(toObservations(P2, h)) = capPerPerson(toObservations(P, h)),
         capPerPerson(toObservations(C2, h)) = capPerPerson(toObservations(C, h))
  PROVE  IndexOf(P2, C2, h) = IndexOf(P, C, h)
BY Zenon DEF IndexOf

\* A table has finitely many lines.
LEMMA LinesAreFinite ==
  ASSUME NEW table, \A r \in table : HasRows(r), IsFiniteSet(table)
  PROVE  IsFiniteSet(LinesOf(table))
<1> DEFINE Of(r) == {[receipt |-> r, at |-> i] : i \in DOMAIN r.lines}
<1>1. \A r \in table : IsFiniteSet(Of(r))
  <2> SUFFICES ASSUME NEW r \in table PROVE IsFiniteSet(Of(r))
    OBVIOUS
  <2>1. IsFiniteSet(DOMAIN r.lines)
    BY DEF HasRows
  <2>2. PICK f : f = [i \in DOMAIN r.lines |-> [receipt |-> r, at |-> i]]
    OBVIOUS
  <2>3. f \in Surjection(DOMAIN r.lines, Of(r))
    BY <2>2 DEF Surjection
  <2> QED BY <2>1, <2>3, FS_Surjection
<1> HIDE DEF Of
<1>2. IsFiniteSet(UNION {Of(r) : r \in table})
  <2>1. PICK all : all = {Of(r) : r \in table}
    OBVIOUS
  <2>2. PICK f : f = [r \in table |-> Of(r)]
    OBVIOUS
  <2>3. f \in Surjection(table, all)
    BY <2>1, <2>2 DEF Surjection
  <2>4. IsFiniteSet(all)
    BY <2>3, FS_Surjection
  <2> QED BY <1>1, <2>1, <2>4, FS_UNION
<1> QED BY <1>2 DEF LinesOf, Of

LEMMA PulledDistinct ==
  ASSUME NEW table, \A r \in table : HasRows(r), IsFiniteSet(table), \A r, s \in table : r.paper = s.paper => r = s,
         NEW country, NEW from, NEW to
  PROVE  Distinct(PulledFrom(table, country, from, to))
<1>1. PICK lines : lines = PulledFrom(table, country, from, to)
  OBVIOUS
<1>2. IsFiniteSet(lines)
  <2>1. lines \subseteq LinesOf(table)
    BY <1>1 DEF PulledFrom, LinesOf
  <2> QED BY <2>1, LinesAreFinite, FS_Subset
<1>3. \A l \in lines : /\ l.receipt \in table /\ l = [receipt |-> l.receipt, at |-> l.at]
                       /\ l.receipt.lines[l.at] \in ItemRow
  BY <1>1, PulledType
<1>4. \A l, k \in lines : Mark(l) = Mark(k) => l = k
  <2> SUFFICES ASSUME NEW l \in lines, NEW k \in lines, Mark(l) = Mark(k) PROVE l = k
    OBVIOUS
  <2>1. l.receipt.paper = k.receipt.paper /\ l.at = k.at
    BY DEF Mark
  <2>2. l.receipt = k.receipt
    BY <1>3, <2>1
  <2> QED BY <1>3, <2>1, <2>2
<1> QED BY <1>1, <1>2, <1>3, <1>4 DEF Distinct

\* The lines of a window, for any table.
LEMMA MarksAre ==
  ASSUME NEW table, NEW country, NEW from, NEW to, NEW m
  PROVE  m \in MarksOf(PulledFrom(table, country, from, to)) <=>
            \E r \in table : \E i \in DOMAIN r.lines :
                /\ m = <<r.paper, i, r.lines[i]>> /\ Public(country, r, i)
                /\ from <= r.lines[i].at /\ r.lines[i].at < to
<1>1. PICK lines : lines = PulledFrom(table, country, from, to)
  OBVIOUS
<1>2. ASSUME NEW l \in lines, m = Mark(l)
      PROVE  \E r \in table : \E i \in DOMAIN r.lines :
                  /\ m = <<r.paper, i, r.lines[i]>> /\ Public(country, r, i)
                  /\ from <= r.lines[i].at /\ r.lines[i].at < to
  BY <1>1, <1>2, Pulled DEF Mark
<1>3. ASSUME NEW r \in table, NEW i \in DOMAIN r.lines,
             m = <<r.paper, i, r.lines[i]>> /\ Public(country, r, i)
             /\ from <= r.lines[i].at /\ r.lines[i].at < to
      PROVE  \E l \in lines : m = Mark(l)
  <2>1. PICK l : l = [receipt |-> r, at |-> i]
    OBVIOUS
  <2>2. l \in lines
    BY <1>1, <1>3, <2>1, Pulled
  <2>3. Mark(l) = <<r.paper, i, r.lines[i]>>
    BY <2>1 DEF Mark
  <2> QED BY <1>3, <2>2, <2>3
<1> QED BY <1>1, <1>2, <1>3 DEF MarksOf

\* A window that ends by today has the same lines after a step.
LEMMA MarksStay ==
  ASSUME CorpusHolds, OnlyGrows, NEW country, NEW from \in Int, NEW to \in Int, to <= today
  PROVE  MarksOf(PulledFrom(receipts', country, from, to)) = MarksOf(PulledFrom(receipts, country, from, to))
<1>1. receipts \in SUBSET Receipt /\ receipts' \in SUBSET Receipt /\ today \in Nat
  BY DEF CorpusHolds, OnlyGrows, Grew, OfToday
<1>2. \A table, m : m \in MarksOf(PulledFrom(table, country, from, to)) <=>
        \E r \in table : \E i \in DOMAIN r.lines :
            /\ m = <<r.paper, i, r.lines[i]>> /\ Public(country, r, i)
            /\ from <= r.lines[i].at /\ r.lines[i].at < to
  BY MarksAre
<1>3. ASSUME NEW r \in receipts, NEW s \in receipts', Grew(r, s), NEW i \in DOMAIN r.lines
      PROVE  /\ i \in DOMAIN s.lines /\ s.lines[i] = r.lines[i] /\ s.paper = r.paper
             /\ Public(country, s, i) <=> Public(country, r, i)
  BY <1>3 DEF Grew, Public
<1>4. ASSUME NEW m, m \in MarksOf(PulledFrom(receipts, country, from, to))
      PROVE  m \in MarksOf(PulledFrom(receipts', country, from, to))
  <2>1. PICK r \in receipts : \E i \in DOMAIN r.lines :
                    /\ m = <<r.paper, i, r.lines[i]>> /\ Public(country, r, i)
                    /\ from <= r.lines[i].at /\ r.lines[i].at < to
    BY <1>1, <1>2, <1>4
  <2>2. PICK i \in DOMAIN r.lines :
                    /\ m = <<r.paper, i, r.lines[i]>> /\ Public(country, r, i)
                    /\ from <= r.lines[i].at /\ r.lines[i].at < to
    BY <2>1
  <2>3. PICK s \in receipts' : Grew(r, s)
    BY DEF OnlyGrows
  <2>4. /\ i \in DOMAIN s.lines /\ m = <<s.paper, i, s.lines[i]>> /\ Public(country, s, i)
        /\ from <= s.lines[i].at /\ s.lines[i].at < to
    BY <1>3, <2>2, <2>3
  <2> QED BY <1>1, <1>2, <2>4
<1>5. ASSUME NEW m, m \in MarksOf(PulledFrom(receipts', country, from, to))
      PROVE  m \in MarksOf(PulledFrom(receipts, country, from, to))
  <2>1. PICK s \in receipts' : \E i \in DOMAIN s.lines :
                    /\ m = <<s.paper, i, s.lines[i]>> /\ Public(country, s, i)
                    /\ from <= s.lines[i].at /\ s.lines[i].at < to
    BY <1>1, <1>2, <1>5
  <2>2. PICK i \in DOMAIN s.lines :
                    /\ m = <<s.paper, i, s.lines[i]>> /\ Public(country, s, i)
                    /\ from <= s.lines[i].at /\ s.lines[i].at < to
    BY <2>1
  <2>3. s.lines[i].at # today
    BY <1>1, <2>2
  <2>4. PICK r \in receipts : Grew(r, s)
    BY <2>2, <2>3 DEF OnlyGrows, OfToday
  <2>5. i \in DOMAIN r.lines
    BY <2>2, <2>3, <2>4 DEF Grew
  <2>6. /\ m = <<r.paper, i, r.lines[i]>> /\ Public(country, r, i)
        /\ from <= r.lines[i].at /\ r.lines[i].at < to
    BY <1>3, <2>2, <2>4, <2>5
  <2> QED BY <1>1, <1>2, <2>5, <2>6
<1> QED BY <1>4, <1>5

\* So an index whose window has closed stays as it is.
LEMMA ClosedWindowsStand == CorpusHolds /\ OnlyGrows => ClosedWindowStands
<1> SUFFICES ASSUME CorpusHolds, OnlyGrows, human' = human, NEW country \in IndexCountries, NEW t \in Closes
             PROVE  IndexOf(Previous(country, t)', Current(country, t)', human')
                        = computeEpochIndex(country, t)
  BY DEF ClosedWindowStands
<1>1. /\ receipts \in SUBSET Receipt /\ receipts' \in SUBSET Receipt
      /\ IsFiniteSet(receipts) /\ IsFiniteSet(receipts')
      /\ \A r, s \in receipts : r.paper = s.paper => r = s
      /\ \A r, s \in receipts' : r.paper = s.paper => r = s
  BY DEF CorpusHolds, OnlyGrows, Grew, OfToday, OnePaperEach
<1>2. t \in Int /\ t - WindowDays \in Int /\ t - 2 * WindowDays \in Int /\ t <= today /\ t - WindowDays <= today
  BY IndexAssumption DEF Closes, CorpusHolds
<1>3. PICK P, C, P2, C2 : /\ P = Previous(country, t) /\ C = Current(country, t)
                          /\ P2 = Previous(country, t)' /\ C2 = Current(country, t)'
  OBVIOUS
<1>4. /\ P = PulledFrom(receipts, country, t - 2 * WindowDays, t - WindowDays)
      /\ C = PulledFrom(receipts, country, t - WindowDays, t)
      /\ P2 = PulledFrom(receipts', country, t - 2 * WindowDays, t - WindowDays)
      /\ C2 = PulledFrom(receipts', country, t - WindowDays, t)
  BY <1>3, PullIs DEF Previous, Current
<1>5. Distinct(P) /\ Distinct(C) /\ Distinct(P2) /\ Distinct(C2)
  BY <1>1, <1>4, ReceiptRows, PulledDistinct
<1>6. MarksOf(P2) = MarksOf(P) /\ MarksOf(C2) = MarksOf(C)
  BY <1>2, <1>4, MarksStay
<1>7. PICK h : h = human /\ h = human'
  OBVIOUS
<1>8. /\ capPerPerson(toObservations(P2, h)) = capPerPerson(toObservations(P, h))
      /\ capPerPerson(toObservations(C2, h)) = capPerPerson(toObservations(C, h))
  BY <1>5, <1>6, SameMarksSameCaps
<1>9. IndexOf(P2, C2, h) = IndexOf(P, C, h)
  BY <1>8, IndexOfCaps
<1> QED BY <1>3, <1>7, <1>9 DEF computeEpochIndex

(* Whatever is read, claimed, filled in or invented, and however operators *)
(* race: an index stands once its window has closed, an open one moves     *)
(* only with products that have a price on both sides, and what others pay *)
(* does not move with one's own receipts.                                  *)
THEOREM NumbersStand == CorpusSpec => ShownNumbersStand
<1>1. CorpusHolds /\ CorpusHolds' /\ [CorpusNext]_corpusVars =>
        [ClosedWindowStands /\ NewcomersMoveNothing /\ OwnReceiptsNeverCount]_corpusVars
  BY CorpusOnlyGrows, ClosedWindowsStand, NewcomersDoNot, OwnNeverCounts
<1> QED BY CorpusIsSound, <1>1, PTL DEF CorpusSpec, ShownNumbersStand

-----------------------------------------------------------------------------
(* The screens of one wallet: a month with its drill-downs.                *)

IsLines(lines) == IsFiniteSet(lines) /\ \A line \in lines : Entry(line) \in ItemRow

TotalOf(line) == IF Entry(line).total = NULL THEN 0 ELSE Entry(line).total
TotalsOn(lines) == [line \in lines |-> TotalOf(line)]

LEMMA TotalType ==
  ASSUME NEW lines, IsLines(lines)
  PROVE  \A line \in lines : TotalsOn(lines)[line] = TotalOf(line) /\ TotalsOn(lines)[line] \in Int
BY PaperAssumption DEF IsLines, TotalOf, TotalsOn, ItemRow, RowRecord, Printed

\* A line without an amount adds nothing to what was paid.
LEMMA PaidIs ==
  ASSUME NEW lines, IsLines(lines), NEW some \in SUBSET lines
  PROVE  Paid(some) = SumFunctionOnSet(TotalsOn(lines), some) /\ Paid(some) \in Int
<1>1. PICK f, T : f = TotalsOn(lines) /\ T = {line \in some : Entry(line).total # NULL}
  OBVIOUS
<1>2. PICK g : g = [line \in T |-> Entry(line).total]
  OBVIOUS
<1>3. IsFiniteSet(some) /\ IsFiniteSet(T) /\ T \in SUBSET some
  BY <1>1, FS_Subset DEF IsLines
<1>4. \A line \in some : f[line] = TotalOf(line) /\ f[line] \in Int
  BY <1>1, TotalType
<1>5. \A line \in T : g[line] = f[line]
  BY <1>1, <1>2, <1>4 DEF TotalOf
<1>6. \A line \in some \ T : f[line] = 0
  BY <1>1, <1>4 DEF TotalOf
<1>7. Paid(some) = SumFunctionOnSet(g, T)
  BY <1>1, <1>2 DEF Paid, SumFunction
<1>8. SumFunctionOnSet(g, T) = SumFunctionOnSet(f, T)
  BY <1>3, <1>5, SumSame
<1>9. SumFunctionOnSet(f, some) = SumFunctionOnSet(f, T)
  BY <1>3, <1>4, <1>6, SumWithoutZeros
<1>10. SumFunctionOnSet(f, some) \in Int
  BY <1>3, <1>4, SumSplit
<1> QED BY <1>1, <1>7, <1>8, <1>9, <1>10

GroupLines(lines, g) == {line \in Placed(lines) : CATEGORY_GROUP[Entry(line).category] = g}

LEMMA PlacedType ==
  ASSUME NEW lines, IsLines(lines), NEW line \in Placed(lines)
  PROVE  line \in lines /\ Entry(line).category \in ITEM_CATEGORIES /\ CATEGORY_GROUP[Entry(line).category] \in Group
BY DEF IsLines, Placed, ItemRow, RowRecord, CATEGORY_GROUP, Group

\* The groups and what was not placed make up the whole.
LEMMA GroupsAddUp ==
  ASSUME NEW lines, IsLines(lines), NEW groups, groups = [g \in Group |-> Paid(GroupLines(lines, g))]
  PROVE  SumFunction(groups) + Paid(lines \ Placed(lines)) = Paid(lines)
<1>1. PICK f, P : f = TotalsOn(lines) /\ P = Placed(lines)
  OBVIOUS
<1>2. PICK name : name = [line \in P |-> CATEGORY_GROUP[Entry(line).category]]
  OBVIOUS
<1>3. \A line \in P : line \in lines /\ name[line] \in Group
  BY <1>1, <1>2, PlacedType
<1>4. IsFiniteSet(lines) /\ IsFiniteSet(P) /\ P \in SUBSET lines
  <2>1. P \in SUBSET lines
    BY <1>3
  <2> QED BY <2>1, FS_Subset DEF IsLines
<1>5. \A line \in lines : f[line] \in Int
  BY <1>1, TotalType
<1>6. groups = PartSums(f, name, P, Group)
  <2>1. ASSUME NEW g \in Group PROVE Paid(GroupLines(lines, g)) = SumFunctionOnSet(f, {line \in P : name[line] = g})
    <3>1. GroupLines(lines, g) = {line \in P : name[line] = g}
      BY <1>1, <1>2 DEF GroupLines
    <3>2. GroupLines(lines, g) \in SUBSET lines
      BY <1>3, <3>1
    <3> QED BY <1>1, <3>1, <3>2, PaidIs
  <2> QED BY <2>1 DEF PartSums
<1>7. SumFunction(groups) = SumFunctionOnSet(f, P)
  <2>1. IsFiniteSet(Group)
    <3>1. IsFiniteSet({"groceries"} \cup {"household"})
      BY FS_Singleton, FS_AddElement, Zenon
    <3>2. {"groceries"} \cup {"household"} = {"groceries", "household"}
      OBVIOUS
    <3> QED BY <3>1, <3>2 DEF Group
  <2> QED BY <1>3, <1>4, <1>5, <1>6, <2>1, SumOfParts
<1>8. SumFunctionOnSet(f, lines) = SumFunctionOnSet(f, P) + SumFunctionOnSet(f, lines \ P)
  BY <1>4, <1>5, SumOfTwo
<1>9. Paid(lines) = SumFunctionOnSet(f, lines) /\ Paid(lines \ P) = SumFunctionOnSet(f, lines \ P)
  <2>1. lines \in SUBSET lines /\ lines \ P \in SUBSET lines
    OBVIOUS
  <2> QED BY <1>1, <2>1, PaidIs
<1> QED BY <1>1, <1>7, <1>8, <1>9

\* A row of GROUP BY category.
CategoryRow(placed, c) ==
    [category |-> c, median |-> Median2Price({line \in placed : Entry(line).category = c}),
     buys |-> Cardinality({line \in placed : Entry(line).category = c}),
     spent |-> Paid({line \in placed : Entry(line).category = c})]

LEMMA ByCategoryIs ==
  \A placed : ByCategory(placed) = {CategoryRow(placed, c) : c \in {Entry(line).category : line \in placed}}
BY DEF ByCategory, CategoryRow

LEMMA CategoryRowSays ==
  \A placed, c : /\ CategoryRow(placed, c).category = c
                 /\ CategoryRow(placed, c).spent = Paid({line \in placed : Entry(line).category = c})
BY DEF CategoryRow

\* A group opens on the amount it was tapped at.
LEMMA ItemsAddUp ==
  ASSUME NEW lines, IsLines(lines), NEW g, NEW rows, rows = InGroup(ByCategory(Placed(lines)), g)
  PROVE  SumFunction([row \in rows |-> row.spent]) = Paid(GroupLines(lines, g))
<1>1. PICK f, P, S : f = TotalsOn(lines) /\ P = Placed(lines) /\ S = GroupLines(lines, g)
  OBVIOUS
<1>2. PICK name : name = [line \in S |-> CategoryRow(P, Entry(line).category)]
  OBVIOUS
<1>3. P \in SUBSET lines /\ S = {line \in P : CATEGORY_GROUP[Entry(line).category] = g} /\ S \in SUBSET lines
  BY <1>1, PlacedType DEF GroupLines
<1>4. \A row : row \in rows <=> \E line \in S : row = CategoryRow(P, Entry(line).category)
  <2>1. \A row : row \in rows <=> /\ \E line \in P : row = CategoryRow(P, Entry(line).category)
                                  /\ CATEGORY_GROUP[row.category] = g
    BY <1>1, ByCategoryIs DEF InGroup
  <2> QED BY <1>3, <2>1, CategoryRowSays
<1>5. \A line \in S : name[line] = CategoryRow(P, Entry(line).category) /\ name[line] \in rows
  BY <1>2, <1>4
<1>6. IsFiniteSet(S) /\ IsFiniteSet(rows)
  <2>1. IsFiniteSet(S)
    BY <1>3, FS_Subset DEF IsLines
  <2>2. name \in Surjection(S, rows)
    BY <1>2, <1>4, <1>5 DEF Surjection
  <2> QED BY <2>1, <2>2, FS_Surjection
<1>7. \A line \in S : f[line] \in Int
  BY <1>1, <1>3, TotalType
<1>8. ASSUME NEW row \in rows PROVE row.spent = SumFunctionOnSet(f, {line \in S : name[line] = row})
  <2>1. PICK k \in S : row = CategoryRow(P, Entry(k).category)
    BY <1>4
  <2>2. PICK c : c = Entry(k).category
    OBVIOUS
  <2>3. row = CategoryRow(P, c) /\ row.category = c /\ row.spent = Paid({line \in P : Entry(line).category = c})
    BY <2>1, <2>2, CategoryRowSays
  <2>4. CATEGORY_GROUP[c] = g
    BY <1>3, <2>2
  <2>5. {line \in S : name[line] = row} = {line \in P : Entry(line).category = c}
    BY <1>3, <1>5, <2>3, <2>4, CategoryRowSays
  <2>6. {line \in P : Entry(line).category = c} \in SUBSET lines
    BY <1>3
  <2> QED BY <1>1, <2>3, <2>5, <2>6, PaidIs
<1>9. [row \in rows |-> row.spent] = PartSums(f, name, S, rows)
  BY <1>8 DEF PartSums
<1>10. SumFunction(PartSums(f, name, S, rows)) = SumFunctionOnSet(f, S)
  BY <1>5, <1>6, <1>7, SumOfParts
<1> QED BY <1>1, <1>3, <1>9, <1>10, PaidIs

\* What was not placed is shown once.
LEMMA NothingShownTwice ==
  ASSUME NEW lines, IsLines(lines), NEW rest \in SUBSET lines, NEW u,
         u = [g \in Group |-> Paid(IF g = "groceries" THEN rest ELSE {})]
  PROVE  SumFunction(u) = Paid(rest)
<1>1. Paid({}) = 0 /\ Paid(rest) \in Int
  <2>1. {} \in SUBSET lines
    OBVIOUS
  <2> QED BY <2>1, PaidIs, SumEmpty
<1>2. PICK a, b : a = "groceries" /\ b = "household"
  OBVIOUS
<1>3. a # b /\ Group = {a, b}
  BY <1>2 DEF Group
<1>4. u[a] = Paid(rest) /\ u[b] = 0 /\ DOMAIN u = {a, b}
  BY <1>1, <1>2, <1>3
<1>5. SumFunctionOnSet(u, {a, b}) = u[a] + u[b]
  BY <1>1, <1>3, <1>4, SumOfPair
<1>6. SumFunction(u) = SumFunctionOnSet(u, {a, b})
  BY <1>4 DEF SumFunction
<1>7. PICK n \in Int : n = Paid(rest)
  BY <1>1
<1>8. SumFunction(u) = n + 0
  BY <1>4, <1>5, <1>6, <1>7
<1> QED BY <1>7, <1>8

LEMMA LinesAre ==
  ASSUME NEW table \in SUBSET Receipt, IsFiniteSet(table)
  PROVE  IsLines(LinesOf(table))
<1>1. \A l \in LinesOf(table) : Entry(l) \in ItemRow
  BY LineType DEF LinesOf, Entry
<1> QED BY <1>1, ReceiptRows, LinesAreFinite DEF IsLines

MonthLines(w, m) == LinesOf(InMonth(w, monthWindow(m).start, monthWindow(m).end))

LEMMA MonthSays ==
  \A w, m : /\ monthRoute(w, m).groups = [g \in Group |-> Paid(GroupLines(MonthLines(w, m), g))]
            /\ monthRoute(w, m).unmatched = Paid(MonthLines(w, m) \ Placed(MonthLines(w, m)))
<1> SUFFICES ASSUME NEW w, NEW m
             PROVE  /\ monthRoute(w, m).groups = [g \in Group |-> Paid(GroupLines(MonthLines(w, m), g))]
                    /\ monthRoute(w, m).unmatched = Paid(MonthLines(w, m) \ Placed(MonthLines(w, m)))
  OBVIOUS
<1> QED BY Zenon DEF monthRoute, GroupLines, MonthLines

LEMMA DetailSays ==
  \A w, m, g :
    LET lines == MonthLines(w, m)
    IN  /\ categoryRoute(w, g, m).spent
              = SumFunction([row \in InGroup(ByCategory(Placed(lines)), g) |-> row.spent])
        /\ categoryRoute(w, g, m).unmatched = Paid(IF g = "groceries" THEN lines \ Placed(lines) ELSE {})
<1> SUFFICES ASSUME NEW w, NEW m, NEW g
             PROVE  LET lines == MonthLines(w, m)
                    IN  /\ categoryRoute(w, g, m).spent
                              = SumFunction([row \in InGroup(ByCategory(Placed(lines)), g) |-> row.spent])
                        /\ categoryRoute(w, g, m).unmatched
                              = Paid(IF g = "groceries" THEN lines \ Placed(lines) ELSE {})
  OBVIOUS
<1> QED BY Zenon DEF categoryRoute, readUserPrices, MonthLines

LEMMA MonthsAddUp == CorpusHolds => MonthAddsUp
<1> SUFFICES ASSUME CorpusHolds, NEW w \in Wallet, NEW m \in Month
             PROVE  LET month == monthRoute(w, m)
                        detail == [g \in Group |-> categoryRoute(w, g, m)]
                        lines == LinesOf(InMonth(w, monthWindow(m).start, monthWindow(m).end))
                    IN  /\ \A g \in Group : detail[g].spent = month.groups[g]
                        /\ SumFunction(month.groups) + month.unmatched = Paid(lines)
                        /\ SumFunction([g \in Group |-> detail[g].unmatched]) = month.unmatched
  BY DEF MonthAddsUp
<1>1. PICK lines, month, detail : /\ lines = MonthLines(w, m) /\ month = monthRoute(w, m)
                                  /\ detail = [g \in Group |-> categoryRoute(w, g, m)]
  OBVIOUS
<1>2. IsLines(lines)
  <2>1. InMonth(w, monthWindow(m).start, monthWindow(m).end) \in SUBSET receipts
    BY DEF InMonth, Mine
  <2>2. receipts \in SUBSET Receipt /\ IsFiniteSet(receipts)
    BY DEF CorpusHolds
  <2>3. PICK rs : rs = InMonth(w, monthWindow(m).start, monthWindow(m).end)
    OBVIOUS
  <2>4. rs \in SUBSET Receipt /\ IsFiniteSet(rs)
    BY <2>1, <2>2, <2>3, FS_Subset
  <2> QED BY <1>1, <2>3, <2>4, LinesAre DEF MonthLines
<1>3. /\ month.groups = [g \in Group |-> Paid(GroupLines(lines, g))]
      /\ month.unmatched = Paid(lines \ Placed(lines))
  BY <1>1, MonthSays
<1>4. \A g \in Group : /\ detail[g].spent = SumFunction([row \in InGroup(ByCategory(Placed(lines)), g) |-> row.spent])
                       /\ detail[g].unmatched = Paid(IF g = "groceries" THEN lines \ Placed(lines) ELSE {})
  BY <1>1, DetailSays
<1>5. ASSUME NEW g \in Group PROVE detail[g].spent = month.groups[g]
  <2>1. PICK rows : rows = InGroup(ByCategory(Placed(lines)), g)
    OBVIOUS
  <2>2. SumFunction([row \in rows |-> row.spent]) = Paid(GroupLines(lines, g))
    BY <1>2, <2>1, ItemsAddUp
  <2>3. detail[g].spent = SumFunction([row \in rows |-> row.spent])
    BY <1>4, <2>1
  <2> QED BY <1>3, <2>2, <2>3
<1>6. SumFunction(month.groups) + month.unmatched = Paid(lines)
  BY <1>2, <1>3, GroupsAddUp
<1>7. SumFunction([g \in Group |-> detail[g].unmatched]) = month.unmatched
  <2>1. PICK u : u = [g \in Group |-> detail[g].unmatched]
    OBVIOUS
  <2>2. u = [g \in Group |-> Paid(IF g = "groceries" THEN lines \ Placed(lines) ELSE {})]
    BY <1>4, <2>1
  <2>3. lines \ Placed(lines) \in SUBSET lines
    OBVIOUS
  <2>4. SumFunction(u) = Paid(lines \ Placed(lines))
    BY <1>2, <2>2, <2>3, NothingShownTwice
  <2> QED BY <1>3, <2>1, <2>4
<1> QED BY <1>1, <1>5, <1>6, <1>7 DEF MonthLines

LEMMA MinOfTwo ==
  ASSUME NEW x \in Int, NEW y \in Int
  PROVE  Min({x, y}) \in {x, y} /\ Min({x, y}) <= y
<1>1. \E z \in {x, y} : \A v \in {x, y} : z <= v
  OBVIOUS
<1>2. Min({x, y}) \in {x, y} /\ \A v \in {x, y} : Min({x, y}) <= v
  BY <1>1, Zenon DEF Min
<1> QED BY <1>2

(* Both spans of a month, and both windows of a change, are apart.         *)
LEMMA WindowsApart == CorpusHolds => NothingOnBothSides
<1> SUFFICES ASSUME CorpusHolds PROVE NothingOnBothSides
  OBVIOUS
<1>1. ASSUME NEW w \in Wallet, NEW m \in Month
      PROVE  InMonth(w, monthWindow(m).start, monthWindow(m).end)
                \cap InMonth(w, monthWindow(m).previousStart, monthWindow(m).previousEnd) = {}
  <2>1. PICK window : window = monthWindow(m)
    OBVIOUS
  <2>2. m \in Nat /\ m - 1 \in DOMAIN MonthStart /\ m \in DOMAIN MonthStart /\ m + 1 \in DOMAIN MonthStart
    BY MonthAssumption DEF Month
  <2>3. MonthStart[m - 1] \in Nat /\ MonthStart[m] \in Nat /\ MonthStart[m + 1] \in Nat
    BY <2>2, MonthAssumption
  <2>4. PICK days \in Int : window.previousEnd = previousSpan(m, days)
    BY <2>1, <2>3 DEF monthWindow, CorpusHolds
  <2>5. previousSpan(m, days) \in Int /\ previousSpan(m, days) <= MonthStart[m]
    <3>1. PICK x \in Int : x = MonthStart[m - 1] + days
      BY <2>3
    <3>2. PICK y \in Int : y = MonthStart[m]
      BY <2>3
    <3>3. Min({x, y}) \in {x, y} /\ Min({x, y}) <= y
      BY MinOfTwo
    <3> QED BY <3>1, <3>2, <3>3 DEF previousSpan
  <2>6. window.start = MonthStart[m] /\ window.previousEnd # NULL
    BY <2>1, <2>4, <2>5, PaperAssumption DEF monthWindow
  <2> SUFFICES ASSUME NEW r \in InMonth(w, window.start, window.end),
                      r \in InMonth(w, window.previousStart, window.previousEnd)
               PROVE  FALSE
    BY <2>1
  <2>7. r.issued \in Int
    BY DEF InMonth, Mine, CorpusHolds, Receipt
  <2>8. r.issued >= window.start /\ r.issued < window.previousEnd
    BY <2>6 DEF InMonth, Within
  <2> QED BY <2>3, <2>4, <2>5, <2>6, <2>7, <2>8
<1>2. ASSUME NEW country, NEW c
      PROVE  Behind(c, country, NULL, marketWindow(ChangeDays, 0))
               \cap Behind(c, country, NULL, marketWindow(ChangeDays, ChangeDays)) = {}
  <2> SUFFICES ASSUME NEW r \in Behind(c, country, NULL, marketWindow(ChangeDays, 0)),
                      r \in Behind(c, country, NULL, marketWindow(ChangeDays, ChangeDays))
               PROVE  FALSE
    OBVIOUS
  <2>1. ChangeDays \in Nat \ {0} /\ today \in Nat /\ NULL \notin Int
    BY MarketAssumption, PaperAssumption DEF CorpusHolds
  <2>2. r.issued \in Int
    BY DEF Behind, CorpusHolds, Receipt
  <2>3. PICK recent, prior : /\ recent = marketWindow(ChangeDays, 0)
                             /\ prior = marketWindow(ChangeDays, ChangeDays)
    OBVIOUS
  <2>4. recent.since = today - 0 - ChangeDays /\ prior.until = today - ChangeDays
    BY <2>1, <2>3 DEF marketWindow
  <2>5. r.issued >= recent.since /\ (prior.until = NULL \/ r.issued < prior.until)
    BY <2>3 DEF Behind, Within
  <2> QED BY <2>1, <2>2, <2>4, <2>5
<1> QED BY <1>1, <1>2 DEF NothingOnBothSides

-----------------------------------------------------------------------------
(* A receipt against the market.  There is a price on it: some reading has *)
(* every rank there is.                                                    *)

Values(readings) == IsFiniteSet(readings) /\ \A q \in readings : q[2] \in Nat

LEMMA CountsOf ==
  ASSUME NEW R, Values(R), NEW v
  PROVE  /\ Less(R, v) \in SUBSET R /\ AtMost(R, v) \in SUBSET R
         /\ Cardinality(Less(R, v)) \in Nat /\ Cardinality(AtMost(R, v)) \in Nat /\ Cardinality(R) \in Nat
         /\ Cardinality(AtMost(R, v)) <= Cardinality(R)
<1>1. Less(R, v) \in SUBSET R /\ AtMost(R, v) \in SUBSET R
  BY DEF Less, AtMost
<1>2. PICK A, B : A = Less(R, v) /\ B = AtMost(R, v)
  OBVIOUS
<1>3. IsFiniteSet(R) /\ IsFiniteSet(A) /\ IsFiniteSet(B) /\ Cardinality(B) <= Cardinality(R)
  BY <1>1, <1>2, FS_Subset DEF Values
<1>4. Cardinality(A) \in Nat /\ Cardinality(B) \in Nat /\ Cardinality(R) \in Nat
  BY <1>3, FS_CardinalityType
<1> QED BY <1>1, <1>2, <1>3, <1>4

LEMMA Lowest ==
  ASSUME NEW R, Values(R), NEW U \in SUBSET R, U # {}
  PROVE  \E s \in U : \A q \in U : s[2] <= q[2]
<1>1. PICK T : T = {q[2] : q \in U}
  OBVIOUS
<1>2. T \in SUBSET Nat /\ T # {}
  BY <1>1 DEF Values
<1>3. PICK n \in T : \A m \in T : n <= m
  BY <1>2, Least
<1>4. PICK s \in U : s[2] = n
  BY <1>1, <1>3
<1> QED BY <1>1, <1>3, <1>4

\* Nothing lies between a value and the least of those above it.
LEMMA NextUp ==
  ASSUME NEW R, Values(R), NEW p \in R, AtMost(R, p[2]) # R
  PROVE  \E s \in R : /\ Less(R, s[2]) = AtMost(R, p[2])
                      /\ Cardinality(AtMost(R, p[2])) < Cardinality(AtMost(R, s[2]))
<1>1. PICK U : U = R \ AtMost(R, p[2])
  OBVIOUS
<1>2. U \in SUBSET R /\ U # {}
  BY <1>1, CountsOf
<1>3. PICK s \in U : \A q \in U : s[2] <= q[2]
  BY <1>2, Lowest
<1>4. \A q \in R : q[2] \in Nat /\ (q \in U <=> q[2] > p[2])
  BY <1>1 DEF AtMost, Values
<1>5. Less(R, s[2]) = AtMost(R, p[2])
  <2>1. \A q \in R : q[2] < s[2] <=> q[2] <= p[2]
    BY <1>2, <1>3, <1>4
  <2> QED BY <2>1 DEF Less, AtMost
<1>6. PICK A, B : A = AtMost(R, p[2]) /\ B = AtMost(R, s[2])
  OBVIOUS
<1>7. A \in SUBSET B /\ s \in B \ A
  BY <1>2, <1>3, <1>4, <1>6 DEF AtMost
<1>8. IsFiniteSet(B)
  BY <1>6, CountsOf, FS_Subset DEF Values
<1>9. Cardinality(A) <= Cardinality(B) /\ Cardinality(A) # Cardinality(B)
  BY <1>7, <1>8, FS_Subset
<1>10. Cardinality(A) \in Nat /\ Cardinality(B) \in Nat
  BY <1>6, CountsOf
<1> QED BY <1>2, <1>3, <1>5, <1>6, <1>9, <1>10

LEMMA RankIsHeld ==
  ASSUME NEW R, Values(R), NEW j \in 1 .. Cardinality(R)
  PROVE  \E p \in R : Ranked(R, p, j)
<1>1. Cardinality(R) \in Nat /\ R # {}
  <2>1. Cardinality(R) \in Nat /\ j <= Cardinality(R) /\ 1 <= j
    BY CountsOf
  <2>2. Cardinality({}) = 0
    BY FS_EmptySet
  <2> QED BY <2>1, <2>2
<1>2. PICK Q : Q = {q \in R : Cardinality(Less(R, q[2])) < j}
  OBVIOUS
<1>3. Q # {}
  <2>1. PICK s \in R : \A q \in R : s[2] <= q[2]
    BY <1>1, Lowest
  <2>2. Less(R, s[2]) = {}
    BY <2>1 DEF Less, Values
  <2>3. Cardinality(Less(R, s[2])) = 0
    BY <2>2, FS_EmptySet
  <2>4. 0 < j
    OBVIOUS
  <2> QED BY <1>2, <2>3, <2>4
<1>4. PICK above : above = [q \in R |-> Cardinality(R) - Cardinality(AtMost(R, q[2]))]
  OBVIOUS
<1>5. \A q \in R : above[q] = Cardinality(R) - Cardinality(AtMost(R, q[2])) /\ above[q] \in Nat
                   /\ Cardinality(AtMost(R, q[2])) \in Nat
  BY <1>4, CountsOf
<1>6. PICK T : T = {above[q] : q \in Q}
  OBVIOUS
<1>7. T \in SUBSET Nat /\ T # {}
  BY <1>2, <1>3, <1>5, <1>6
<1>8. PICK n \in T : \A m \in T : n <= m
  BY <1>7, Least
<1>9. PICK p \in Q : above[p] = n
  BY <1>6, <1>8
<1>10. \A q \in Q : above[p] <= above[q]
  BY <1>6, <1>8, <1>9
<1>11. j <= Cardinality(AtMost(R, p[2]))
  <2> SUFFICES ASSUME ~(j <= Cardinality(AtMost(R, p[2]))) PROVE FALSE
    OBVIOUS
  <2>1. p \in R /\ Cardinality(AtMost(R, p[2])) \in Nat
    BY <1>2, <1>5
  <2>2. AtMost(R, p[2]) # R
    BY <1>1
  <2>3. PICK s \in R : /\ Less(R, s[2]) = AtMost(R, p[2])
                       /\ Cardinality(AtMost(R, p[2])) < Cardinality(AtMost(R, s[2]))
    BY <2>1, <2>2, NextUp
  <2>4. s \in Q
    BY <1>2, <2>1, <2>3
  <2>5. above[p] <= above[s]
    BY <1>10, <2>4
  <2> QED BY <1>1, <1>5, <2>1, <2>3, <2>5
<1> QED BY <1>2, <1>9, <1>11 DEF Ranked

LEMMA MedianIs ==
  ASSUME NEW R, Values(R), R # {}
  PROVE  Median2(R) \in Nat /\ ((\A q \in R : q[2] # 0) => Median2(R) # 0)
<1>1. PICK n \in Nat : n = Cardinality(R)
  BY CountsOf
<1>2. n # 0
  BY <1>1, FS_EmptySet DEF Values
<1>3. (n + 1) \div 2 \in 1 .. n /\ n \div 2 + 1 \in 1 .. n
  BY <1>2
<1>4. ASSUME NEW j \in 1 .. n PROVE AtRank(R, j) \in Nat /\ ((\A q \in R : q[2] # 0) => AtRank(R, j) # 0)
  <2>1. \E p : p \in R /\ Ranked(R, p, j)
    BY <1>1, RankIsHeld
  <2>2. PICK p : p = CHOOSE q : q \in R /\ Ranked(R, q, j)
    OBVIOUS
  <2>3. p \in R
    BY <2>1, <2>2, Zenon
  <2>4. AtRank(R, j) = p[2]
    BY <2>2, AtRankIs
  <2> QED BY <2>3, <2>4 DEF Values
<1>5. PICK low, high : low = AtRank(R, (n + 1) \div 2) /\ high = AtRank(R, n \div 2 + 1)
  OBVIOUS
<1>6. Median2(R) = low + high
  BY <1>1, <1>5 DEF Median2
<1>7. low \in Nat /\ high \in Nat /\ ((\A q \in R : q[2] # 0) => low # 0)
  BY <1>3, <1>4, <1>5
<1> QED BY <1>6, <1>7

LEMMA ReadingsAre ==
  ASSUME NEW S, IsFiniteSet(S), NEW f, \A x \in S : f[x] \in Nat, NEW R, R = {<<x, f[x]>> : x \in S}
  PROVE  Values(R) /\ (S # {} => R # {})
<1>1. PICK g : g = [x \in S |-> <<x, f[x]>>]
  OBVIOUS
<1>2. g \in Surjection(S, R)
  BY <1>1 DEF Surjection
<1>3. IsFiniteSet(R)
  BY <1>2, FS_Surjection
<1>4. \A q \in R : q[2] \in Nat
  <2> SUFFICES ASSUME NEW q \in R PROVE q[2] \in Nat
    OBVIOUS
  <2>1. PICK x \in S : q = <<x, f[x]>>
    OBVIOUS
  <2> QED BY <2>1
<1>5. S # {} => R # {}
  OBVIOUS
<1> QED BY <1>3, <1>4, <1>5 DEF Values

LEMMA ReceiptPriceType ==
  ASSUME NEW r \in Receipt, NEW c, Seen(r, c) # {}
  PROVE  receiptPrice(r, c) \in Nat
<1>1. PICK S, f : S = Seen(r, c) /\ f = [i \in S |-> r.lines[i].price]
  OBVIOUS
<1>2. IsFiniteSet(S)
  <2>1. PICK rows \in Seq(ItemRow) : rows = r.lines
    BY DEF Receipt
  <2>2. DOMAIN rows = 1 .. Len(rows) /\ Len(rows) \in Nat
    OBVIOUS
  <2>3. IsFiniteSet(1 .. Len(rows)) /\ S \in SUBSET (1 .. Len(rows))
    BY <1>1, <2>1, <2>2, FS_Interval DEF Seen, Priced
  <2> QED BY <2>3, FS_Subset
<1>3. \A i \in S : f[i] = r.lines[i].price /\ f[i] \in Nat
  <2> SUFFICES ASSUME NEW i \in S PROVE r.lines[i].price \in Nat
    BY <1>1
  <2>1. i \in DOMAIN r.lines /\ r.lines[i].price # NULL
    BY <1>1 DEF Seen, Priced
  <2> QED BY <2>1, LineType DEF ItemRow, RowRecord, Price
<1>4. PICK R : R = {<<i, f[i]>> : i \in S}
  OBVIOUS
<1>5. Values(R) /\ R # {}
  <2>1. (\A i \in S : f[i] \in Nat) /\ S # {}
    BY <1>1, <1>3
  <2> QED BY <1>2, <1>4, <2>1, ReadingsAre
<1>6. R = {<<i, r.lines[i].price>> : i \in Seen(r, c)}
  BY <1>1, <1>3, <1>4
<1> QED BY <1>5, <1>6, MedianIs DEF receiptPrice

LEMMA MarketPriceType ==
  ASSUME CorpusHolds, NEW c, NEW country, NEW w, NEW window
  PROVE  PriceOf(marketUnitPrice(c, country, w, window)) \in Nat \cup {NULL}
<1>1. PICK B, f, said : /\ B = Behind(c, country, w, window) /\ f = [r \in B |-> receiptPrice(r, c)]
                        /\ said = marketUnitPrice(c, country, w, window)
  OBVIOUS
<1>2. CASE country = NULL \/ B = {}
  BY <1>1, <1>2 DEF marketUnitPrice, PriceOf
<1>3. CASE country # NULL /\ B # {}
  <2>1. B \in SUBSET receipts /\ \A r \in B : Seen(r, c) # {}
    BY <1>1 DEF Behind
  <2>2. IsFiniteSet(B) /\ B \in SUBSET Receipt
    BY <2>1, FS_Subset DEF CorpusHolds
  <2>3. \A r \in B : f[r] = receiptPrice(r, c) /\ f[r] \in Nat
    BY <1>1, <2>1, <2>2, ReceiptPriceType
  <2>4. PICK R : R = {<<r, f[r]>> : r \in B}
    OBVIOUS
  <2>5. Values(R) /\ R # {}
    BY <1>3, <2>2, <2>3, <2>4, ReadingsAre
  <2>6. R = {<<r, receiptPrice(r, c)>> : r \in B}
    BY <2>3, <2>4
  <2>7. Median2({<<r, receiptPrice(r, c)>> : r \in B}) \in Nat
    BY <2>5, <2>6, MedianIs
  <2>8. said.unitPrice \in {Median2({<<r, receiptPrice(r, c)>> : r \in B}), NULL}
    BY <1>1, <1>3 DEF marketUnitPrice
  <2> QED BY <1>1, <2>7, <2>8 DEF PriceOf
<1> QED BY <1>2, <1>3

LEMMA GoingType ==
  ASSUME CorpusHolds, NEW w, NEW country
  PROVE  \A c \in ITEM_CATEGORIES : Going(w, country)[c] \in Nat \cup {NULL}
BY MarketPriceType DEF Going

LEMMA Distributes ==
  \A m, p, q, t \in Int : p * q = 1000 * t => (m - 4 * p) * q = (m * q) * 1 + t * (-4000)
OBVIOUS

\* What one line saved is what it would have cost there, less what it did.
LEMMA SavedIs ==
  ASSUME PricesDivide, NEW row \in ItemRow, NEW market, \A c \in ITEM_CATEGORIES : market[c] \in Nat \cup {NULL},
         Comparable(row, market)
  PROVE  /\ market[row.category] * Content(row) \in Int /\ row.total \in Int
         /\ Saved(row, market) = (market[row.category] * Content(row)) * 1 + row.total * (-4000)
<1>1. /\ row.price # NULL /\ row.category # NULL /\ market[row.category] # NULL
  BY DEF Comparable
<1>2. /\ row.category \in ITEM_CATEGORIES /\ row.price \in Nat
      /\ row.total \in Nat /\ Content(row) \in Nat /\ row.price * Content(row) = 1000 * row.total
  BY <1>1 DEF ItemRow, RowRecord, Coherent, Exact, Price
<1>3. PICK m \in Nat : m = market[row.category]
  BY <1>1, <1>2
<1>4. PICK p \in Nat : p = row.price
  BY <1>2
<1>5. PICK q \in Nat : q = Content(row)
  BY <1>2
<1>6. PICK t \in Nat : t = row.total
  BY <1>2
<1>7. Saved(row, market) = (m - 4 * p) * q
  BY <1>3, <1>4, <1>5 DEF Saved, Content
<1>8. p * q = 1000 * t
  BY <1>2, <1>4, <1>5, <1>6
<1>9. (m - 4 * p) * q = (m * q) * 1 + t * (-4000) /\ m * q \in Int
  BY <1>8, Distributes
<1> QED BY <1>3, <1>5, <1>6, <1>7, <1>9

Compared(rows, market) == {i \in DOMAIN rows : Comparable(rows[i], market)}
SavedOn(rows, market, some) == [i \in some |-> Saved(rows[i], market)]
ThereOn(rows, market, some) == [i \in some |-> market[rows[i].category] * Content(rows[i])]
PrintedOn(rows, some) == [i \in some |-> rows[i].total]

\* So is what all of them saved.
LEMMA SavingsAddUp ==
  ASSUME PricesDivide, NEW rows \in Seq(ItemRow), NEW market,
         \A c \in ITEM_CATEGORIES : market[c] \in Nat \cup {NULL},
         NEW C, C = Compared(rows, market)
  PROVE  SumFunction(SavedOn(rows, market, C))
            = SumFunction(ThereOn(rows, market, C)) - 4000 * SumFunction(PrintedOn(rows, C))
<1>1. IsFiniteSet(C)
  <2>1. DOMAIN rows = 1 .. Len(rows) /\ Len(rows) \in Nat
    OBVIOUS
  <2>2. IsFiniteSet(1 .. Len(rows)) /\ C \in SUBSET (1 .. Len(rows))
    BY <2>1, FS_Interval DEF Compared
  <2> QED BY <2>2, FS_Subset
<1>2. PICK there, total, saved :
          /\ there = ThereOn(rows, market, C) /\ total = PrintedOn(rows, C)
          /\ saved = SavedOn(rows, market, C)
  OBVIOUS
<1>3. \A i \in C : there[i] \in Int /\ total[i] \in Int /\ saved[i] = there[i] * 1 + total[i] * (-4000)
  <2> SUFFICES ASSUME NEW i \in C PROVE there[i] \in Int /\ total[i] \in Int /\ saved[i] = there[i] * 1 + total[i] * (-4000)
    OBVIOUS
  <2>1. PICK row \in ItemRow : row = rows[i]
    BY DEF Compared
  <2>2. Comparable(row, market)
    BY <2>1 DEF Compared
  <2>3. there[i] = market[row.category] * Content(row) /\ total[i] = row.total /\ saved[i] = Saved(row, market)
    BY <1>2, <2>1 DEF ThereOn, PrintedOn, SavedOn
  <2> QED BY <2>2, <2>3, SavedIs
<1>4. there \in [C -> Int] /\ total \in [C -> Int] /\ DOMAIN saved = C
  BY <1>2, <1>3 DEF ThereOn, PrintedOn, SavedOn
<1>5. PICK both : both = Combined(there, 1, total, -4000)
  OBVIOUS
<1>6. \A i \in C : saved[i] = both[i]
  BY <1>3, <1>4, <1>5 DEF Combined
<1>7. SumFunctionOnSet(both, C) = SumFunctionOnSet(there, C) * 1 + SumFunctionOnSet(total, C) * (-4000)
  BY <1>1, <1>4, <1>5, SumLinear
<1>8. SumFunctionOnSet(saved, C) = SumFunctionOnSet(both, C)
  BY <1>1, <1>6, SumSame
<1>9. SumFunctionOnSet(there, C) \in Int /\ SumFunctionOnSet(total, C) \in Int
  BY <1>1, <1>3, SumSplit
<1>10. SumFunctionOnSet(saved, C) = SumFunctionOnSet(there, C) - 4000 * SumFunctionOnSet(total, C)
  BY <1>7, <1>8, <1>9
<1> QED BY <1>2, <1>4, <1>10 DEF SumFunction

\* A line without a price of its own is left out of any comparison.
LEMMA OnlyPricedAreCompared ==
  ASSUME NEW rows \in Seq(ItemRow), NEW market, NEW priced,
         priced = Restrict(rows, {i \in DOMAIN rows : rows[i].price # NULL})
  PROVE  compareWithMarket(priced, market) = compareWithMarket(rows, market)
<1>1. PICK C : C = {i \in DOMAIN rows : Comparable(rows[i], market)}
  OBVIOUS
<1>2. DOMAIN priced = {i \in DOMAIN rows : rows[i].price # NULL} /\ \A i \in DOMAIN priced : priced[i] = rows[i]
  BY DEF Restrict
<1>3. {i \in DOMAIN priced : Comparable(priced[i], market)} = C
  BY <1>1, <1>2 DEF Comparable
<1>4. [i \in C |-> Saved(priced[i], market)] = [i \in C |-> Saved(rows[i], market)]
  BY <1>1, <1>2, <1>3
<1> QED BY <1>1, <1>3, <1>4 DEF compareWithMarket

LEMMA ComparedFairly == CorpusHolds /\ PricesDivide => ComparedAtTheMarket
<1> SUFFICES ASSUME CorpusHolds, PricesDivide, NEW r \in receipts
             PROVE  LET said == receiptDetail(r)
                        market == Going(r.paper.wallet, r.paper.country)
                        compared == {i \in DOMAIN r.lines : Comparable(r.lines[i], market)}
                        There(i) == market[r.lines[i].category] * Content(r.lines[i])
                    IN  /\ said # NULL => said.amount =
                                SumFunction([i \in compared |-> There(i)])
                                    - 4000 * SumFunction([i \in compared |-> r.lines[i].total])
                        /\ \A country \in Countries : receiptHistory(r, country) \in {NULL, said}
  BY DEF ComparedAtTheMarket
<1>1. r \in Receipt
  BY DEF CorpusHolds
<1>2. PICK rows \in Seq(ItemRow) : rows = r.lines
  BY <1>1 DEF Receipt
<1>3. PICK market, C, said : /\ market = Going(r.paper.wallet, r.paper.country)
                             /\ C = Compared(rows, market)
                             /\ said = receiptDetail(r)
  OBVIOUS
<1>4. said = compareWithMarket(rows, market)
  BY <1>2, <1>3 DEF receiptDetail
<1>5. said # NULL => said.amount = SumFunction(SavedOn(rows, market, C))
  BY <1>3, <1>4 DEF compareWithMarket, Compared, SavedOn
<1>6. \A c \in ITEM_CATEGORIES : market[c] \in Nat \cup {NULL}
  BY <1>3, GoingType
<1>7. SumFunction(SavedOn(rows, market, C))
            = SumFunction(ThereOn(rows, market, C)) - 4000 * SumFunction(PrintedOn(rows, C))
  BY <1>3, <1>6, SavingsAddUp
<1>8. \A country : receiptHistory(r, country) \in {NULL, said}
  <2> SUFFICES ASSUME NEW country, country = r.paper.country PROVE receiptHistory(r, country) = said
    BY DEF receiptHistory
  <2>1. PICK priced : priced = Restrict(rows, {i \in DOMAIN rows : rows[i].price # NULL})
    OBVIOUS
  <2>2. compareWithMarket(priced, market) = said
    BY <1>4, <2>1, OnlyPricedAreCompared
  <2> QED BY <1>2, <1>3, <2>1, <2>2 DEF receiptHistory
<1> QED BY <1>2, <1>3, <1>5, <1>7, <1>8 DEF Compared, ThereOn, PrintedOn

(* For any papers, wallets and operators, and at any moment: a month, its  *)
(* groups, their items and what was placed in none say one sum, each line  *)
(* once; no receipt is on both sides of a comparison.                      *)
THEOREM MonthsAgree == CorpusSpec => [](MonthAddsUp /\ NothingOnBothSides)
BY CorpusIsSound, MonthsAddUp, WindowsApart, PTL

(* Besides, where the prices of all papers divide exactly: what a receipt  *)
(* is said to have saved is what its compared lines would have cost at the *)
(* market price, less what was printed beside them, and its page and the   *)
(* list agree.  A price that does not divide is rounded (to four decimals  *)
(* in the code, to a whole number here), and the sum with it.              *)
THEOREM ScreensOfAWalletAgree == PricesDivide /\ CorpusSpec => []ScreensAgree
<1> SUFFICES ASSUME PricesDivide PROVE CorpusSpec => []ScreensAgree
  OBVIOUS
<1>1. CorpusHolds => ScreensAgree
  BY MonthsAddUp, WindowsApart, ComparedFairly DEF ScreensAgree
<1> QED BY CorpusIsSound, <1>1, PTL

-----------------------------------------------------------------------------
(* Public prices follow the verdict.  The numbers with nothing claimed, and *)
(* with nothing made up, are the same definitions over another table; each *)
(* instance's operators are first shown to be the plain ones.  What is read *)
(* off a table for the public depends only on what ReadsAs compares.       *)

BehindIn(table, category, country, exclude, window) ==
    {r \in table : /\ Settled(r) /\ r.paper.country = country /\ r.paper.wallet # exclude
                   /\ Within(r, window.since, window.until)
                   /\ Seen(r, category) # {}}
PricesOf(behind, category) == {<<r, receiptPrice(r, category)>> : r \in behind}
PriceBehind(behind, category, country) ==
    IF country = NULL \/ behind = {} THEN NULL
    ELSE [unitPrice |-> IF Cardinality(behind) >= MinObservations THEN Median2(PricesOf(behind, category)) ELSE NULL,
          observations |-> Cardinality(behind), needed |-> Max({0, MinObservations - Cardinality(behind)})]
PriceIn(table, category, country, exclude, window) ==
    PriceBehind(BehindIn(table, category, country, exclude, window), category, country)

LEMMA PriceHere == \A c, country, w, window :
    marketUnitPrice(c, country, w, window) = PriceIn(receipts, c, country, w, window)
<1> SUFFICES ASSUME NEW c, NEW country, NEW w, NEW window
             PROVE marketUnitPrice(c, country, w, window) = PriceIn(receipts, c, country, w, window)
  OBVIOUS
<1> QED BY Zenon DEF marketUnitPrice, PriceIn, PriceBehind, PricesOf, BehindIn, Behind

LEMMA Unclaimed_Count == \A S : UnclaimedLedger!Cardinality(S) = Cardinality(S)
BY Zenon DEF UnclaimedLedger!Cardinality, Cardinality, UnclaimedLedger!IsFiniteSet, IsFiniteSet
LEMMA Unclaimed_Ends == \A S : UnclaimedLedger!Max(S) = Max(S) /\ UnclaimedLedger!Min(S) = Min(S)
BY Zenon DEF UnclaimedLedger!Max, Max, UnclaimedLedger!Min, Min
LEMMA Unclaimed_Median == \A R : UnclaimedLedger!Median2(R) = Median2(R)
<1>1. \A R, j : UnclaimedLedger!AtRank(R, j) = AtRank(R, j)
  BY Unclaimed_Count DEF UnclaimedLedger!AtRank, AtRank
<1> QED BY Unclaimed_Count, <1>1 DEF UnclaimedLedger!Median2, Median2

LEMMA Unclaimed_Seen == \A r, c : UnclaimedLedger!Seen(r, c) = Seen(r, c)
BY DEF UnclaimedLedger!Seen, Seen, UnclaimedLedger!Priced, Priced
LEMMA Unclaimed_ReceiptPrice == \A r, c : UnclaimedLedger!receiptPrice(r, c) = receiptPrice(r, c)
BY Unclaimed_Median, Unclaimed_Seen DEF UnclaimedLedger!receiptPrice, receiptPrice
LEMMA Unclaimed_Behind == \A c, country, w, window : UnclaimedLedger!Behind(c, country, w, window) = BehindIn(AsSettled, c, country, w, window)
BY Unclaimed_Seen DEF UnclaimedLedger!Behind, BehindIn, UnclaimedLedger!Settled, Settled, UnclaimedLedger!SETTLED, SETTLED,
   UnclaimedLedger!Within, Within
LEMMA Unclaimed_MarketPrice == \A c, country, w, window :
    UnclaimedLedger!marketUnitPrice(c, country, w, window) = PriceIn(AsSettled, c, country, w, window)
<1> SUFFICES ASSUME NEW c, NEW country, NEW w, NEW window
             PROVE UnclaimedLedger!marketUnitPrice(c, country, w, window) = PriceIn(AsSettled, c, country, w, window)
  OBVIOUS
<1>1. PICK behind : behind = BehindIn(AsSettled, c, country, w, window)
  OBVIOUS
<1>2. UnclaimedLedger!Behind(c, country, w, window) = behind
  BY <1>1, Unclaimed_Behind
<1>3. {<<r, UnclaimedLedger!receiptPrice(r, c)>> : r \in behind} = PricesOf(behind, c)
  BY Unclaimed_ReceiptPrice DEF PricesOf
<1> QED BY <1>1, <1>2, <1>3, Unclaimed_Median, Unclaimed_Count, Unclaimed_Ends DEF UnclaimedLedger!marketUnitPrice, PriceIn, PriceBehind

LEMMA Unseeded_Count == \A S : Unseeded!Cardinality(S) = Cardinality(S)
BY Zenon DEF Unseeded!Cardinality, Cardinality, Unseeded!IsFiniteSet, IsFiniteSet
LEMMA Unseeded_Ends == \A S : Unseeded!Max(S) = Max(S) /\ Unseeded!Min(S) = Min(S)
BY Zenon DEF Unseeded!Max, Max, Unseeded!Min, Min
LEMMA Unseeded_Median == \A R : Unseeded!Median2(R) = Median2(R)
<1>1. \A R, j : Unseeded!AtRank(R, j) = AtRank(R, j)
  BY Unseeded_Count DEF Unseeded!AtRank, AtRank
<1> QED BY Unseeded_Count, <1>1 DEF Unseeded!Median2, Median2
LEMMA Unseeded_Seen == \A r, c : Unseeded!Seen(r, c) = Seen(r, c)
BY DEF Unseeded!Seen, Seen, Unseeded!Priced, Priced
LEMMA Unseeded_ReceiptPrice == \A r, c : Unseeded!receiptPrice(r, c) = receiptPrice(r, c)
BY Unseeded_Median, Unseeded_Seen DEF Unseeded!receiptPrice, receiptPrice
LEMMA Unseeded_Behind == \A c, country, w, window : Unseeded!Behind(c, country, w, window) = BehindIn(AsRead, c, country, w, window)
BY Unseeded_Seen DEF Unseeded!Behind, BehindIn, Unseeded!Settled, Settled, Unseeded!SETTLED, SETTLED,
   Unseeded!Within, Within
LEMMA Unseeded_MarketPrice == \A c, country, w, window :
    Unseeded!marketUnitPrice(c, country, w, window) = PriceIn(AsRead, c, country, w, window)
<1> SUFFICES ASSUME NEW c, NEW country, NEW w, NEW window
             PROVE Unseeded!marketUnitPrice(c, country, w, window) = PriceIn(AsRead, c, country, w, window)
  OBVIOUS
<1>1. PICK behind : behind = BehindIn(AsRead, c, country, w, window)
  OBVIOUS
<1>2. Unseeded!Behind(c, country, w, window) = behind
  BY <1>1, Unseeded_Behind
<1>3. {<<r, Unseeded!receiptPrice(r, c)>> : r \in behind} = PricesOf(behind, c)
  BY Unseeded_ReceiptPrice DEF PricesOf
<1> QED BY <1>1, <1>2, <1>3, Unseeded_Median, Unseeded_Count, Unseeded_Ends DEF Unseeded!marketUnitPrice, PriceIn, PriceBehind

\* What the public numbers are drawn from is the same in two receipts.
ReadsAs(r, s) ==
    /\ s.paper = r.paper /\ s.issued = r.issued /\ (Settled(s) <=> Settled(r)) /\ HasRows(s)
    /\ Read(s) = Read(r) /\ \A i \in Read(r) : s.lines[i] = r.lines[i]
ReadsTheSame(table) ==
    /\ IsFiniteSet(table) /\ \A r, s \in table : r.paper = s.paper => r = s
    /\ \A r \in receipts : \E s \in table : ReadsAs(r, s)
    /\ \A s \in table : \E r \in receipts : ReadsAs(r, s)

LEMMA ImageFinite ==
  ASSUME NEW S, IsFiniteSet(S), NEW f
  PROVE  IsFiniteSet({f[x] : x \in S})
<1>1. PICK g : g = [x \in S |-> f[x]]
  OBVIOUS
<1>2. g \in Surjection(S, {f[x] : x \in S})
  BY <1>1 DEF Surjection
<1> QED BY <1>2, FS_Surjection

LEMMA SettledReadsTheSame == CorpusHolds => ReadsTheSame(AsSettled)
<1> SUFFICES ASSUME CorpusHolds PROVE ReadsTheSame(AsSettled)
  OBVIOUS
<1>1. PICK f : f = [r \in receipts |-> [r EXCEPT !.status = BeforeClaim(@)]]
  OBVIOUS
<1>2. AsSettled = {f[r] : r \in receipts}
  BY <1>1 DEF AsSettled
<1>3. IsFiniteSet(AsSettled)
  BY <1>2, ImageFinite DEF CorpusHolds
<1>4. ASSUME NEW r \in receipts
      PROVE  /\ f[r].paper = r.paper /\ f[r].issued = r.issued /\ f[r].lines = r.lines
             /\ Settled(f[r]) <=> Settled(r)
  <2>1. r \in Receipt
    BY DEF CorpusHolds
  <2>2. r.status \in Status
    BY <2>1 DEF Receipt
  <2>3. f[r] = [r EXCEPT !.status = BeforeClaim(r.status)]
    BY <1>1
  <2>4. /\ f[r].paper = r.paper /\ f[r].issued = r.issued /\ f[r].lines = r.lines
        /\ f[r].status = BeforeClaim(r.status)
    BY <2>1, <2>3 DEF Receipt
  <2>5. BeforeClaim(r.status) \in SETTLED <=> r.status \in SETTLED
    BY <2>2 DEF BeforeClaim, SETTLED, Status
  <2> QED BY <2>4, <2>5 DEF Settled
<1>5. \A r \in receipts : HasRows(f[r])
  BY <1>4, ReceiptRows DEF HasRows, CorpusHolds
<1>6. \A r \in receipts : ReadsAs(r, f[r])
  BY <1>4, <1>5 DEF ReadsAs, Read
<1>7. \A r, s \in receipts : f[r].paper = f[s].paper => f[r] = f[s]
  BY <1>4 DEF CorpusHolds, OnePaperEach
<1> QED BY <1>2, <1>3, <1>6, <1>7 DEF ReadsTheSame

LEMMA ReadReadsTheSame == CorpusHolds => ReadsTheSame(AsRead)
<1> SUFFICES ASSUME CorpusHolds PROVE ReadsTheSame(AsRead)
  OBVIOUS
<1>1. PICK f : f = [r \in receipts |-> [r EXCEPT !.lines = Restrict(@, Read(r))]]
  OBVIOUS
<1>2. AsRead = {f[r] : r \in receipts}
  BY <1>1 DEF AsRead
<1>3. IsFiniteSet(AsRead)
  BY <1>2, ImageFinite DEF CorpusHolds
<1>4. ASSUME NEW r \in receipts
      PROVE  /\ f[r].paper = r.paper /\ f[r].issued = r.issued /\ f[r].lines = [i \in Read(r) |-> r.lines[i]]
             /\ Settled(f[r]) <=> Settled(r)
  <2>1. r \in Receipt
    BY DEF CorpusHolds
  <2>2. f[r] = [r EXCEPT !.lines = Restrict(r.lines, Read(r))]
    BY <1>1
  <2>3. Restrict(r.lines, Read(r)) = [i \in Read(r) |-> r.lines[i]]
    BY DEF Restrict
  <2>4. /\ f[r].paper = r.paper /\ f[r].issued = r.issued /\ f[r].lines = Restrict(r.lines, Read(r))
        /\ f[r].status = r.status
    BY <2>1, <2>2 DEF Receipt
  <2> QED BY <2>3, <2>4 DEF Settled
<1>5. \A r \in receipts : HasRows(f[r])
  <2> SUFFICES ASSUME NEW r \in receipts PROVE HasRows(f[r])
    OBVIOUS
  <2>1. HasRows(r) /\ Read(r) \subseteq DOMAIN r.lines
    BY ReceiptRows DEF CorpusHolds, Read
  <2>2. IsFiniteSet(Read(r))
    BY <2>1, FS_Subset DEF HasRows
  <2> QED BY <1>4, <2>1, <2>2 DEF HasRows
<1>6. \A r \in receipts : ReadsAs(r, f[r])
  BY <1>4, <1>5 DEF ReadsAs, Read
<1>7. \A r, s \in receipts : f[r].paper = f[s].paper => f[r] = f[s]
  <2> SUFFICES ASSUME NEW r \in receipts, NEW s \in receipts, f[r].paper = f[s].paper PROVE f[r] = f[s]
    OBVIOUS
  <2>1. r.paper = s.paper
    BY <1>4
  <2> QED BY <2>1 DEF CorpusHolds, OnePaperEach
<1> QED BY <1>2, <1>3, <1>6, <1>7 DEF ReadsTheSame


ReadingsOn(f, S) == {<<x, f[x]>> : x \in S}

LEMMA MedianOfImage ==
  ASSUME NEW A, IsFiniteSet(A), NEW B, NEW g, NEW f, NEW k,
         \A x \in A : g[x] \in B, \A x, y \in A : g[x] = g[y] => x = y, \A y \in B : \E x \in A : g[x] = y,
         \A x \in A : f[x] \in Int /\ k[g[x]] = f[x]
  PROVE  Median2(ReadingsOn(f, A)) = Median2(ReadingsOn(k, B))
<1>x. PICK R, T : R = ReadingsOn(f, A) /\ T = ReadingsOn(k, B)
  OBVIOUS
<1>0. R = {<<x, f[x]>> : x \in A} /\ T = {<<y, k[y]>> : y \in B}
  BY <1>x DEF ReadingsOn
<1>1. IsFiniteSet(R)
  <2>1. PICK e : e = [x \in A |-> <<x, f[x]>>]
    OBVIOUS
  <2>2. e \in Surjection(A, R)
    BY <1>0, <2>1 DEF Surjection
  <2> QED BY <2>2, FS_Surjection
<1>2. PICK d : d = [q \in R |-> <<g[q[1]], q[2]>>]
  OBVIOUS
<1>3. \A q \in R : q[1] \in A /\ q = <<q[1], f[q[1]]>> /\ q[2] = f[q[1]] /\ q[2] \in Int
  BY <1>0
<1>4. \A q \in R : d[q] = <<g[q[1]], q[2]>> /\ d[q] \in T /\ d[q][2] = q[2]
  BY <1>0, <1>2, <1>3
<1>5. \A q, s \in R : d[q] = d[s] => q = s
  BY <1>3, <1>4
<1>6. \A y \in T : \E q \in R : d[q] = y
  <2> SUFFICES ASSUME NEW y \in T PROVE \E q \in R : d[q] = y
    OBVIOUS
  <2>0. PICK u \in B : y = <<u, k[u]>>
    BY <1>0
  <2>1. PICK x \in A : g[x] = u
    OBVIOUS
  <2>2. <<x, f[x]>> \in R /\ k[u] = f[x]
    BY <1>0, <2>1
  <2>3. d[<<x, f[x]>>] = <<u, k[u]>>
    BY <1>4, <2>1, <2>2
  <2> QED BY <2>0, <2>2, <2>3
<1>7. d \in Bijection(R, T)
  <2>1. d \in [R -> T]
    BY <1>2, <1>4
  <2> QED BY <1>5, <1>6, <2>1 DEF Bijection, Injection, Surjection, IsInjective
<1> QED BY <1>x, <1>1, <1>3, <1>4, <1>7, MediansAgree DEF SameReadings

\* Receipts of both that a condition on what is read picks.
Counterparts(g, A, B) ==
    /\ \A r \in A : g[r] \in B /\ ReadsAs(r, g[r])
    /\ \A r, q \in A : g[r] = g[q] => r = q
    /\ \A s \in B : \E r \in A : g[r] = s

LEMMA OneForOne ==
  ASSUME CorpusHolds, NEW table, ReadsTheSame(table), NEW A \in SUBSET receipts, NEW B \in SUBSET table,
         \A r \in receipts, s \in table : ReadsAs(r, s) => (r \in A <=> s \in B)
  PROVE  /\ IsFiniteSet(A) /\ Cardinality(B) = Cardinality(A) /\ (B = {} <=> A = {})
         /\ \E g : Counterparts(g, A, B)
<1>1. IsFiniteSet(receipts) /\ \A r, s \in receipts : r.paper = s.paper => r = s
  BY DEF CorpusHolds, OnePaperEach
<1>2. PICK g : g = [r \in A |-> CHOOSE s : s \in table /\ ReadsAs(r, s)]
  OBVIOUS
<1>3. \A r \in A : g[r] \in table /\ ReadsAs(r, g[r])
  <2> SUFFICES ASSUME NEW r \in A PROVE g[r] \in table /\ ReadsAs(r, g[r])
    OBVIOUS
  <2>1. \E s : s \in table /\ ReadsAs(r, s)
    BY DEF ReadsTheSame
  <2>2. g[r] = CHOOSE s : s \in table /\ ReadsAs(r, s)
    BY <1>2
  <2> QED BY <2>1, <2>2, Zenon
<1>4. \A r, s : ReadsAs(r, s) => r.paper = s.paper
  BY DEF ReadsAs
<1>5. \A r \in A : g[r] \in B
  BY <1>3
<1>6. \A r, q \in A : g[r] = g[q] => r = q
  <2> SUFFICES ASSUME NEW r \in A, NEW q \in A, g[r] = g[q] PROVE r = q
    OBVIOUS
  <2>1. r.paper = q.paper
    BY <1>3, <1>4
  <2> QED BY <1>1, <2>1
<1>7. ASSUME NEW s \in B PROVE \E r \in A : g[r] = s
  <2>1. PICK r \in receipts : ReadsAs(r, s)
    BY DEF ReadsTheSame
  <2>2. r \in A
    BY <2>1
  <2>3. g[r].paper = s.paper /\ g[r] \in table
    BY <1>3, <1>4, <2>1, <2>2
  <2>4. g[r] = s
    BY <2>3 DEF ReadsTheSame
  <2> QED BY <2>2, <2>4
<1>8. IsFiniteSet(A)
  BY <1>1, FS_Subset
<1>9. Cardinality(B) = Cardinality(A) /\ (B = {} <=> A = {})
  <2>1. g \in Bijection(A, B)
    BY <1>2, <1>5, <1>6, <1>7 DEF Bijection, Injection, Surjection, IsInjective
  <2>2. ExistsBijection(A, B)
    BY <2>1 DEF ExistsBijection
  <2> QED BY <1>5, <1>7, <1>8, <2>2, FS_Bijection
<1> QED BY <1>3, <1>5, <1>6, <1>7, <1>8, <1>9 DEF Counterparts

\* What others pay is the same over both.
LEMMA PricesAgreeIn ==
  ASSUME CorpusHolds, NEW table, ReadsTheSame(table)
  PROVE  \A c, country, w, window : PriceIn(table, c, country, w, window) = PriceIn(receipts, c, country, w, window)
<1> SUFFICES ASSUME NEW c, NEW country, NEW w, NEW window
             PROVE  PriceIn(table, c, country, w, window) = PriceIn(receipts, c, country, w, window)
  OBVIOUS
<1>1. PICK A, B : A = BehindIn(receipts, c, country, w, window) /\ B = BehindIn(table, c, country, w, window)
  OBVIOUS
<1>3. ASSUME NEW r, NEW s, ReadsAs(r, s)
      PROVE  /\ Seen(s, c) = Seen(r, c) /\ \A i \in Seen(r, c) : s.lines[i].price = r.lines[i].price
             /\ r.paper = s.paper
             /\ Within(s, window.since, window.until) <=> Within(r, window.since, window.until)
             /\ Settled(s) <=> Settled(r)
  <2>1. \A q : Seen(q, c) = {i \in Read(q) : q.lines[i].category = c /\ q.lines[i].price # NULL}
    BY DEF Seen, Priced, Read
  <2> QED BY <1>3, <2>1 DEF ReadsAs, Within
<1>4. ASSUME NEW r, NEW s, ReadsAs(r, s) PROVE receiptPrice(s, c) = receiptPrice(r, c)
  <2>1. Seen(s, c) = Seen(r, c) /\ \A i \in Seen(r, c) : s.lines[i].price = r.lines[i].price
    BY <1>3, <1>4
  <2>2. {<<i, s.lines[i].price>> : i \in Seen(s, c)} = {<<i, r.lines[i].price>> : i \in Seen(r, c)}
    BY <2>1
  <2> QED BY <2>2 DEF receiptPrice
<1>5. A \in SUBSET receipts /\ B \in SUBSET table
  BY <1>1 DEF BehindIn
<1>6. \A r \in receipts, s \in table : ReadsAs(r, s) => (r \in A <=> s \in B)
  BY <1>1, <1>3 DEF BehindIn
<1>7. PICK g : Counterparts(g, A, B)
  BY <1>5, <1>6, OneForOne
<1>8. \A r \in A : g[r] \in B /\ ReadsAs(r, g[r])
  BY <1>7 DEF Counterparts
<1>10. IsFiniteSet(A) /\ Cardinality(B) = Cardinality(A) /\ (B = {} <=> A = {})
  BY <1>5, <1>6, OneForOne
<1>12. Median2(PricesOf(B, c)) = Median2(PricesOf(A, c))
  <2>1. PICK f, k : f = [r \in A |-> receiptPrice(r, c)] /\ k = [s \in B |-> receiptPrice(s, c)]
    OBVIOUS
  <2>2. \A r \in A : f[r] \in Int /\ k[g[r]] = f[r]
    <3> SUFFICES ASSUME NEW r \in A PROVE f[r] \in Int /\ k[g[r]] = f[r]
      OBVIOUS
    <3>1. r \in Receipt /\ Seen(r, c) # {}
      BY <1>1 DEF BehindIn, CorpusHolds
    <3>2. receiptPrice(r, c) \in Nat
      BY <3>1, ReceiptPriceType
    <3>3. receiptPrice(g[r], c) = receiptPrice(r, c)
      BY <1>4, <1>8
    <3> QED BY <1>8, <2>1, <3>2, <3>3
  <2>4. Median2(ReadingsOn(f, A)) = Median2(ReadingsOn(k, B))
    <3>1. \A r \in A : g[r] \in B
      BY <1>7 DEF Counterparts
    <3>2. \A r, q \in A : g[r] = g[q] => r = q
      BY <1>7 DEF Counterparts
    <3>3. \A s \in B : \E r \in A : g[r] = s
      BY <1>7 DEF Counterparts
    <3> QED BY <1>10, <2>2, <3>1, <3>2, <3>3, MedianOfImage
  <2>5. ReadingsOn(f, A) = PricesOf(A, c) /\ ReadingsOn(k, B) = PricesOf(B, c)
    <3> HIDE DEF receiptPrice
    <3> QED BY <2>1 DEF PricesOf, ReadingsOn
  <2> QED BY <2>4, <2>5
<1> QED BY <1>1, <1>10, <1>12 DEF PriceIn, PriceBehind

-----------------------------------------------------------------------------
(* The board of a country: its currency and its prices.                    *)

LEMMA CommonestOf ==
  ASSUME NEW A, NEW B, \A x : Cardinality({r \in A : r.paper.currency = x}) = Cardinality({r \in B : r.paper.currency = x}),
         (\A r \in A : r.paper.currency = NULL) <=> (\A r \in B : r.paper.currency = NULL)
  PROVE  Commonest(A) = Commonest(B)
<1>1. \A i : Cardinality({r \in A : r.paper.currency = Currencies[i]}) = Cardinality({r \in B : r.paper.currency = Currencies[i]})
  OBVIOUS
<1>2. \A i \in DOMAIN Currencies :
        (\A j \in DOMAIN Currencies : Cardinality({r \in A : r.paper.currency = Currencies[j]})
                                        <= Cardinality({r \in A : r.paper.currency = Currencies[i]}))
        <=> (\A j \in DOMAIN Currencies : Cardinality({r \in B : r.paper.currency = Currencies[j]})
                                        <= Cardinality({r \in B : r.paper.currency = Currencies[i]}))
  BY <1>1
<1>3. {i \in DOMAIN Currencies : \A j \in DOMAIN Currencies : Cardinality({r \in A : r.paper.currency = Currencies[j]})
                                        <= Cardinality({r \in A : r.paper.currency = Currencies[i]})}
      = {i \in DOMAIN Currencies : \A j \in DOMAIN Currencies : Cardinality({r \in B : r.paper.currency = Currencies[j]})
                                        <= Cardinality({r \in B : r.paper.currency = Currencies[i]})}
  BY <1>2
<1> QED BY <1>3, Zenon DEF Commonest

LEMMA CommonestAgrees ==
  ASSUME CorpusHolds, NEW table, ReadsTheSame(table), NEW A \in SUBSET receipts, NEW B \in SUBSET table,
         \A r \in receipts, s \in table : ReadsAs(r, s) => (r \in A <=> s \in B)
  PROVE  Commonest(B) = Commonest(A)
<1>1. \A r, s : ReadsAs(r, s) => r.paper = s.paper
  BY DEF ReadsAs
<1>2. ASSUME NEW x
      PROVE  Cardinality({r \in B : r.paper.currency = x}) = Cardinality({r \in A : r.paper.currency = x})
  <2>1. PICK C, D : C = {r \in A : r.paper.currency = x} /\ D = {r \in B : r.paper.currency = x}
    OBVIOUS
  <2>2. C \in SUBSET receipts /\ D \in SUBSET table
    BY <2>1
  <2>3. \A r \in receipts, s \in table : ReadsAs(r, s) => (r \in C <=> s \in D)
    BY <1>1, <2>1
  <2> QED BY <2>1, <2>2, <2>3, OneForOne
<1>3. PICK g : Counterparts(g, A, B)
  BY OneForOne
<1>4. (\A r \in A : r.paper.currency = NULL) <=> (\A r \in B : r.paper.currency = NULL)
  BY <1>1, <1>3 DEF Counterparts
<1> QED BY <1>2, <1>4, CommonestOf

ReadOf(table, country) == {r \in table : Settled(r) /\ r.paper.country = country}
MarketIn(table, country) ==
    [currency |-> Commonest(ReadOf(table, country)), receipts |-> Cardinality(ReadOf(table, country))]

LEMMA MarketsAgreeIn ==
  ASSUME CorpusHolds, NEW table, ReadsTheSame(table), NEW country
  PROVE  MarketIn(table, country) = MarketIn(receipts, country)
<1>1. PICK A, B : A = ReadOf(receipts, country) /\ B = ReadOf(table, country)
  OBVIOUS
<1>2. A \in SUBSET receipts /\ B \in SUBSET table
  BY <1>1 DEF ReadOf
<1>3. \A r \in receipts, s \in table : ReadsAs(r, s) => (r \in A <=> s \in B)
  BY <1>1 DEF ReadsAs, ReadOf
<1>4. Commonest(B) = Commonest(A) /\ Cardinality(B) = Cardinality(A)
  BY <1>2, <1>3, CommonestAgrees, OneForOne
<1> QED BY <1>1, <1>4 DEF MarketIn

LEMMA Unclaimed_Commonest == \A rs : UnclaimedLedger!Commonest(rs) = Commonest(rs)
BY Unclaimed_Count, Unclaimed_Ends DEF UnclaimedLedger!Commonest, Commonest
LEMMA Unseeded_Commonest == \A rs : Unseeded!Commonest(rs) = Commonest(rs)
BY Unseeded_Count, Unseeded_Ends DEF Unseeded!Commonest, Commonest
LEMMA MarketHere == \A country : countryMarket(country) = MarketIn(receipts, country)
BY DEF countryMarket, MarketIn, ReadOf
LEMMA Unclaimed_Market == \A country : UnclaimedLedger!countryMarket(country) = MarketIn(AsSettled, country)
BY Unclaimed_Commonest, Unclaimed_Count DEF UnclaimedLedger!countryMarket, MarketIn, ReadOf, Settled, UnclaimedLedger!Settled, SETTLED, UnclaimedLedger!SETTLED
LEMMA Unseeded_Market == \A country : Unseeded!countryMarket(country) = MarketIn(AsRead, country)
BY Unseeded_Commonest, Unseeded_Count DEF Unseeded!countryMarket, MarketIn, ReadOf, Settled, Unseeded!Settled, SETTLED, Unseeded!SETTLED

LEMMA Unclaimed_BoardItem == CorpusHolds => \A c, country : UnclaimedLedger!boardItem(c, country) = boardItem(c, country)
<1> SUFFICES ASSUME CorpusHolds, NEW c, NEW country PROVE UnclaimedLedger!boardItem(c, country) = boardItem(c, country)
  OBVIOUS
<1>1. \A w, window : UnclaimedLedger!marketUnitPrice(c, country, w, window) = marketUnitPrice(c, country, w, window)
  BY PriceHere, Unclaimed_MarketPrice, SettledReadsTheSame, PricesAgreeIn
<1>2. \A d, e : UnclaimedLedger!marketWindow(d, e) = marketWindow(d, e)
  BY DEF marketWindow, UnclaimedLedger!marketWindow
<1>3. \A x : UnclaimedLedger!PriceOf(x) = PriceOf(x)
  BY DEF PriceOf, UnclaimedLedger!PriceOf
<1>4. \A x, y : UnclaimedLedger!priceChange(x, y) = priceChange(x, y)
  BY <1>3 DEF priceChange, UnclaimedLedger!priceChange
<1> QED BY <1>1, <1>2, <1>3, <1>4 DEF boardItem, UnclaimedLedger!boardItem
LEMMA Unseeded_BoardItem == CorpusHolds => \A c, country : Unseeded!boardItem(c, country) = boardItem(c, country)
<1> SUFFICES ASSUME CorpusHolds, NEW c, NEW country PROVE Unseeded!boardItem(c, country) = boardItem(c, country)
  OBVIOUS
<1>1. \A w, window : Unseeded!marketUnitPrice(c, country, w, window) = marketUnitPrice(c, country, w, window)
  BY PriceHere, Unseeded_MarketPrice, ReadReadsTheSame, PricesAgreeIn
<1>2. \A d, e : Unseeded!marketWindow(d, e) = marketWindow(d, e)
  BY DEF marketWindow, Unseeded!marketWindow
<1>3. \A x : Unseeded!PriceOf(x) = PriceOf(x)
  BY DEF PriceOf, Unseeded!PriceOf
<1>4. \A x, y : Unseeded!priceChange(x, y) = priceChange(x, y)
  BY <1>3 DEF priceChange, Unseeded!priceChange
<1> QED BY <1>1, <1>2, <1>3, <1>4 DEF boardItem, Unseeded!boardItem

LEMMA Unclaimed_Board == CorpusHolds => \A country : UnclaimedLedger!marketBoard(country) = marketBoard(country)
<1>1. UnclaimedLedger!ITEM_CATEGORIES = ITEM_CATEGORIES
  BY DEF UnclaimedLedger!ITEM_CATEGORIES, ITEM_CATEGORIES, UnclaimedLedger!CANONICAL_UNIT, CANONICAL_UNIT
<1>2. CorpusHolds => \A country : UnclaimedLedger!countryMarket(country) = countryMarket(country)
  BY Unclaimed_Market, MarketHere, SettledReadsTheSame, MarketsAgreeIn
<1> QED BY Unclaimed_BoardItem, <1>1, <1>2 DEF marketBoard, UnclaimedLedger!marketBoard
LEMMA Unseeded_Board == CorpusHolds => \A country : Unseeded!marketBoard(country) = marketBoard(country)
<1>1. Unseeded!ITEM_CATEGORIES = ITEM_CATEGORIES
  BY DEF Unseeded!ITEM_CATEGORIES, ITEM_CATEGORIES, Unseeded!CANONICAL_UNIT, CANONICAL_UNIT
<1>2. CorpusHolds => \A country : Unseeded!countryMarket(country) = countryMarket(country)
  BY Unseeded_Market, MarketHere, ReadReadsTheSame, MarketsAgreeIn
<1> QED BY Unseeded_BoardItem, <1>1, <1>2 DEF marketBoard, Unseeded!marketBoard

-----------------------------------------------------------------------------
(* The index, in the instance with nothing claimed and with nothing made up. *)

LEMMA UnclaimedIndex_Count == \A S : UnclaimedIndex!Cardinality(S) = Cardinality(S)
BY Zenon DEF UnclaimedIndex!Cardinality, Cardinality, UnclaimedIndex!IsFiniteSet, IsFiniteSet
LEMMA UnclaimedIndex_Ends == \A S : UnclaimedIndex!Max(S) = Max(S) /\ UnclaimedIndex!Min(S) = Min(S)
BY Zenon DEF UnclaimedIndex!Max, Max, UnclaimedIndex!Min, Min
LEMMA UnclaimedIndex_Median == \A R : UnclaimedIndex!Median2(R) = Median2(R)
<1>1. \A R, j : UnclaimedIndex!AtRank(R, j) = AtRank(R, j)
  BY UnclaimedIndex_Count DEF UnclaimedIndex!AtRank, AtRank
<1> QED BY UnclaimedIndex_Count, <1>1 DEF UnclaimedIndex!Median2, Median2

LEMMA UnclaimedIndex_Cap == \A A : UnclaimedIndex!capPerPerson(A) = capPerPerson(A)
<1> SUFFICES ASSUME NEW A PROVE UnclaimedIndex!capPerPerson(A) = capPerPerson(A)
  OBVIOUS
<1>1. \A S : UnclaimedIndex!MapThenSumSet(LAMBDA p : p.expenditure, S) = MapThenSumSet(LAMBDA p : p.expenditure, S)
  BY Zenon DEF UnclaimedIndex!MapThenSumSet, MapThenSumSet, UnclaimedIndex!MapThenFoldSet, MapThenFoldSet
<1>2. \A o : UnclaimedIndex!Median2({<<p, p.price>> : p \in SameOf(A, o)}) = Median2({<<p, p.price>> : p \in SameOf(A, o)})
  BY UnclaimedIndex_Median
<1>3. \A o : UnclaimedIndex!Max({p.at : p \in SameOf(A, o)}) = Max({p.at : p \in SameOf(A, o)})
  BY UnclaimedIndex_Ends
<1>4. UnclaimedIndex!capPerPerson(A) = {[person |-> o.person, key |-> o.key,
          price |-> UnclaimedIndex!Median2({<<p, p.price>> : p \in SameOf(A, o)}),
          expenditure |-> UnclaimedIndex!MapThenSumSet(LAMBDA p : p.expenditure, SameOf(A, o)),
          at |-> UnclaimedIndex!Max({p.at : p \in SameOf(A, o)})] : o \in A}
  BY Zenon DEF UnclaimedIndex!capPerPerson, SameOf
<1>5. \A o : [person |-> o.person, key |-> o.key,
          price |-> UnclaimedIndex!Median2({<<p, p.price>> : p \in SameOf(A, o)}),
          expenditure |-> UnclaimedIndex!MapThenSumSet(LAMBDA p : p.expenditure, SameOf(A, o)),
          at |-> UnclaimedIndex!Max({p.at : p \in SameOf(A, o)})] = CappedFor(A, o)
  BY <1>1, <1>2, <1>3 DEF CappedFor, PersonPrice
<1>6. UnclaimedIndex!capPerPerson(A) = {CappedFor(A, o) : o \in A}
  BY <1>4, <1>5, Zenon
<1> QED BY <1>6, CapIs
LEMMA UnclaimedIndex_Collapse == \A A : UnclaimedIndex!collapseToPeriodPrices(A) = collapseToPeriodPrices(A)
<1> SUFFICES ASSUME NEW A PROVE UnclaimedIndex!collapseToPeriodPrices(A) = collapseToPeriodPrices(A)
  OBVIOUS
<1>1. \A S : UnclaimedIndex!MapThenSumSet(LAMBDA o : o.expenditure, S) = MapThenSumSet(LAMBDA o : o.expenditure, S)
  BY Zenon DEF UnclaimedIndex!MapThenSumSet, MapThenSumSet, UnclaimedIndex!MapThenFoldSet, MapThenFoldSet
<1>2. \A S : UnclaimedIndex!Median2({<<o, o.price>> : o \in S}) = Median2({<<o, o.price>> : o \in S})
  BY UnclaimedIndex_Median
<1>4. UnclaimedIndex!collapseToPeriodPrices(A) = [key \in {o.key : o \in A} |->
            [price |-> UnclaimedIndex!Median2({<<o, o.price>> : o \in WithKey(A, key)}),
             expenditure |-> UnclaimedIndex!MapThenSumSet(LAMBDA o : o.expenditure, WithKey(A, key)),
             people |-> {o.person : o \in WithKey(A, key)}]]
  BY Zenon DEF UnclaimedIndex!collapseToPeriodPrices, WithKey
<1>5. \A key : [price |-> UnclaimedIndex!Median2({<<o, o.price>> : o \in WithKey(A, key)}),
             expenditure |-> UnclaimedIndex!MapThenSumSet(LAMBDA o : o.expenditure, WithKey(A, key)),
             people |-> {o.person : o \in WithKey(A, key)}] = PeriodPrice(WithKey(A, key))
  BY <1>1, <1>2 DEF PeriodPrice
<1>6. UnclaimedIndex!collapseToPeriodPrices(A) = [key \in {o.key : o \in A} |-> PeriodPrice(WithKey(A, key))]
  BY <1>4, <1>5, Zenon
<1> QED BY <1>6, CollapseIs
LEMMA UnclaimedIndex_Trim == \A R : UnclaimedIndex!applyIntegrity(R) = applyIntegrity(R)
<1>1. \A S : UnclaimedIndex!Cardinality(S) = Cardinality(S)
  BY UnclaimedIndex_Count
<1>2. \A R, low, high : UnclaimedIndex!TrimmedOff(R, low, high) = TrimmedOff(R, low, high)
  BY <1>1 DEF UnclaimedIndex!TrimmedOff, TrimmedOff, UnclaimedIndex!Cheaper, Cheaper, UnclaimedIndex!Likewise, Likewise
<1>3. \A R : UnclaimedIndex!trimTails(R) = trimTails(R)
  BY <1>1, <1>2 DEF UnclaimedIndex!trimTails, trimTails
<1> QED BY <1>3 DEF UnclaimedIndex!applyIntegrity, applyIntegrity, UnclaimedIndex!requirePeoplePerItem, requirePeoplePerItem,
                    UnclaimedIndex!dropImplausible, dropImplausible
LEMMA UnclaimedIndex_Observe == \A lines, h : UnclaimedIndex!toObservations(lines, h) = toObservations(lines, h)
BY DEF UnclaimedIndex!toObservations, toObservations, UnclaimedIndex!Observation, Observation, UnclaimedIndex!PriceOn, PriceOn,
       UnclaimedIndex!personOf, personOf, UnclaimedIndex!ObservedAt, ObservedAt
LEMMA UnclaimedIndex_Relatives == \A p, c : UnclaimedIndex!priceRelatives(p, c) = priceRelatives(p, c)
<1>1. \A S : UnclaimedIndex!Cardinality(S) = Cardinality(S)
  BY UnclaimedIndex_Count
<1> QED BY <1>1 DEF UnclaimedIndex!priceRelatives, priceRelatives, UnclaimedIndex!Relative, Relative
LEMMA UnclaimedIndex_Index == \A P, C, h : UnclaimedIndex!IndexOf(P, C, h) = IndexOf(P, C, h)
<1> SUFFICES ASSUME NEW P, NEW C, NEW h PROVE UnclaimedIndex!IndexOf(P, C, h) = IndexOf(P, C, h)
  OBVIOUS
<1>1. \A S : UnclaimedIndex!Cardinality(S) = Cardinality(S)
  BY UnclaimedIndex_Count
<1>2. \A R, n : UnclaimedIndex!checkEligibility(R, n) = checkEligibility(R, n)
  BY <1>1 DEF UnclaimedIndex!checkEligibility, checkEligibility
<1>3. PICK b, n : b = capPerPerson(toObservations(P, h)) /\ n = capPerPerson(toObservations(C, h))
  OBVIOUS
<1>4. UnclaimedIndex!capPerPerson(UnclaimedIndex!toObservations(P, h)) = b /\ UnclaimedIndex!capPerPerson(UnclaimedIndex!toObservations(C, h)) = n
  BY <1>3, UnclaimedIndex_Observe, UnclaimedIndex_Cap
<1>5. PICK clean : clean = applyIntegrity(priceRelatives(collapseToPeriodPrices(b), collapseToPeriodPrices(n)))
  OBVIOUS
<1>6. UnclaimedIndex!applyIntegrity(UnclaimedIndex!priceRelatives(UnclaimedIndex!collapseToPeriodPrices(b), UnclaimedIndex!collapseToPeriodPrices(n))) = clean
  BY <1>5, UnclaimedIndex_Collapse, UnclaimedIndex_Relatives, UnclaimedIndex_Trim
<1> QED BY <1>1, <1>2, <1>3, <1>4, <1>5, <1>6 DEF UnclaimedIndex!IndexOf, IndexOf
LEMMA UnclaimedIndex_Pull == \A country, from, to : UnclaimedIndex!pull(country, from, to) = PulledFrom(AsSettled, country, from, to)
BY DEF UnclaimedIndex!pull, PulledFrom, UnclaimedIndex!Settled, Settled, UnclaimedIndex!SETTLED, SETTLED, UnclaimedIndex!ObservedAt, ObservedAt
LEMMA UnclaimedIndex_Epoch == \A country, t : UnclaimedIndex!computeEpochIndex(country, t) =
   IndexOf(PulledFrom(AsSettled, country, t - 2 * WindowDays, t - WindowDays), PulledFrom(AsSettled, country, t - WindowDays, t), human)
BY UnclaimedIndex_Pull, UnclaimedIndex_Index DEF UnclaimedIndex!computeEpochIndex, UnclaimedIndex!Previous, UnclaimedIndex!Current

LEMMA Unseeded_Cap == \A A : Unseeded!capPerPerson(A) = capPerPerson(A)
<1> SUFFICES ASSUME NEW A PROVE Unseeded!capPerPerson(A) = capPerPerson(A)
  OBVIOUS
<1>1. \A S : Unseeded!MapThenSumSet(LAMBDA p : p.expenditure, S) = MapThenSumSet(LAMBDA p : p.expenditure, S)
  BY Zenon DEF Unseeded!MapThenSumSet, MapThenSumSet, Unseeded!MapThenFoldSet, MapThenFoldSet
<1>2. \A o : Unseeded!Median2({<<p, p.price>> : p \in SameOf(A, o)}) = Median2({<<p, p.price>> : p \in SameOf(A, o)})
  BY Unseeded_Median
<1>3. \A o : Unseeded!Max({p.at : p \in SameOf(A, o)}) = Max({p.at : p \in SameOf(A, o)})
  BY Unseeded_Ends
<1>4. Unseeded!capPerPerson(A) = {[person |-> o.person, key |-> o.key,
          price |-> Unseeded!Median2({<<p, p.price>> : p \in SameOf(A, o)}),
          expenditure |-> Unseeded!MapThenSumSet(LAMBDA p : p.expenditure, SameOf(A, o)),
          at |-> Unseeded!Max({p.at : p \in SameOf(A, o)})] : o \in A}
  BY Zenon DEF Unseeded!capPerPerson, SameOf
<1>5. \A o : [person |-> o.person, key |-> o.key,
          price |-> Unseeded!Median2({<<p, p.price>> : p \in SameOf(A, o)}),
          expenditure |-> Unseeded!MapThenSumSet(LAMBDA p : p.expenditure, SameOf(A, o)),
          at |-> Unseeded!Max({p.at : p \in SameOf(A, o)})] = CappedFor(A, o)
  BY <1>1, <1>2, <1>3 DEF CappedFor, PersonPrice
<1>6. Unseeded!capPerPerson(A) = {CappedFor(A, o) : o \in A}
  BY <1>4, <1>5, Zenon
<1> QED BY <1>6, CapIs
LEMMA Unseeded_Collapse == \A A : Unseeded!collapseToPeriodPrices(A) = collapseToPeriodPrices(A)
<1> SUFFICES ASSUME NEW A PROVE Unseeded!collapseToPeriodPrices(A) = collapseToPeriodPrices(A)
  OBVIOUS
<1>1. \A S : Unseeded!MapThenSumSet(LAMBDA o : o.expenditure, S) = MapThenSumSet(LAMBDA o : o.expenditure, S)
  BY Zenon DEF Unseeded!MapThenSumSet, MapThenSumSet, Unseeded!MapThenFoldSet, MapThenFoldSet
<1>2. \A S : Unseeded!Median2({<<o, o.price>> : o \in S}) = Median2({<<o, o.price>> : o \in S})
  BY Unseeded_Median
<1>4. Unseeded!collapseToPeriodPrices(A) = [key \in {o.key : o \in A} |->
            [price |-> Unseeded!Median2({<<o, o.price>> : o \in WithKey(A, key)}),
             expenditure |-> Unseeded!MapThenSumSet(LAMBDA o : o.expenditure, WithKey(A, key)),
             people |-> {o.person : o \in WithKey(A, key)}]]
  BY Zenon DEF Unseeded!collapseToPeriodPrices, WithKey
<1>5. \A key : [price |-> Unseeded!Median2({<<o, o.price>> : o \in WithKey(A, key)}),
             expenditure |-> Unseeded!MapThenSumSet(LAMBDA o : o.expenditure, WithKey(A, key)),
             people |-> {o.person : o \in WithKey(A, key)}] = PeriodPrice(WithKey(A, key))
  BY <1>1, <1>2 DEF PeriodPrice
<1>6. Unseeded!collapseToPeriodPrices(A) = [key \in {o.key : o \in A} |-> PeriodPrice(WithKey(A, key))]
  BY <1>4, <1>5, Zenon
<1> QED BY <1>6, CollapseIs
LEMMA Unseeded_Trim == \A R : Unseeded!applyIntegrity(R) = applyIntegrity(R)
<1>1. \A S : Unseeded!Cardinality(S) = Cardinality(S)
  BY Unseeded_Count
<1>2. \A R, low, high : Unseeded!TrimmedOff(R, low, high) = TrimmedOff(R, low, high)
  BY <1>1 DEF Unseeded!TrimmedOff, TrimmedOff, Unseeded!Cheaper, Cheaper, Unseeded!Likewise, Likewise
<1>3. \A R : Unseeded!trimTails(R) = trimTails(R)
  BY <1>1, <1>2 DEF Unseeded!trimTails, trimTails
<1> QED BY <1>3 DEF Unseeded!applyIntegrity, applyIntegrity, Unseeded!requirePeoplePerItem, requirePeoplePerItem,
                    Unseeded!dropImplausible, dropImplausible
LEMMA Unseeded_Observe == \A lines, h : Unseeded!toObservations(lines, h) = toObservations(lines, h)
BY DEF Unseeded!toObservations, toObservations, Unseeded!Observation, Observation, Unseeded!PriceOn, PriceOn,
       Unseeded!personOf, personOf, Unseeded!ObservedAt, ObservedAt
LEMMA Unseeded_Relatives == \A p, c : Unseeded!priceRelatives(p, c) = priceRelatives(p, c)
<1>1. \A S : Unseeded!Cardinality(S) = Cardinality(S)
  BY Unseeded_Count
<1> QED BY <1>1 DEF Unseeded!priceRelatives, priceRelatives, Unseeded!Relative, Relative
LEMMA Unseeded_Index == \A P, C, h : Unseeded!IndexOf(P, C, h) = IndexOf(P, C, h)
<1> SUFFICES ASSUME NEW P, NEW C, NEW h PROVE Unseeded!IndexOf(P, C, h) = IndexOf(P, C, h)
  OBVIOUS
<1>1. \A S : Unseeded!Cardinality(S) = Cardinality(S)
  BY Unseeded_Count
<1>2. \A R, n : Unseeded!checkEligibility(R, n) = checkEligibility(R, n)
  BY <1>1 DEF Unseeded!checkEligibility, checkEligibility
<1>3. PICK b, n : b = capPerPerson(toObservations(P, h)) /\ n = capPerPerson(toObservations(C, h))
  OBVIOUS
<1>4. Unseeded!capPerPerson(Unseeded!toObservations(P, h)) = b /\ Unseeded!capPerPerson(Unseeded!toObservations(C, h)) = n
  BY <1>3, Unseeded_Observe, Unseeded_Cap
<1>5. PICK clean : clean = applyIntegrity(priceRelatives(collapseToPeriodPrices(b), collapseToPeriodPrices(n)))
  OBVIOUS
<1>6. Unseeded!applyIntegrity(Unseeded!priceRelatives(Unseeded!collapseToPeriodPrices(b), Unseeded!collapseToPeriodPrices(n))) = clean
  BY <1>5, Unseeded_Collapse, Unseeded_Relatives, Unseeded_Trim
<1> QED BY <1>1, <1>2, <1>3, <1>4, <1>5, <1>6 DEF Unseeded!IndexOf, IndexOf
LEMMA Unseeded_Pull == \A country, from, to : Unseeded!pull(country, from, to) = PulledFrom(AsRead, country, from, to)
BY DEF Unseeded!pull, PulledFrom, Unseeded!Settled, Settled, Unseeded!SETTLED, SETTLED, Unseeded!ObservedAt, ObservedAt
LEMMA Unseeded_Epoch == \A country, t : Unseeded!computeEpochIndex(country, t) =
   IndexOf(PulledFrom(AsRead, country, t - 2 * WindowDays, t - WindowDays), PulledFrom(AsRead, country, t - WindowDays, t), human)
BY Unseeded_Pull, Unseeded_Index DEF Unseeded!computeEpochIndex, Unseeded!Previous, Unseeded!Current

-----------------------------------------------------------------------------
(* The lines an index is drawn from carry the same marks in either table.  *)

LEMMA MarksAgreeIn ==
  ASSUME CorpusHolds, NEW table, ReadsTheSame(table), NEW country, NEW from, NEW to
  PROVE  MarksOf(PulledFrom(table, country, from, to)) = MarksOf(PulledFrom(receipts, country, from, to))
<1>1. ASSUME NEW r, NEW s, ReadsAs(r, s), NEW i
      PROVE  (i \in DOMAIN r.lines /\ Public(country, r, i))
                <=> (i \in DOMAIN s.lines /\ Public(country, s, i))
  <2>1. \A q : i \in DOMAIN q.lines /\ Public(country, q, i) <=>
                  i \in Read(q) /\ q.paper.country = country /\ q.paper.shop # NULL /\ Settled(q)
    BY DEF Read, Public
  <2> QED BY <1>1, <2>1 DEF ReadsAs
<1>2. ASSUME NEW r, NEW s, ReadsAs(r, s), NEW i \in DOMAIN r.lines, Public(country, r, i)
      PROVE  s.paper = r.paper /\ s.lines[i] = r.lines[i]
  BY <1>2 DEF ReadsAs, Read, Public
<1>3. ASSUME NEW m, m \in MarksOf(PulledFrom(receipts, country, from, to))
      PROVE  m \in MarksOf(PulledFrom(table, country, from, to))
  <2>1. PICK r \in receipts : \E i \in DOMAIN r.lines :
                    /\ m = <<r.paper, i, r.lines[i]>> /\ Public(country, r, i)
                    /\ from <= r.lines[i].at /\ r.lines[i].at < to
    BY <1>3, MarksAre
  <2>2. PICK i \in DOMAIN r.lines :
                    /\ m = <<r.paper, i, r.lines[i]>> /\ Public(country, r, i)
                    /\ from <= r.lines[i].at /\ r.lines[i].at < to
    BY <2>1
  <2>3. PICK s \in table : ReadsAs(r, s)
    BY DEF ReadsTheSame
  <2>4. /\ i \in DOMAIN s.lines /\ m = <<s.paper, i, s.lines[i]>> /\ Public(country, s, i)
        /\ from <= s.lines[i].at /\ s.lines[i].at < to
    BY <1>1, <1>2, <2>2, <2>3
  <2> QED BY <2>4, MarksAre
<1>4. ASSUME NEW m, m \in MarksOf(PulledFrom(table, country, from, to))
      PROVE  m \in MarksOf(PulledFrom(receipts, country, from, to))
  <2>1. PICK s \in table : \E i \in DOMAIN s.lines :
                    /\ m = <<s.paper, i, s.lines[i]>> /\ Public(country, s, i)
                    /\ from <= s.lines[i].at /\ s.lines[i].at < to
    BY <1>4, MarksAre
  <2>2. PICK i \in DOMAIN s.lines :
                    /\ m = <<s.paper, i, s.lines[i]>> /\ Public(country, s, i)
                    /\ from <= s.lines[i].at /\ s.lines[i].at < to
    BY <2>1
  <2>3. PICK r \in receipts : ReadsAs(r, s)
    BY DEF ReadsTheSame
  <2>4. /\ i \in DOMAIN r.lines /\ m = <<r.paper, i, r.lines[i]>> /\ Public(country, r, i)
        /\ from <= r.lines[i].at /\ r.lines[i].at < to
    BY <1>1, <1>2, <2>2, <2>3
  <2> QED BY <2>4, MarksAre
<1> QED BY <1>3, <1>4

LEMMA IndicesAgreeIn ==
  ASSUME CorpusHolds, NEW table, ReadsTheSame(table), NEW country, NEW t
  PROVE  IndexOf(PulledFrom(table, country, t - 2 * WindowDays, t - WindowDays),
                 PulledFrom(table, country, t - WindowDays, t), human) = computeEpochIndex(country, t)
<1>1. PICK P, C, P2, C2 : /\ P = PulledFrom(receipts, country, t - 2 * WindowDays, t - WindowDays)
                          /\ C = PulledFrom(receipts, country, t - WindowDays, t)
                          /\ P2 = PulledFrom(table, country, t - 2 * WindowDays, t - WindowDays)
                          /\ C2 = PulledFrom(table, country, t - WindowDays, t)
  OBVIOUS
<1>2. /\ \A r \in receipts : HasRows(r)
      /\ \A s \in table : HasRows(s)
      /\ IsFiniteSet(receipts) /\ IsFiniteSet(table)
      /\ \A r, s \in receipts : r.paper = s.paper => r = s
      /\ \A r, s \in table : r.paper = s.paper => r = s
  BY ReceiptRows DEF CorpusHolds, OnePaperEach, ReadsTheSame, ReadsAs
<1>3. Distinct(P) /\ Distinct(C) /\ Distinct(P2) /\ Distinct(C2)
  BY <1>1, <1>2, PulledDistinct
<1>4. MarksOf(P2) = MarksOf(P) /\ MarksOf(C2) = MarksOf(C)
  BY <1>1, MarksAgreeIn
<1>5. /\ capPerPerson(toObservations(P2, human)) = capPerPerson(toObservations(P, human))
      /\ capPerPerson(toObservations(C2, human)) = capPerPerson(toObservations(C, human))
  BY <1>3, <1>4, SameMarksSameCaps
<1>6. IndexOf(P2, C2, human) = IndexOf(P, C, human)
  BY <1>5, IndexOfCaps
<1> QED BY <1>1, <1>6, PullIs DEF computeEpochIndex, Previous, Current

LEMMA SeedsDoNotMovePrices == CorpusHolds => SeedsMoveNoPrice
<1> SUFFICES ASSUME CorpusHolds PROVE SeedsMoveNoPrice
  OBVIOUS
<1>1. \A country, t : Unseeded!computeEpochIndex(country, t) = computeEpochIndex(country, t)
  BY Unseeded_Epoch, ReadReadsTheSame, IndicesAgreeIn
<1>2. \A country : Unseeded!marketBoard(country) = marketBoard(country)
  BY Unseeded_Board
<1> QED BY <1>1, <1>2 DEF SeedsMoveNoPrice

LEMMA ClaimsDoNotMovePrices == CorpusHolds =>
  \A country : /\ UnclaimedLedger!marketBoard(country) = marketBoard(country)
               /\ \A t : UnclaimedIndex!computeEpochIndex(country, t) = computeEpochIndex(country, t)
BY Unclaimed_Board, UnclaimedIndex_Epoch, SettledReadsTheSame, IndicesAgreeIn

-----------------------------------------------------------------------------
(* A wallet's own screens with nothing claimed: its receipts one for one,  *)
(* with their lines, and the sums and prices over them.                    *)

Settle(r) == [r EXCEPT !.status = BeforeClaim(@)]
OnSettled(l) == [receipt |-> Settle(l.receipt), at |-> l.at]
AllSettled(lines) == {OnSettled(l) : l \in lines}

LEMMA SettleKeeps ==
  ASSUME CorpusHolds, NEW r \in receipts
  PROVE  /\ Settle(r).paper = r.paper /\ Settle(r).issued = r.issued /\ Settle(r).lines = r.lines
         /\ Settled(Settle(r)) <=> Settled(r)
         /\ Settle(r) \in AsSettled /\ ReadsAs(r, Settle(r))
<1>1. r \in Receipt
  BY DEF CorpusHolds
<1>2. r.status \in Status
  BY <1>1 DEF Receipt
<1>3. Settle(r) = [r EXCEPT !.status = BeforeClaim(r.status)]
  BY DEF Settle
<1>4. /\ Settle(r).paper = r.paper /\ Settle(r).issued = r.issued /\ Settle(r).lines = r.lines
      /\ Settle(r).status = BeforeClaim(r.status)
  BY <1>1, <1>3 DEF Receipt
<1>5. BeforeClaim(r.status) \in SETTLED <=> r.status \in SETTLED
  BY <1>2 DEF BeforeClaim, SETTLED, Status
<1>6. Settle(r) \in AsSettled
  BY DEF AsSettled, Settle
<1>7. HasRows(Settle(r))
  BY <1>1, <1>4, ReceiptRows DEF HasRows
<1> QED BY <1>4, <1>5, <1>6, <1>7 DEF Settled, ReadsAs, Read

LEMMA SettledAre == AsSettled = {Settle(r) : r \in receipts}
BY DEF AsSettled, Settle

LEMMA SettleOne ==
  ASSUME CorpusHolds, NEW r \in receipts, NEW s \in receipts, Settle(r) = Settle(s)
  PROVE  r = s
BY SettleKeeps DEF CorpusHolds, OnePaperEach

LEMMA EntriesStay ==
  ASSUME CorpusHolds, NEW l \in LinesOf(receipts)
  PROVE  /\ Entry(OnSettled(l)) = Entry(l) /\ OnSettled(l).at = l.at
         /\ OnSettled(l).receipt = Settle(l.receipt) /\ l.receipt \in receipts
         /\ l = [receipt |-> l.receipt, at |-> l.at] /\ l.at \in DOMAIN l.receipt.lines
         /\ Entry(l) \in ItemRow
<1>1. PICK r \in receipts : \E i \in DOMAIN r.lines : l = [receipt |-> r, at |-> i]
  BY DEF LinesOf
<1>2. PICK i \in DOMAIN r.lines : l = [receipt |-> r, at |-> i]
  BY <1>1
<1>3. OnSettled(l).receipt = Settle(r) /\ OnSettled(l).at = i
  BY <1>2 DEF OnSettled
<1>4. Settle(r).lines = r.lines
  BY SettleKeeps
<1>5. r.lines[i] \in ItemRow
  BY LineType DEF CorpusHolds
<1> QED BY <1>2, <1>3, <1>4, <1>5 DEF Entry

LEMMA OnSettledOne ==
  ASSUME CorpusHolds, NEW l \in LinesOf(receipts), NEW k \in LinesOf(receipts), OnSettled(l) = OnSettled(k)
  PROVE  l = k
<1>1. Settle(l.receipt) = Settle(k.receipt) /\ l.at = k.at
  BY EntriesStay
<1>2. l.receipt = k.receipt
  BY <1>1, EntriesStay, SettleOne
<1> QED BY <1>1, <1>2, EntriesStay

LEMMA LinesSettled ==
  ASSUME CorpusHolds, NEW S \in SUBSET receipts
  PROVE  LinesOf({Settle(r) : r \in S}) = AllSettled(LinesOf(S))
<1>1. \A r \in S : DOMAIN Settle(r).lines = DOMAIN r.lines
  BY SettleKeeps
<1>2. \A l : l \in LinesOf(S) <=> \E r \in S : \E i \in DOMAIN r.lines : l = [receipt |-> r, at |-> i]
  BY DEF LinesOf
<1>3. \A l : l \in LinesOf({Settle(r) : r \in S}) <=>
                \E r \in S : \E i \in DOMAIN Settle(r).lines : l = [receipt |-> Settle(r), at |-> i]
  BY DEF LinesOf
<1>4. \A r, i : OnSettled([receipt |-> r, at |-> i]) = [receipt |-> Settle(r), at |-> i]
  BY DEF OnSettled
<1>5. \A l : l \in AllSettled(LinesOf(S)) <=>
                \E r \in S : \E i \in DOMAIN r.lines : l = [receipt |-> Settle(r), at |-> i]
  <2> SUFFICES ASSUME NEW l
               PROVE  l \in AllSettled(LinesOf(S)) <=>
                \E r \in S : \E i \in DOMAIN r.lines : l = [receipt |-> Settle(r), at |-> i]
    OBVIOUS
  <2>1. l \in AllSettled(LinesOf(S)) <=> \E k \in LinesOf(S) : l = OnSettled(k)
    BY DEF AllSettled
  <2>2. ASSUME NEW k \in LinesOf(S), l = OnSettled(k)
        PROVE  \E r \in S : \E i \in DOMAIN r.lines : l = [receipt |-> Settle(r), at |-> i]
    <3>1. PICK r \in S : \E i \in DOMAIN r.lines : k = [receipt |-> r, at |-> i]
      BY <1>2
    <3>2. PICK i \in DOMAIN r.lines : k = [receipt |-> r, at |-> i]
      BY <3>1
    <3>3. l = [receipt |-> Settle(r), at |-> i]
      BY <1>4, <2>2, <3>2
    <3> QED BY <3>3
  <2>3. ASSUME NEW r \in S, NEW i \in DOMAIN r.lines, l = [receipt |-> Settle(r), at |-> i]
        PROVE  \E k \in LinesOf(S) : l = OnSettled(k)
    <3>1. PICK k : k = [receipt |-> r, at |-> i]
      OBVIOUS
    <3>2. k \in LinesOf(S) /\ OnSettled(k) = l
      BY <1>2, <1>4, <2>3, <3>1
    <3> QED BY <3>2
  <2> QED BY <2>1, <2>2, <2>3
<1> QED BY <1>1, <1>3, <1>5

LEMMA Counted ==
  ASSUME CorpusHolds, NEW A \in SUBSET LinesOf(receipts)
  PROVE  /\ IsFiniteSet(A) /\ Cardinality(AllSettled(A)) = Cardinality(A)
<1>1. PICK g : g = [l \in A |-> OnSettled(l)]
  OBVIOUS
<1>2. g \in Bijection(A, AllSettled(A))
  <2>1. \A l, k \in A : OnSettled(l) = OnSettled(k) => l = k
    BY OnSettledOne
  <2>2. \A l \in A : g[l] = OnSettled(l)
    BY <1>1
  <2>3. g \in [A -> AllSettled(A)]
    BY <1>1 DEF AllSettled
  <2>4. \A k \in AllSettled(A) : \E l \in A : g[l] = k
    BY <2>2 DEF AllSettled
  <2> QED BY <2>1, <2>2, <2>3, <2>4 DEF Bijection, Injection, Surjection, IsInjective
<1>3. IsFiniteSet(A)
  BY LinesAreFinite, ReceiptRows, FS_Subset DEF CorpusHolds
<1> QED BY <1>2, <1>3, FS_Bijection DEF ExistsBijection

LEMMA PaidStays ==
  ASSUME CorpusHolds, NEW A \in SUBSET LinesOf(receipts)
  PROVE  Paid(AllSettled(A)) = Paid(A)
<1>1. PICK B, C, D : B = {l \in A : Entry(l).total # NULL} /\ C = AllSettled(A) /\ D = {l \in C : Entry(l).total # NULL}
  OBVIOUS
<1>2. PICK f, g, e : /\ f = [l \in B |-> Entry(l).total] /\ g = [l \in D |-> Entry(l).total]
                     /\ e = [l \in B |-> OnSettled(l)]
  OBVIOUS
<1>3. \A l \in A : Entry(OnSettled(l)) = Entry(l) /\ Entry(l) \in ItemRow
  BY EntriesStay
<1>4. D = ImageOf(e, B)
  <2>1. \A k : k \in D <=> \E l \in B : k = OnSettled(l)
    BY <1>1, <1>3 DEF AllSettled
  <2>2. \A k : k \in ImageOf(e, B) <=> \E l \in B : k = OnSettled(l)
    BY <1>2 DEF ImageOf
  <2> QED BY <2>1, <2>2
<1>5. \A l, k \in B : e[l] = e[k] => l = k
  BY <1>1, <1>2, OnSettledOne
<1>6. \A l \in B : g[e[l]] = f[l] /\ f[l] \in Int
  <2> SUFFICES ASSUME NEW l \in B PROVE g[e[l]] = f[l] /\ f[l] \in Int
    OBVIOUS
  <2>1. e[l] \in D /\ e[l] = OnSettled(l)
    BY <1>2, <1>4 DEF ImageOf
  <2>2. Entry(l).total \in Int
    BY <1>1, <1>3 DEF ItemRow, RowRecord, Printed
  <2> QED BY <1>1, <1>2, <1>3, <2>1, <2>2
<1>7. IsFiniteSet(B)
  <2>1. B \in SUBSET LinesOf(receipts)
    BY <1>1
  <2> QED BY <2>1, Counted
<1>8. SameSum(g, e, f, B)
  BY <1>5, <1>6, <1>7, SumRenamed
<1>9. SumFunctionOnSet(g, D) = SumFunctionOnSet(f, B)
  BY <1>4, <1>8 DEF SameSum
<1>10. DOMAIN f = B /\ DOMAIN g = D
  BY <1>2
<1>11. Paid(A) = SumFunction(f) /\ Paid(C) = SumFunction(g)
  BY <1>1, <1>2 DEF Paid
<1> QED BY <1>1, <1>9, <1>10, <1>11 DEF SumFunction

-----------------------------------------------------------------------------
(* Filters and medians over lines move with their receipts.                *)

LEMMA FiltersMove ==
  ASSUME CorpusHolds, NEW A \in SUBSET LinesOf(receipts)
  PROVE  /\ Placed(AllSettled(A)) = AllSettled(Placed(A)) /\ OfPrice(AllSettled(A)) = AllSettled(OfPrice(A))
         /\ \A c : {l \in AllSettled(A) : Entry(l).category = c} = AllSettled({l \in A : Entry(l).category = c})
         /\ \A g : {l \in AllSettled(A) : CATEGORY_GROUP[Entry(l).category] = g}
                        = AllSettled({l \in A : CATEGORY_GROUP[Entry(l).category] = g})
         /\ \A B \in SUBSET A : AllSettled(A) \ AllSettled(B) = AllSettled(A \ B)
         /\ {Entry(l).category : l \in AllSettled(A)} = {Entry(l).category : l \in A}
<1>1. \A l \in A : Entry(OnSettled(l)) = Entry(l)
  BY EntriesStay
<1>2. \A l, k \in A : OnSettled(l) = OnSettled(k) => l = k
  BY OnSettledOne
<1>3. \A B : \A k : k \in AllSettled(B) <=> \E l \in B : k = OnSettled(l)
  BY DEF AllSettled
<1> HIDE DEF AllSettled
<1>4. Placed(AllSettled(A)) = AllSettled(Placed(A))
  BY <1>1, <1>3 DEF Placed
<1>5. OfPrice(AllSettled(A)) = AllSettled(OfPrice(A))
  BY <1>1, <1>3 DEF OfPrice
<1>6. \A c : {l \in AllSettled(A) : Entry(l).category = c} = AllSettled({l \in A : Entry(l).category = c})
  BY <1>1, <1>3
<1>7. \A g : {l \in AllSettled(A) : CATEGORY_GROUP[Entry(l).category] = g}
                        = AllSettled({l \in A : CATEGORY_GROUP[Entry(l).category] = g})
  BY <1>1, <1>3
<1>8. \A B \in SUBSET A : AllSettled(A) \ AllSettled(B) = AllSettled(A \ B)
  <2> SUFFICES ASSUME NEW B \in SUBSET A PROVE AllSettled(A) \ AllSettled(B) = AllSettled(A \ B)
    OBVIOUS
  <2>1. \A k : k \in AllSettled(A) \ AllSettled(B) <=> k \in AllSettled(A \ B)
    BY <1>2, <1>3
  <2> QED BY <2>1
<1>9. {Entry(l).category : l \in AllSettled(A)} = {Entry(l).category : l \in A}
  <2>1. \A x : x \in {Entry(l).category : l \in AllSettled(A)} <=> \E l \in AllSettled(A) : x = Entry(l).category
    OBVIOUS
  <2>2. \A x : x \in {Entry(l).category : l \in A} <=> \E l \in A : x = Entry(l).category
    OBVIOUS
  <2>3. \A x : (\E l \in AllSettled(A) : x = Entry(l).category) <=> (\E l \in A : x = Entry(l).category)
    BY <1>1, <1>3
  <2> QED BY <2>1, <2>2, <2>3
<1> QED BY <1>4, <1>5, <1>6, <1>7, <1>8, <1>9

LEMMA MedianStays ==
  ASSUME CorpusHolds, NEW A \in SUBSET LinesOf(receipts)
  PROVE  Median2Price(AllSettled(A)) = Median2Price(A)
<1>1. PICK B, D : B = OfPrice(A) /\ D = OfPrice(AllSettled(A))
  OBVIOUS
<1>2. D = AllSettled(B) /\ B \in SUBSET LinesOf(receipts)
  BY <1>1, FiltersMove DEF OfPrice
<1>3. PICK g, f, k : /\ g = [l \in B |-> OnSettled(l)]
                     /\ f = [l \in B |-> Entry(l).price] /\ k = [l \in D |-> Entry(l).price]
  OBVIOUS
<1>4. \A l \in B : g[l] \in D
  BY <1>2, <1>3 DEF AllSettled
<1>5. \A x, y \in B : g[x] = g[y] => x = y
  BY <1>2, <1>3, OnSettledOne
<1>6. \A y \in D : \E x \in B : g[x] = y
  BY <1>2, <1>3 DEF AllSettled
<1>7. \A x \in B : f[x] \in Int /\ k[g[x]] = f[x]
  <2> SUFFICES ASSUME NEW x \in B PROVE f[x] \in Int /\ k[g[x]] = f[x]
    OBVIOUS
  <2>1. Entry(OnSettled(x)) = Entry(x) /\ Entry(x) \in ItemRow
    BY <1>2, EntriesStay
  <2>2. Entry(x).price \in Nat
    BY <1>1, <2>1 DEF OfPrice, ItemRow, RowRecord, Price
  <2>3. g[x] = OnSettled(x) /\ g[x] \in D
    BY <1>3, <1>4
  <2> QED BY <1>3, <2>1, <2>2, <2>3
<1>8. IsFiniteSet(B)
  BY <1>2, Counted
<1>9. Median2(ReadingsOn(f, B)) = Median2(ReadingsOn(k, D))
  BY <1>4, <1>5, <1>6, <1>7, <1>8, MedianOfImage
<1>10. ReadingsOn(f, B) = {<<l, Entry(l).price>> : l \in B} /\ ReadingsOn(k, D) = {<<l, Entry(l).price>> : l \in D}
  BY <1>3 DEF ReadingsOn
<1>11. B = {} <=> D = {}
  BY <1>4, <1>6
<1> QED BY <1>1, <1>9, <1>10, <1>11 DEF Median2Price

LEMMA CategoriesStay ==
  ASSUME CorpusHolds, NEW A \in SUBSET LinesOf(receipts)
  PROVE  ByCategory(AllSettled(A)) = ByCategory(A)
<1>1. \A c : CategoryRow(AllSettled(A), c) = CategoryRow(A, c)
  <2> SUFFICES ASSUME NEW c PROVE CategoryRow(AllSettled(A), c) = CategoryRow(A, c)
    OBVIOUS
  <2>1. PICK B, D : B = {l \in A : Entry(l).category = c} /\ D = {l \in AllSettled(A) : Entry(l).category = c}
    OBVIOUS
  <2>2. D = AllSettled(B) /\ B \in SUBSET LinesOf(receipts)
    BY <2>1, FiltersMove
  <2>3. Median2Price(D) = Median2Price(B) /\ Cardinality(D) = Cardinality(B) /\ Paid(D) = Paid(B)
    BY <2>2, MedianStays, Counted, PaidStays
  <2> QED BY <2>1, <2>3 DEF CategoryRow
<1>2. {Entry(l).category : l \in AllSettled(A)} = {Entry(l).category : l \in A}
  BY FiltersMove
<1> QED BY <1>1, <1>2, ByCategoryIs

-----------------------------------------------------------------------------
(* The ledger with nothing claimed: helpers, and the receipts of a wallet. *)

LEMMA Unclaimed_Sum == \A f : UnclaimedLedger!SumFunction(f) = SumFunction(f)
BY Zenon DEF UnclaimedLedger!SumFunction, SumFunction, UnclaimedLedger!SumFunctionOnSet, SumFunctionOnSet,
   UnclaimedLedger!FoldFunctionOnSet, FoldFunctionOnSet, UnclaimedLedger!MapThenFoldSet, MapThenFoldSet

LEMMA Unclaimed_Entry == \A l : UnclaimedLedger!Entry(l) = Entry(l)
BY DEF UnclaimedLedger!Entry, Entry
LEMMA Unclaimed_Lines == /\ \A A : UnclaimedLedger!LinesOf(A) = LinesOf(A)
                         /\ \A A : UnclaimedLedger!Placed(A) = Placed(A)
                         /\ \A A : UnclaimedLedger!OfPrice(A) = OfPrice(A)
                         /\ \A A : UnclaimedLedger!Paid(A) = Paid(A)
                         /\ \A A : UnclaimedLedger!Median2Price(A) = Median2Price(A)
<1>1. \A A : UnclaimedLedger!LinesOf(A) = LinesOf(A)
  BY DEF UnclaimedLedger!LinesOf, LinesOf
<1>2. \A A : UnclaimedLedger!Placed(A) = Placed(A)
  BY DEF UnclaimedLedger!Placed, Placed, UnclaimedLedger!Entry, Entry
<1>3. \A A : UnclaimedLedger!OfPrice(A) = OfPrice(A)
  BY DEF UnclaimedLedger!OfPrice, OfPrice, UnclaimedLedger!Entry, Entry
<1>4. \A A : UnclaimedLedger!Paid(A) = Paid(A)
  BY Unclaimed_Sum DEF UnclaimedLedger!Paid, Paid, UnclaimedLedger!Entry, Entry
<1>5. \A A : UnclaimedLedger!Median2Price(A) = Median2Price(A)
  BY Unclaimed_Median, <1>3 DEF UnclaimedLedger!Median2Price, Median2Price, UnclaimedLedger!Entry, Entry
<1> QED BY <1>1, <1>2, <1>3, <1>4, <1>5

LEMMA Unclaimed_Category == \A A : UnclaimedLedger!ByCategory(A) = ByCategory(A)
<1> SUFFICES ASSUME NEW A PROVE UnclaimedLedger!ByCategory(A) = ByCategory(A)
  OBVIOUS
<1>1. \A c : CategoryRow(A, c) =
        [category |-> c, median |-> UnclaimedLedger!Median2Price({line \in A : UnclaimedLedger!Entry(line).category = c}),
              buys |-> UnclaimedLedger!Cardinality({line \in A : UnclaimedLedger!Entry(line).category = c}),
              spent |-> UnclaimedLedger!Paid({line \in A : UnclaimedLedger!Entry(line).category = c})]
  BY Unclaimed_Lines, Unclaimed_Count DEF CategoryRow, UnclaimedLedger!Entry, Entry
<1>2. UnclaimedLedger!ByCategory(A) =
       {[category |-> c, median |-> UnclaimedLedger!Median2Price({line \in A : UnclaimedLedger!Entry(line).category = c}),
              buys |-> UnclaimedLedger!Cardinality({line \in A : UnclaimedLedger!Entry(line).category = c}),
              spent |-> UnclaimedLedger!Paid({line \in A : UnclaimedLedger!Entry(line).category = c})]
          : c \in {UnclaimedLedger!Entry(line).category : line \in A}}
  BY Zenon DEF UnclaimedLedger!ByCategory
<1>3. UnclaimedLedger!ByCategory(A) = {CategoryRow(A, c) : c \in {UnclaimedLedger!Entry(line).category : line \in A}}
  BY <1>1, <1>2, Zenon
<1>4. {UnclaimedLedger!Entry(line).category : line \in A} = {Entry(line).category : line \in A}
  BY DEF UnclaimedLedger!Entry, Entry
<1> QED BY <1>3, <1>4, ByCategoryIs, Zenon

LEMMA Unclaimed_Breakdown == /\ UnclaimedLedger!Group = Group /\ UnclaimedLedger!CATEGORY_GROUP = CATEGORY_GROUP
                             /\ \A rows, g : UnclaimedLedger!InGroup(rows, g) = InGroup(rows, g)
                             /\ \A now, before : UnclaimedLedger!breakdown(now, before) = breakdown(now, before)
<1>1. UnclaimedLedger!Group = Group /\ UnclaimedLedger!CATEGORY_GROUP = CATEGORY_GROUP
  BY DEF UnclaimedLedger!Group, Group, UnclaimedLedger!CATEGORY_GROUP, CATEGORY_GROUP,
     UnclaimedLedger!ITEM_CATEGORIES, ITEM_CATEGORIES, UnclaimedLedger!CANONICAL_UNIT, CANONICAL_UNIT
<1>2. \A rows, g : UnclaimedLedger!InGroup(rows, g) = InGroup(rows, g)
  BY <1>1 DEF UnclaimedLedger!InGroup, InGroup
<1>3. \A now, before : UnclaimedLedger!PriceMoves(now, before) = PriceMoves(now, before)
  BY DEF UnclaimedLedger!PriceMoves, PriceMoves
<1>4. \A now, before : UnclaimedLedger!breakdown(now, before) = breakdown(now, before)
  BY <1>3, Unclaimed_Count DEF UnclaimedLedger!breakdown, breakdown
<1> QED BY <1>1, <1>2, <1>4

LEMMA Unclaimed_Window == \A m : UnclaimedLedger!monthWindow(m) = monthWindow(m)
BY Unclaimed_Ends DEF UnclaimedLedger!monthWindow, monthWindow, UnclaimedLedger!previousSpan, previousSpan

AllOf(S) == {Settle(r) : r \in S}

LEMMA Unclaimed_Mine == CorpusHolds => \A w : UnclaimedLedger!Mine(w) = AllOf(Mine(w))
<1> SUFFICES ASSUME CorpusHolds, NEW w PROVE UnclaimedLedger!Mine(w) = AllOf(Mine(w))
  OBVIOUS
<1>1. UnclaimedLedger!Mine(w) = {s \in AsSettled : s.paper.wallet = w /\ Settled(s)}
  BY DEF UnclaimedLedger!Mine, UnclaimedLedger!Settled, Settled, UnclaimedLedger!SETTLED, SETTLED
<1>2. \A r \in receipts : Settle(r).paper = r.paper /\ (Settled(Settle(r)) <=> Settled(r))
  BY SettleKeeps
<1> HIDE DEF Settle
<1> QED BY <1>1, <1>2, SettledAre DEF Mine, AllOf

LEMMA Unclaimed_Currency == CorpusHolds => \A w : UnclaimedLedger!walletCurrency(w) = walletCurrency(w)
<1> SUFFICES ASSUME CorpusHolds, NEW w PROVE UnclaimedLedger!walletCurrency(w) = walletCurrency(w)
  OBVIOUS
<1>1. PICK A, B : A = Mine(w) /\ B = UnclaimedLedger!Mine(w)
  OBVIOUS
<1>2. B = {s \in AsSettled : s.paper.wallet = w /\ Settled(s)}
  BY <1>1 DEF UnclaimedLedger!Mine, UnclaimedLedger!Settled, Settled, UnclaimedLedger!SETTLED, SETTLED
<1>3. A \in SUBSET receipts /\ B \in SUBSET AsSettled
  BY <1>1, <1>2 DEF Mine
<1>4. \A r \in receipts, s \in AsSettled : ReadsAs(r, s) => (r \in A <=> s \in B)
  BY <1>1, <1>2 DEF Mine, ReadsAs
<1>5. Commonest(B) = Commonest(A)
  BY <1>3, <1>4, SettledReadsTheSame, CommonestAgrees
<1> QED BY <1>1, <1>5, Unclaimed_Commonest DEF UnclaimedLedger!walletCurrency, walletCurrency

LEMMA Unclaimed_Month == CorpusHolds => \A w, from, to : UnclaimedLedger!InMonth(w, from, to) = AllOf(InMonth(w, from, to))
<1> SUFFICES ASSUME CorpusHolds, NEW w, NEW from, NEW to
             PROVE UnclaimedLedger!InMonth(w, from, to) = AllOf(InMonth(w, from, to))
  OBVIOUS
<1>1. UnclaimedLedger!InMonth(w, from, to) = {s \in AllOf(Mine(w)) : s.paper.currency = walletCurrency(w) /\ Within(s, from, to)}
  BY Unclaimed_Mine, Unclaimed_Currency DEF UnclaimedLedger!InMonth, UnclaimedLedger!Within, Within
<1>2. \A r \in Mine(w) : Settle(r).paper = r.paper /\ (Within(Settle(r), from, to) <=> Within(r, from, to))
  BY SettleKeeps DEF Mine, Within
<1> HIDE DEF Settle
<1> QED BY <1>1, <1>2 DEF InMonth, AllOf

-----------------------------------------------------------------------------
(* What was spent, paid and where the wallet shops.                        *)

LEMMA AllOfKeeps ==
  ASSUME CorpusHolds, NEW S \in SUBSET receipts
  PROVE  /\ IsFiniteSet(S) /\ Cardinality(AllOf(S)) = Cardinality(S)
         /\ \A T \in SUBSET receipts : /\ AllOf(S) \cap AllOf(T) = AllOf(S \cap T)
                                       /\ AllOf(S) \ AllOf(T) = AllOf(S \ T)
         /\ LinesOf(AllOf(S)) = AllSettled(LinesOf(S)) /\ LinesOf(S) \in SUBSET LinesOf(receipts)
<1>1. \A r, s \in receipts : Settle(r) = Settle(s) => r = s
  BY SettleOne
<1>2. PICK g : g = [r \in S |-> Settle(r)]
  OBVIOUS
<1>3. \A r \in S : g[r] = Settle(r)
  BY <1>2
<1>4. LinesOf(AllOf(S)) = AllSettled(LinesOf(S))
  BY LinesSettled DEF AllOf
<1> HIDE DEF Settle
<1>5. g \in Bijection(S, AllOf(S))
  <2>1. g \in [S -> AllOf(S)]
    BY <1>2 DEF AllOf
  <2>2. \A x, y \in S : g[x] = g[y] => x = y
    BY <1>1, <1>3
  <2>3. \A y \in AllOf(S) : \E x \in S : g[x] = y
    BY <1>3 DEF AllOf
  <2> QED BY <2>1, <2>2, <2>3 DEF Bijection, Injection, Surjection, IsInjective
<1>6. IsFiniteSet(S)
  BY FS_Subset DEF CorpusHolds
<1>7. Cardinality(AllOf(S)) = Cardinality(S)
  BY <1>5, <1>6, FS_Bijection DEF ExistsBijection
<1>8. \A T \in SUBSET receipts : /\ AllOf(S) \cap AllOf(T) = AllOf(S \cap T)
                                 /\ AllOf(S) \ AllOf(T) = AllOf(S \ T)
  <2> SUFFICES ASSUME NEW T \in SUBSET receipts
               PROVE  AllOf(S) \cap AllOf(T) = AllOf(S \cap T) /\ AllOf(S) \ AllOf(T) = AllOf(S \ T)
    OBVIOUS
  <2>1. \A U : \A x : x \in AllOf(U) <=> \E r \in U : x = Settle(r)
    BY DEF AllOf
  <2>2. \A x : x \in AllOf(S) \cap AllOf(T) <=> x \in AllOf(S \cap T)
    BY <1>1, <2>1
  <2>3. \A x : x \in AllOf(S) \ AllOf(T) <=> x \in AllOf(S \ T)
    BY <1>1, <2>1
  <2> QED BY <2>2, <2>3
<1>9. LinesOf(S) \in SUBSET LinesOf(receipts)
  BY DEF LinesOf
<1> QED BY <1>4, <1>6, <1>7, <1>8, <1>9

LEMMA SpentStays ==
  ASSUME CorpusHolds, NEW S \in SUBSET receipts, \A r \in S : r.paper.total # NULL
  PROVE  SumFunction([r \in AllOf(S) |-> r.paper.total]) = SumFunction([r \in S |-> r.paper.total])
<1>1. PICK f, g, e : /\ f = [r \in S |-> r.paper.total] /\ g = [r \in AllOf(S) |-> r.paper.total]
                     /\ e = [r \in S |-> Settle(r)]
  OBVIOUS
<1>2. ImageOf(e, S) = AllOf(S)
  BY <1>1 DEF ImageOf, AllOf
<1>3. \A r, s \in S : e[r] = e[s] => r = s
  BY <1>1, SettleOne
<1>4. \A r \in S : g[e[r]] = f[r] /\ f[r] \in Int
  <2> SUFFICES ASSUME NEW r \in S PROVE g[e[r]] = f[r] /\ f[r] \in Int
    OBVIOUS
  <2>1. e[r] = Settle(r) /\ e[r] \in AllOf(S)
    BY <1>1 DEF AllOf
  <2>2. Settle(r).paper = r.paper
    BY SettleKeeps
  <2>3. r.paper.total \in Int
    BY PaperAssumption DEF CorpusHolds, Receipt, IsPaper
  <2> QED BY <1>1, <2>1, <2>2, <2>3
<1>5. IsFiniteSet(S)
  BY AllOfKeeps
<1>6. SameSum(g, e, f, S)
  BY <1>3, <1>4, <1>5, SumRenamed
<1>7. SumFunctionOnSet(g, AllOf(S)) = SumFunctionOnSet(f, S)
  BY <1>2, <1>6 DEF SameSum
<1>8. DOMAIN f = S /\ DOMAIN g = AllOf(S)
  BY <1>1
<1> QED BY <1>1, <1>7, <1>8 DEF SumFunction

PrintedIn(mine, from, to) == {r \in mine : r.paper.total # NULL /\ Within(r, from, to)}
SpendOf(printed, counted) ==
    [total |-> SumFunction([r \in counted |-> r.paper.total]),
     receipts |-> Cardinality(counted), elsewhere |-> Cardinality(printed \ counted)]

LEMMA SpendStays == CorpusHolds => \A w, from, to : UnclaimedLedger!readSpend(w, from, to) = readSpend(w, from, to)
<1> SUFFICES ASSUME CorpusHolds, NEW w, NEW from, NEW to
             PROVE  UnclaimedLedger!readSpend(w, from, to) = readSpend(w, from, to)
  OBVIOUS
<1>1. PICK P, C : P = PrintedIn(Mine(w), from, to) /\ C = P \cap InMonth(w, from, to)
  OBVIOUS
<1>2. readSpend(w, from, to) = SpendOf(P, C)
  BY <1>1 DEF readSpend, SpendOf, PrintedIn
<1>3. \A r \in Mine(w) : Settle(r).paper = r.paper /\ (Within(Settle(r), from, to) <=> Within(r, from, to))
  BY SettleKeeps DEF Mine, Within
<1>4. P \in SUBSET receipts /\ C \in SUBSET receipts /\ InMonth(w, from, to) \in SUBSET receipts
  BY <1>1 DEF PrintedIn, Mine, InMonth
<1>5. PrintedIn(AllOf(Mine(w)), from, to) = AllOf(P)
  <2> HIDE DEF Settle
  <2> QED BY <1>1, <1>3 DEF PrintedIn, AllOf
<1>6. AllOf(P) \cap AllOf(InMonth(w, from, to)) = AllOf(C)
  BY <1>1, <1>4, AllOfKeeps
<1>7. UnclaimedLedger!readSpend(w, from, to) = SpendOf(AllOf(P), AllOf(C))
  <2>1. {r \in UnclaimedLedger!Mine(w) : r.paper.total # NULL /\ UnclaimedLedger!Within(r, from, to)} = AllOf(P)
    BY <1>5, Unclaimed_Mine DEF PrintedIn, UnclaimedLedger!Within, Within
  <2>2. AllOf(P) \cap UnclaimedLedger!InMonth(w, from, to) = AllOf(C)
    BY <1>6, Unclaimed_Month
  <2> QED BY <2>1, <2>2, Unclaimed_Sum, Unclaimed_Count DEF UnclaimedLedger!readSpend, SpendOf
<1>8. SumFunction([r \in AllOf(C) |-> r.paper.total]) = SumFunction([r \in C |-> r.paper.total])
  BY <1>1, <1>4, SpentStays DEF PrintedIn
<1>9. Cardinality(AllOf(C)) = Cardinality(C)
  BY <1>4, AllOfKeeps
<1>10. Cardinality(AllOf(P) \ AllOf(C)) = Cardinality(P \ C)
  <2>1. AllOf(P) \ AllOf(C) = AllOf(P \ C) /\ P \ C \in SUBSET receipts
    BY <1>4, AllOfKeeps
  <2> QED BY <2>1, AllOfKeeps
<1> QED BY <1>2, <1>7, <1>8, <1>9, <1>10 DEF SpendOf

LEMMA PricesStay == CorpusHolds => \A w, from, to : UnclaimedLedger!readUserPrices(w, from, to) = readUserPrices(w, from, to)
<1> SUFFICES ASSUME CorpusHolds, NEW w, NEW from, NEW to
             PROVE  UnclaimedLedger!readUserPrices(w, from, to) = readUserPrices(w, from, to)
  OBVIOUS
<1>1. PICK S, A : S = InMonth(w, from, to) /\ A = LinesOf(S)
  OBVIOUS
<1>2. S \in SUBSET receipts /\ A \in SUBSET LinesOf(receipts)
  BY <1>1, AllOfKeeps DEF InMonth, Mine
<1>3. UnclaimedLedger!LinesOf(UnclaimedLedger!InMonth(w, from, to)) = AllSettled(A)
  BY <1>1, <1>2, Unclaimed_Month, Unclaimed_Lines, AllOfKeeps
<1>4. Placed(AllSettled(A)) = AllSettled(Placed(A)) /\ Placed(A) \in SUBSET LinesOf(receipts)
  BY <1>2, FiltersMove DEF Placed
<1>5. ByCategory(AllSettled(Placed(A))) = ByCategory(Placed(A))
  BY <1>4, CategoriesStay
<1>6. UnclaimedLedger!readUserPrices(w, from, to) = ByCategory(Placed(AllSettled(A)))
  BY <1>3, Unclaimed_Lines, Unclaimed_Category DEF UnclaimedLedger!readUserPrices
<1> QED BY <1>1, <1>4, <1>5, <1>6 DEF readUserPrices

NamedBy(table, w) == {r \in table : r.paper.wallet = w /\ r.paper.country # NULL}
LatestOf(named) == {r \in named : \A s \in named : s.issued <= r.issued}
CountryOn(papers) == (CHOOSE paper \in papers : TRUE).country
CountryOf(named) == IF named = {} THEN NULL ELSE CountryOn({r.paper : r \in LatestOf(named)})

LEMMA CountryStays == CorpusHolds => \A w : UnclaimedLedger!userCountry(w) = userCountry(w)
<1> SUFFICES ASSUME CorpusHolds, NEW w PROVE UnclaimedLedger!userCountry(w) = userCountry(w)
  OBVIOUS
<1>1. PICK N : N = NamedBy(receipts, w)
  OBVIOUS
<1>2. userCountry(w) = CountryOf(NamedBy(receipts, w))
  BY Zenon DEF userCountry, CountryOf, CountryOn, NamedBy, LatestOf
<1>3. UnclaimedLedger!userCountry(w) = CountryOf(NamedBy(AsSettled, w))
  BY Zenon DEF UnclaimedLedger!userCountry, CountryOf, CountryOn, NamedBy, LatestOf
<1>4. \A r \in receipts : Settle(r).paper = r.paper /\ Settle(r).issued = r.issued
  BY SettleKeeps
<1> HIDE DEF Settle
<1>5. NamedBy(AsSettled, w) = AllOf(N) /\ N \subseteq receipts
  BY <1>1, <1>4, SettledAre DEF NamedBy, AllOf
<1>6. LatestOf(AllOf(N)) = AllOf(LatestOf(N))
  BY <1>4, <1>5 DEF LatestOf, AllOf
<1>7. {r.paper : r \in AllOf(LatestOf(N))} = {r.paper : r \in LatestOf(N)}
  BY <1>4, <1>5 DEF LatestOf, AllOf
<1>8. AllOf(N) = {} <=> N = {}
  BY DEF AllOf
<1> QED BY <1>1, <1>2, <1>3, <1>5, <1>6, <1>7, <1>8 DEF CountryOf

-----------------------------------------------------------------------------
(* The comparison with what others pay.                                    *)

ReferenceOf(priced, country, w) ==
    {<<c, PriceOf(marketUnitPrice(c, country, w, marketWindow(MarketDays, 0)))>> :
        c \in {Entry(line).category : line \in priced}}
MatchedIn(priced, reference) ==
    {p \in priced \X reference : Entry(p[1]).category = p[2][1] /\ p[2][2] # NULL}
GapsOf(matched) == {p[2][2] - 4 * Entry(p[1]).price : p \in matched}
ComparedOver(n, matched) ==
    IF matched = {} THEN NULL
    ELSE [best |-> Max(GapsOf(matched)),
          worst |-> IF Cardinality(matched) < 2 THEN NULL ELSE Min(GapsOf(matched)),
          matched |-> Cardinality(matched), unmatched |-> n - Cardinality(matched)]

LEMMA MatchedStays ==
  ASSUME CorpusHolds, NEW A \in SUBSET LinesOf(receipts), NEW R, IsFiniteSet(R)
  PROVE  /\ GapsOf(MatchedIn(AllSettled(A), R)) = GapsOf(MatchedIn(A, R))
         /\ Cardinality(MatchedIn(AllSettled(A), R)) = Cardinality(MatchedIn(A, R))
         /\ MatchedIn(AllSettled(A), R) = {} <=> MatchedIn(A, R) = {}
<1>1. PICK C, D : C = MatchedIn(A, R) /\ D = MatchedIn(AllSettled(A), R)
  OBVIOUS
<1>2. PICK g : g = [p \in C |-> <<OnSettled(p[1]), p[2]>>]
  OBVIOUS
<1>3. \A l \in A : Entry(OnSettled(l)) = Entry(l)
  BY EntriesStay
<1>4. \A l, k \in A : OnSettled(l) = OnSettled(k) => l = k
  BY OnSettledOne
<1>5. \A k : k \in AllSettled(A) <=> \E l \in A : k = OnSettled(l)
  BY DEF AllSettled
<1>6. \A p : p \in C <=> \E l \in A, q \in R : p = <<l, q>> /\ Entry(l).category = q[1] /\ q[2] # NULL
  BY <1>1 DEF MatchedIn
<1>7. \A p : p \in D <=> \E l \in AllSettled(A), q \in R : p = <<l, q>> /\ Entry(l).category = q[1] /\ q[2] # NULL
  BY <1>1 DEF MatchedIn
<1> HIDE DEF OnSettled, AllSettled
<1>8. ASSUME NEW p \in C
      PROVE  /\ p[1] \in A /\ p[2] \in R /\ p = <<p[1], p[2]>>
             /\ g[p] = <<OnSettled(p[1]), p[2]>> /\ g[p] \in D /\ Entry(g[p][1]) = Entry(p[1])
  <2>1. PICK l \in A, q \in R : p = <<l, q>> /\ Entry(l).category = q[1] /\ q[2] # NULL
    BY <1>6
  <2>2. g[p] = <<OnSettled(l), q>>
    BY <1>2, <2>1
  <2>3. OnSettled(l) \in AllSettled(A) /\ Entry(OnSettled(l)) = Entry(l)
    BY <1>3, <1>5
  <2>4. g[p] \in D
    BY <1>7, <2>1, <2>2, <2>3
  <2> QED BY <2>1, <2>2, <2>3, <2>4
<1>9. ASSUME NEW y \in D PROVE \E p \in C : g[p] = y
  <2>1. PICK k \in AllSettled(A), q \in R : y = <<k, q>> /\ Entry(k).category = q[1] /\ q[2] # NULL
    BY <1>7
  <2>2. PICK l \in A : k = OnSettled(l)
    BY <1>5
  <2>3. <<l, q>> \in C
    BY <1>3, <1>6, <2>1, <2>2
  <2>4. g[<<l, q>>] = y
    BY <1>2, <2>1, <2>2, <2>3
  <2> QED BY <2>3, <2>4
<1>10. g \in Bijection(C, D)
  <2>1. g \in [C -> D]
    BY <1>2, <1>8
  <2>2. \A p, q \in C : g[p] = g[q] => p = q
    BY <1>4, <1>8
  <2> QED BY <1>9, <2>1, <2>2 DEF Bijection, Injection, Surjection, IsInjective
<1>11. IsFiniteSet(C)
  <2>1. IsFiniteSet(A \X R)
    BY Counted, FS_Product
  <2>2. C \subseteq A \X R
    BY <1>1 DEF MatchedIn
  <2> QED BY <2>1, <2>2, FS_Subset
<1>12. Cardinality(D) = Cardinality(C)
  BY <1>10, <1>11, FS_Bijection DEF ExistsBijection
<1>13. D = {} <=> C = {}
  BY <1>8, <1>9
<1>14. GapsOf(D) = GapsOf(C)
  <2>1. \A p \in C : g[p][2][2] - 4 * Entry(g[p][1]).price = p[2][2] - 4 * Entry(p[1]).price
    BY <1>8
  <2>2. \A x : x \in GapsOf(D) <=> \E y \in D : x = y[2][2] - 4 * Entry(y[1]).price
    BY DEF GapsOf
  <2>3. \A x : x \in GapsOf(C) <=> \E y \in C : x = y[2][2] - 4 * Entry(y[1]).price
    BY DEF GapsOf
  <2>4. \A x : x \in GapsOf(C) => x \in GapsOf(D)
    BY <1>8, <2>1, <2>2, <2>3
  <2>5. \A x : x \in GapsOf(D) => x \in GapsOf(C)
    BY <1>9, <2>1, <2>2, <2>3
  <2> QED BY <2>4, <2>5
<1> QED BY <1>1, <1>12, <1>13, <1>14

UnclaimedReferenceOf(priced, country, w) ==
    {<<c, UnclaimedLedger!PriceOf(UnclaimedLedger!marketUnitPrice(c, country, w, UnclaimedLedger!marketWindow(MarketDays, 0)))>> :
        c \in {UnclaimedLedger!Entry(line).category : line \in priced}}
UnclaimedMatchedIn(priced, reference) ==
    {p \in priced \X reference : UnclaimedLedger!Entry(p[1]).category = p[2][1] /\ p[2][2] # NULL}
UnclaimedGapsOf(matched) == {p[2][2] - 4 * UnclaimedLedger!Entry(p[1]).price : p \in matched}
UnclaimedCompared(priced, matched) ==
    IF matched = {} THEN NULL
    ELSE [best |-> UnclaimedLedger!Max(UnclaimedGapsOf(matched)),
          worst |-> IF UnclaimedLedger!Cardinality(matched) < 2 THEN NULL ELSE UnclaimedLedger!Min(UnclaimedGapsOf(matched)),
          matched |-> UnclaimedLedger!Cardinality(matched),
          unmatched |-> UnclaimedLedger!Cardinality(priced) - UnclaimedLedger!Cardinality(matched)]

LEMMA Unclaimed_Price == CorpusHolds => \A c, country, w, window :
    UnclaimedLedger!marketUnitPrice(c, country, w, window) = marketUnitPrice(c, country, w, window)
BY PriceHere, Unclaimed_MarketPrice, SettledReadsTheSame, PricesAgreeIn

LEMMA ComparisonStays ==
  ASSUME CorpusHolds, NEW A \in SUBSET LinesOf(receipts), NEW w
  PROVE  UnclaimedLedger!comparison(w, AllSettled(A)) = comparison(w, A)
<1>1. PICK B, country : B = OfPrice(Placed(A)) /\ country = userCountry(w)
  OBVIOUS
<1>2. PICK R : R = ReferenceOf(B, country, w)
  OBVIOUS
<1>3. comparison(w, A) = ComparedOver(Cardinality(B), MatchedIn(B, R))
  <2>1. comparison(w, A) = ComparedOver(Cardinality(OfPrice(Placed(A))),
                  MatchedIn(OfPrice(Placed(A)), ReferenceOf(OfPrice(Placed(A)), userCountry(w), w)))
    BY Zenon DEF comparison, ComparedOver, MatchedIn, GapsOf, ReferenceOf
  <2> QED BY <1>1, <1>2, <2>1
<1>4. B \in SUBSET LinesOf(receipts) /\ Placed(A) \in SUBSET LinesOf(receipts)
  BY <1>1 DEF OfPrice, Placed
<1>5. OfPrice(Placed(AllSettled(A))) = AllSettled(B)
  BY <1>1, <1>4, FiltersMove
<1>6. {Entry(line).category : line \in AllSettled(B)} = {Entry(line).category : line \in B}
  BY <1>4, FiltersMove
<1>7. ReferenceOf(AllSettled(B), country, w) = R
  BY <1>2, <1>6 DEF ReferenceOf
<1>8. IsFiniteSet(R)
  <2>1. PICK f : f = [line \in B |-> <<Entry(line).category, PriceOf(marketUnitPrice(Entry(line).category, country, w, marketWindow(MarketDays, 0)))>>]
    OBVIOUS
  <2>2. R = {f[line] : line \in B}
    BY <1>2, <2>1 DEF ReferenceOf
  <2> QED BY <1>4, <2>2, Counted, ImageFinite
<1>9. UnclaimedLedger!comparison(w, AllSettled(A)) = ComparedOver(Cardinality(AllSettled(B)), MatchedIn(AllSettled(B), R))
  <2>1. UnclaimedLedger!OfPrice(UnclaimedLedger!Placed(AllSettled(A))) = AllSettled(B)
    BY <1>5, Unclaimed_Lines
  <2>2. UnclaimedLedger!userCountry(w) = country
    BY <1>1, CountryStays
  <2>3. \A x : UnclaimedLedger!PriceOf(x) = PriceOf(x)
    BY DEF PriceOf, UnclaimedLedger!PriceOf
  <2>4. \A d, e : UnclaimedLedger!marketWindow(d, e) = marketWindow(d, e)
    BY DEF marketWindow, UnclaimedLedger!marketWindow
  <2>5. \A c : UnclaimedLedger!PriceOf(UnclaimedLedger!marketUnitPrice(c, country, w, UnclaimedLedger!marketWindow(MarketDays, 0)))
             = PriceOf(marketUnitPrice(c, country, w, marketWindow(MarketDays, 0)))
    BY <2>3, <2>4, Unclaimed_Price
  <2>6. UnclaimedReferenceOf(AllSettled(B), country, w) = R
    BY <1>7, <2>5, Unclaimed_Entry DEF ReferenceOf, UnclaimedReferenceOf
  <2>7. UnclaimedMatchedIn(AllSettled(B), R) = MatchedIn(AllSettled(B), R)
    BY Unclaimed_Entry DEF MatchedIn, UnclaimedMatchedIn
  <2>8. \A mm : UnclaimedGapsOf(mm) = GapsOf(mm)
    BY Unclaimed_Entry DEF GapsOf, UnclaimedGapsOf
  <2>9. UnclaimedLedger!comparison(w, AllSettled(A)) =
          UnclaimedCompared(UnclaimedLedger!OfPrice(UnclaimedLedger!Placed(AllSettled(A))),
             UnclaimedMatchedIn(UnclaimedLedger!OfPrice(UnclaimedLedger!Placed(AllSettled(A))),
               UnclaimedReferenceOf(UnclaimedLedger!OfPrice(UnclaimedLedger!Placed(AllSettled(A))), UnclaimedLedger!userCountry(w), w)))
    BY Zenon DEF UnclaimedLedger!comparison, UnclaimedCompared, UnclaimedMatchedIn, UnclaimedReferenceOf, UnclaimedGapsOf
  <2>10. UnclaimedLedger!comparison(w, AllSettled(A)) = UnclaimedCompared(AllSettled(B), MatchedIn(AllSettled(B), R))
    BY <2>1, <2>2, <2>6, <2>7, <2>9
  <2> QED BY <2>8, <2>10, Unclaimed_Count, Unclaimed_Ends, Zenon DEF ComparedOver, UnclaimedCompared
<1>10. Cardinality(AllSettled(B)) = Cardinality(B)
  BY <1>4, Counted
<1> QED BY <1>3, <1>4, <1>8, <1>9, <1>10, MatchedStays DEF ComparedOver

-----------------------------------------------------------------------------
(* The month's page and the item's page, whole.                            *)

OfGroup(lines, g) == {line \in Placed(lines) : CATEGORY_GROUP[Entry(line).category] = g}
GroupSpend(lines) == [g \in Group |-> Paid(OfGroup(lines, g))]
MonthAnswer(w, current, previous, now, before, lines) ==
    [spent |-> current.total, receiptCount |-> current.receipts,
     previous |-> IF previous.receipts > 0 THEN previous.total ELSE NULL,
     groups |-> GroupSpend(lines),
     breakdown |-> [g \in Group |-> breakdown(InGroup(now, g), InGroup(before, g))],
     unmatched |-> Paid(lines \ Placed(lines)),
     comparison |-> comparison(w, lines)]
UnclaimedGroupSpend(lines) ==
    [g \in UnclaimedLedger!Group |-> UnclaimedLedger!Paid({line \in UnclaimedLedger!Placed(lines) :
        UnclaimedLedger!CATEGORY_GROUP[UnclaimedLedger!Entry(line).category] = g})]
UnclaimedMonthAnswer(w, current, previous, now, before, lines) ==
    [spent |-> current.total, receiptCount |-> current.receipts,
     previous |-> IF previous.receipts > 0 THEN previous.total ELSE NULL,
     groups |-> UnclaimedGroupSpend(lines),
     breakdown |-> [g \in UnclaimedLedger!Group |->
        UnclaimedLedger!breakdown(UnclaimedLedger!InGroup(now, g), UnclaimedLedger!InGroup(before, g))],
     unmatched |-> UnclaimedLedger!Paid(lines \ UnclaimedLedger!Placed(lines)),
     comparison |-> UnclaimedLedger!comparison(w, lines)]

LEMMA MonthIs == \A w, m : monthRoute(w, m) =
    MonthAnswer(w, readSpend(w, monthWindow(m).start, monthWindow(m).end),
                readSpend(w, monthWindow(m).previousStart, monthWindow(m).previousEnd),
                readUserPrices(w, monthWindow(m).start, monthWindow(m).end),
                readUserPrices(w, monthWindow(m).previousStart, monthWindow(m).previousEnd),
                LinesOf(InMonth(w, monthWindow(m).start, monthWindow(m).end)))
BY Zenon DEF monthRoute, MonthAnswer, GroupSpend, OfGroup
LEMMA Unclaimed_MonthIs == \A w, m : UnclaimedLedger!monthRoute(w, m) =
    UnclaimedMonthAnswer(w, UnclaimedLedger!readSpend(w, UnclaimedLedger!monthWindow(m).start, UnclaimedLedger!monthWindow(m).end),
        UnclaimedLedger!readSpend(w, UnclaimedLedger!monthWindow(m).previousStart, UnclaimedLedger!monthWindow(m).previousEnd),
        UnclaimedLedger!readUserPrices(w, UnclaimedLedger!monthWindow(m).start, UnclaimedLedger!monthWindow(m).end),
        UnclaimedLedger!readUserPrices(w, UnclaimedLedger!monthWindow(m).previousStart, UnclaimedLedger!monthWindow(m).previousEnd),
        UnclaimedLedger!LinesOf(UnclaimedLedger!InMonth(w, UnclaimedLedger!monthWindow(m).start, UnclaimedLedger!monthWindow(m).end)))
BY Zenon DEF UnclaimedLedger!monthRoute, UnclaimedMonthAnswer, UnclaimedGroupSpend

OfCategory(lines, c) == {line \in lines : Entry(line).category = c}
OfThatGroup(lines, g) == {line \in lines : CATEGORY_GROUP[Entry(line).category] = g}
LEMMA SortsMove ==
  ASSUME CorpusHolds, NEW A \in SUBSET LinesOf(receipts)
  PROVE  /\ \A c : OfCategory(AllSettled(A), c) = AllSettled(OfCategory(A, c))
         /\ \A g : OfThatGroup(AllSettled(A), g) = AllSettled(OfThatGroup(A, g))
<1>1. \A l \in A : Entry(OnSettled(l)) = Entry(l)
  BY EntriesStay
<1>3. \A B : \A k : k \in AllSettled(B) <=> \E l \in B : k = OnSettled(l)
  BY DEF AllSettled
<1> HIDE DEF AllSettled
<1>4. \A c : OfCategory(AllSettled(A), c) = AllSettled(OfCategory(A, c))
  BY <1>1, <1>3 DEF OfCategory
<1>5. \A g : OfThatGroup(AllSettled(A), g) = AllSettled(OfThatGroup(A, g))
  BY <1>1, <1>3 DEF OfThatGroup
<1> QED BY <1>4, <1>5

LEMMA GroupsStay ==
  ASSUME CorpusHolds, NEW A \in SUBSET LinesOf(receipts)
  PROVE  UnclaimedGroupSpend(AllSettled(A)) = GroupSpend(A)
<1>1. UnclaimedGroupSpend(AllSettled(A)) = GroupSpend(AllSettled(A))
  BY Unclaimed_Lines, Unclaimed_Entry, Unclaimed_Breakdown DEF UnclaimedGroupSpend, GroupSpend, OfGroup
<1>2. \A g : Paid(OfGroup(AllSettled(A), g)) = Paid(OfGroup(A, g))
  <2> SUFFICES ASSUME NEW g PROVE Paid(OfGroup(AllSettled(A), g)) = Paid(OfGroup(A, g))
    OBVIOUS
  <2>1. PICK B : B = Placed(A)
    OBVIOUS
  <2>2. B \in SUBSET LinesOf(receipts) /\ Placed(AllSettled(A)) = AllSettled(B)
    BY <2>1, FiltersMove DEF Placed
  <2>3. OfGroup(AllSettled(A), g) = AllSettled(OfGroup(A, g))
    <3>1. \A L : OfGroup(L, g) = OfThatGroup(Placed(L), g)
      BY DEF OfGroup, OfThatGroup
    <3> QED BY <2>1, <2>2, <3>1, SortsMove
  <2>4. OfGroup(A, g) \in SUBSET LinesOf(receipts)
    BY <2>1, <2>2 DEF OfGroup
  <2> QED BY <2>3, <2>4, PaidStays
<1> QED BY <1>1, <1>2 DEF GroupSpend

LEMMA MonthStays == CorpusHolds => \A w, m : UnclaimedLedger!monthRoute(w, m) = monthRoute(w, m)
<1> SUFFICES ASSUME CorpusHolds, NEW w, NEW m PROVE UnclaimedLedger!monthRoute(w, m) = monthRoute(w, m)
  OBVIOUS
<1>1. PICK window : window = monthWindow(m)
  OBVIOUS
<1>2. PICK cu, pr, no, be, A : /\ cu = readSpend(w, window.start, window.end)
                               /\ pr = readSpend(w, window.previousStart, window.previousEnd)
                               /\ no = readUserPrices(w, window.start, window.end)
                               /\ be = readUserPrices(w, window.previousStart, window.previousEnd)
                               /\ A = LinesOf(InMonth(w, window.start, window.end))
  OBVIOUS
<1>3. monthRoute(w, m) = MonthAnswer(w, cu, pr, no, be, A)
  BY <1>1, <1>2, MonthIs
<1>4. InMonth(w, window.start, window.end) \in SUBSET receipts
  BY DEF InMonth, Mine
<1>5. A \in SUBSET LinesOf(receipts) /\ UnclaimedLedger!LinesOf(UnclaimedLedger!InMonth(w, window.start, window.end)) = AllSettled(A)
  BY <1>2, <1>4, AllOfKeeps, Unclaimed_Month, Unclaimed_Lines
<1>6. UnclaimedLedger!monthRoute(w, m) = UnclaimedMonthAnswer(w, cu, pr, no, be, AllSettled(A))
  BY <1>1, <1>2, <1>5, Unclaimed_MonthIs, Unclaimed_Window, SpendStays, PricesStay
<1>7. UnclaimedGroupSpend(AllSettled(A)) = GroupSpend(A)
  BY <1>5, GroupsStay
<1>8. UnclaimedLedger!Paid(AllSettled(A) \ UnclaimedLedger!Placed(AllSettled(A))) = Paid(A \ Placed(A))
  <2>1. Placed(A) \in SUBSET A /\ A \ Placed(A) \in SUBSET LinesOf(receipts)
    BY <1>5 DEF Placed
  <2>2. Placed(AllSettled(A)) = AllSettled(Placed(A))
    BY <1>5, FiltersMove
  <2>3. AllSettled(A) \ AllSettled(Placed(A)) = AllSettled(A \ Placed(A))
    BY <1>5, <2>1, FiltersMove
  <2> QED BY <2>1, <2>2, <2>3, PaidStays, Unclaimed_Lines
<1>9. UnclaimedLedger!comparison(w, AllSettled(A)) = comparison(w, A)
  BY <1>5, ComparisonStays
<1>10. [g \in UnclaimedLedger!Group |->
          UnclaimedLedger!breakdown(UnclaimedLedger!InGroup(no, g), UnclaimedLedger!InGroup(be, g))]
        = [g \in Group |-> breakdown(InGroup(no, g), InGroup(be, g))]
  BY Unclaimed_Breakdown
<1> QED BY <1>3, <1>6, <1>7, <1>8, <1>9, <1>10 DEF MonthAnswer, UnclaimedMonthAnswer

Since(bought, since) == {line \in bought : line.receipt.issued >= since}
MonthsOf(charted) == {MonthOf(line.receipt.issued) : line \in charted}
InTheMonth(charted, m) == {line \in charted : MonthOf(line.receipt.issued) = m}
Placing(bought) == {<<line.receipt.paper, line.at>> : line \in bought}
History(w, category, charted) ==
    [m \in MonthsOf(charted) |->
        [unitPrice |-> Median2Price(InTheMonth(charted, m)),
         market |-> PriceOf(marketUnitPrice(category, userCountry(w), w,
                            [since |-> MonthStart[m], until |-> MonthStart[m + 1]]))]]
ItemAnswer(w, category, bought, charted) ==
    [purchases |-> Placing(bought), history |-> History(w, category, charted),
     yours |-> IF MonthsOf(charted) = {} THEN NULL ELSE Max(MonthsOf(charted)),
     market |-> marketUnitPrice(category, userCountry(w), w, marketWindow(MarketDays, 0))]

UnclaimedMonthsOf(charted) == {UnclaimedLedger!MonthOf(line.receipt.issued) : line \in charted}
UnclaimedHistory(w, category, charted) ==
    [m \in UnclaimedMonthsOf(charted) |->
        [unitPrice |-> UnclaimedLedger!Median2Price({line \in charted : UnclaimedLedger!MonthOf(line.receipt.issued) = m}),
         market |-> UnclaimedLedger!PriceOf(UnclaimedLedger!marketUnitPrice(category, UnclaimedLedger!userCountry(w), w,
                            [since |-> MonthStart[m], until |-> MonthStart[m + 1]]))]]
UnclaimedItemAnswer(w, category, bought, charted) ==
    [purchases |-> Placing(bought), history |-> UnclaimedHistory(w, category, charted),
     yours |-> IF UnclaimedMonthsOf(charted) = {} THEN NULL ELSE UnclaimedLedger!Max(UnclaimedMonthsOf(charted)),
     market |-> UnclaimedLedger!marketUnitPrice(category, UnclaimedLedger!userCountry(w), w, UnclaimedLedger!marketWindow(MarketDays, 0))]

LEMMA ItemIs == \A w, c, since :
    itemRoute(w, c, since) = ItemAnswer(w, c, Purchases(w, c), Since(Purchases(w, c), since))
BY Zenon DEF itemRoute, ItemAnswer, Placing, History, MonthsOf, InTheMonth, Since
LEMMA Unclaimed_ItemIs == \A w, c, since :
    UnclaimedLedger!itemRoute(w, c, since) = UnclaimedItemAnswer(w, c, UnclaimedLedger!Purchases(w, c), Since(UnclaimedLedger!Purchases(w, c), since))
BY Zenon DEF UnclaimedLedger!itemRoute, UnclaimedItemAnswer, Placing, UnclaimedHistory, UnclaimedMonthsOf, Since

LEMMA BoughtStays == CorpusHolds => \A w, c : /\ UnclaimedLedger!Purchases(w, c) = AllSettled(Purchases(w, c))
                                              /\ Purchases(w, c) \in SUBSET LinesOf(receipts)
<1> SUFFICES ASSUME CorpusHolds, NEW w, NEW c
             PROVE  /\ UnclaimedLedger!Purchases(w, c) = AllSettled(Purchases(w, c))
                    /\ Purchases(w, c) \in SUBSET LinesOf(receipts)
  OBVIOUS
<1>1. PICK A : A = LinesOf(Mine(w))
  OBVIOUS
<1>2. Mine(w) \in SUBSET receipts
  BY DEF Mine
<1>3. A \in SUBSET LinesOf(receipts) /\ UnclaimedLedger!LinesOf(UnclaimedLedger!Mine(w)) = AllSettled(A)
  BY <1>1, <1>2, AllOfKeeps, Unclaimed_Mine, Unclaimed_Lines
<1>4. OfPrice(A) \in SUBSET LinesOf(receipts) /\ UnclaimedLedger!OfPrice(AllSettled(A)) = AllSettled(OfPrice(A))
  BY <1>3, FiltersMove, Unclaimed_Lines DEF OfPrice
<1>5. UnclaimedLedger!Purchases(w, c) = OfCategory(AllSettled(OfPrice(A)), c)
  BY <1>3, <1>4, Unclaimed_Entry DEF UnclaimedLedger!Purchases, OfCategory
<1>6. OfCategory(AllSettled(OfPrice(A)), c) = AllSettled(OfCategory(OfPrice(A), c))
  BY <1>4, SortsMove
<1>7. Purchases(w, c) = OfCategory(OfPrice(A), c)
  BY <1>1 DEF Purchases, OfCategory
<1>8. OfCategory(OfPrice(A), c) \in SUBSET LinesOf(receipts)
  BY <1>4 DEF OfCategory
<1> QED BY <1>5, <1>6, <1>7, <1>8

LEMMA DatesMove ==
  ASSUME CorpusHolds, NEW A \in SUBSET LinesOf(receipts)
  PROVE  /\ \A since : Since(AllSettled(A), since) = AllSettled(Since(A, since))
         /\ \A m : InTheMonth(AllSettled(A), m) = AllSettled(InTheMonth(A, m))
         /\ MonthsOf(AllSettled(A)) = MonthsOf(A) /\ Placing(AllSettled(A)) = Placing(A)
<1>1. \A l \in A : /\ OnSettled(l).receipt.issued = l.receipt.issued
                   /\ OnSettled(l).receipt.paper = l.receipt.paper /\ OnSettled(l).at = l.at
  BY EntriesStay, SettleKeeps
<1>2. \A B : \A k : k \in AllSettled(B) <=> \E l \in B : k = OnSettled(l)
  BY DEF AllSettled
<1> HIDE DEF AllSettled, OnSettled
<1>3. \A since : Since(AllSettled(A), since) = AllSettled(Since(A, since))
  BY <1>1, <1>2 DEF Since
<1>4. \A m : InTheMonth(AllSettled(A), m) = AllSettled(InTheMonth(A, m))
  BY <1>1, <1>2 DEF InTheMonth
<1>5. MonthsOf(AllSettled(A)) = MonthsOf(A)
  <2>1. \A x : x \in MonthsOf(AllSettled(A)) <=> \E k \in AllSettled(A) : x = MonthOf(k.receipt.issued)
    BY DEF MonthsOf
  <2>2. \A x : x \in MonthsOf(A) <=> \E l \in A : x = MonthOf(l.receipt.issued)
    BY DEF MonthsOf
  <2>3. \A x : (\E k \in AllSettled(A) : x = MonthOf(k.receipt.issued)) <=> (\E l \in A : x = MonthOf(l.receipt.issued))
    BY <1>1, <1>2
  <2> QED BY <2>1, <2>2, <2>3
<1>6. Placing(AllSettled(A)) = Placing(A)
  <2>1. \A x : x \in Placing(AllSettled(A)) <=> \E k \in AllSettled(A) : x = <<k.receipt.paper, k.at>>
    BY DEF Placing
  <2>2. \A x : x \in Placing(A) <=> \E l \in A : x = <<l.receipt.paper, l.at>>
    BY DEF Placing
  <2>3. \A x : (\E k \in AllSettled(A) : x = <<k.receipt.paper, k.at>>) <=> (\E l \in A : x = <<l.receipt.paper, l.at>>)
    BY <1>1, <1>2
  <2> QED BY <2>1, <2>2, <2>3
<1> QED BY <1>3, <1>4, <1>5, <1>6

LEMMA ItemStays == CorpusHolds => \A w, c, since : UnclaimedLedger!itemRoute(w, c, since) = itemRoute(w, c, since)
<1> SUFFICES ASSUME CorpusHolds, NEW w, NEW c, NEW since
             PROVE  UnclaimedLedger!itemRoute(w, c, since) = itemRoute(w, c, since)
  OBVIOUS
<1>1. PICK A, B : A = Purchases(w, c) /\ B = Since(A, since)
  OBVIOUS
<1>2. A \in SUBSET LinesOf(receipts) /\ B \in SUBSET LinesOf(receipts)
  BY <1>1, BoughtStays DEF Since
<1>3. itemRoute(w, c, since) = ItemAnswer(w, c, A, B)
  BY <1>1, ItemIs
<1>4. UnclaimedLedger!itemRoute(w, c, since) = UnclaimedItemAnswer(w, c, AllSettled(A), AllSettled(B))
  BY <1>1, <1>2, Unclaimed_ItemIs, BoughtStays, DatesMove
<1>5. \A day : UnclaimedLedger!MonthOf(day) = MonthOf(day)
  BY Zenon DEF UnclaimedLedger!MonthOf, MonthOf
<1>6. \A A1 : UnclaimedMonthsOf(A1) = MonthsOf(A1)
  BY <1>5 DEF UnclaimedMonthsOf, MonthsOf
<1>7. UnclaimedHistory(w, c, AllSettled(B)) = History(w, c, B)
  <2>1. UnclaimedMonthsOf(AllSettled(B)) = MonthsOf(B)
    BY <1>2, <1>6, DatesMove
  <2>2. \A m : UnclaimedLedger!Median2Price({line \in AllSettled(B) : UnclaimedLedger!MonthOf(line.receipt.issued) = m})
                  = Median2Price(InTheMonth(B, m))
    <3> SUFFICES ASSUME NEW m
                 PROVE  UnclaimedLedger!Median2Price({line \in AllSettled(B) : UnclaimedLedger!MonthOf(line.receipt.issued) = m})
                            = Median2Price(InTheMonth(B, m))
      OBVIOUS
    <3>0. {line \in AllSettled(B) : UnclaimedLedger!MonthOf(line.receipt.issued) = m} = InTheMonth(AllSettled(B), m)
      BY <1>5 DEF InTheMonth
    <3>1. {line \in AllSettled(B) : UnclaimedLedger!MonthOf(line.receipt.issued) = m} = AllSettled(InTheMonth(B, m))
      BY <1>2, <3>0, DatesMove
    <3>2. InTheMonth(B, m) \in SUBSET LinesOf(receipts)
      BY <1>2 DEF InTheMonth
    <3> QED BY <3>1, <3>2, Unclaimed_Lines, MedianStays
  <2>3. \A window : UnclaimedLedger!PriceOf(UnclaimedLedger!marketUnitPrice(c, UnclaimedLedger!userCountry(w), w, window))
                     = PriceOf(marketUnitPrice(c, userCountry(w), w, window))
    BY CountryStays, Unclaimed_Price DEF PriceOf, UnclaimedLedger!PriceOf
  <2> QED BY <2>1, <2>2, <2>3 DEF UnclaimedHistory, History
<1>8. UnclaimedMonthsOf(AllSettled(B)) = MonthsOf(B) /\ Placing(AllSettled(A)) = Placing(A)
  BY <1>2, <1>6, DatesMove
<1>9. UnclaimedLedger!marketUnitPrice(c, UnclaimedLedger!userCountry(w), w, UnclaimedLedger!marketWindow(MarketDays, 0))
        = marketUnitPrice(c, userCountry(w), w, marketWindow(MarketDays, 0))
  BY CountryStays, Unclaimed_Price DEF marketWindow, UnclaimedLedger!marketWindow
<1> QED BY <1>3, <1>4, <1>7, <1>8, <1>9, Unclaimed_Ends DEF ItemAnswer, UnclaimedItemAnswer

LEMMA ClaimsMoveNothing == CorpusHolds => ClaimsMoveNoNumber
BY MonthStays, ItemStays, ClaimsDoNotMovePrices DEF ClaimsMoveNoNumber

LEMMA PricesFollow == CorpusHolds => PricesFollowTheVerdict
BY ClaimsMoveNothing, SeedsDoNotMovePrices DEF PricesFollowTheVerdict

-----------------------------------------------------------------------------
(* No owner of many wallets counts twice: had one wallet of a human made   *)
(* every purchase, each observation would have the same person.            *)

OneWallet(line) == [line EXCEPT !.receipt.paper.wallet = OneOf(@)]

LEMMA ByOneWalletIs == \A lines : ByOneWallet(lines) = {OneWallet(l) : l \in lines}
BY DEF ByOneWallet, OneWallet

LEMMA OnePerson == \A w \in Wallet : personOf(human, OneOf(w)) = personOf(human, w)
<1> SUFFICES ASSUME NEW w \in Wallet PROVE personOf(human, OneOf(w)) = personOf(human, w)
  OBVIOUS
<1>1. \E v : v \in Wallet /\ (v = w \/ (human[v] # NULL /\ human[v] = human[w]))
  OBVIOUS
<1>2. PICK v : v = CHOOSE u : u \in Wallet /\ (u = w \/ (human[u] # NULL /\ human[u] = human[w]))
  OBVIOUS
<1>3. v = w \/ (human[v] # NULL /\ human[v] = human[w])
  BY <1>1, <1>2, Zenon
<1>4. OneOf(w) = v
  BY <1>2, Zenon DEF OneOf
<1> QED BY <1>3, <1>4 DEF personOf

LEMMA OneWalletKeeps ==
  ASSUME NEW r \in Receipt, NEW i, NEW l, l = [receipt |-> r, at |-> i]
  PROVE  /\ OneWallet(l).at = i /\ OneWallet(l).receipt.lines = r.lines
         /\ OneWallet(l).receipt.paper.image = r.paper.image
         /\ OneWallet(l).receipt.paper.shop = r.paper.shop
         /\ OneWallet(l).receipt.paper.wallet = OneOf(r.paper.wallet)
<1>1. r.paper \in Paper /\ r = [paper |-> r.paper, issued |-> r.issued, status |-> r.status, lines |-> r.lines]
  BY DEF Receipt
<1>2. PICK paper : paper = r.paper
  OBVIOUS
<1>3. IsPaper(paper)
  BY <1>1, <1>2, PaperAssumption
<1>4. PICK other : other = [paper EXCEPT !.wallet = OneOf(paper.wallet)]
  OBVIOUS
<1>5. other.image = paper.image /\ other.shop = paper.shop /\ other.wallet = OneOf(paper.wallet)
  BY <1>3, <1>4 DEF IsPaper
<1>6. OneWallet(l) = [l EXCEPT !.receipt = [l.receipt EXCEPT !.paper = [l.receipt.paper EXCEPT !.wallet = OneOf(l.receipt.paper.wallet)]]]
  BY DEF OneWallet
<1>7. l.receipt = r
  OBVIOUS
<1>8. OneWallet(l) = [l EXCEPT !.receipt = [r EXCEPT !.paper = other]]
  BY <1>2, <1>4, <1>6, <1>7
<1> HIDE DEF OneWallet
<1>9. OneWallet(l) = [receipt |-> [paper |-> other, issued |-> r.issued, status |-> r.status, lines |-> r.lines], at |-> i]
  BY <1>1, <1>8
<1> QED BY <1>2, <1>5, <1>9

LEMMA OneWalletAlike ==
  ASSUME NEW r \in Receipt, NEW i, NEW l, l = [receipt |-> r, at |-> i],
         r.lines[i] \in ItemRow, Observable(l)
  PROVE  Observable(OneWallet(l)) /\ Alike(Observation(l, human), Observation(OneWallet(l), human))
<1>1. PICK k, row : k = OneWallet(l) /\ row = r.lines[i]
  OBVIOUS
<1>2. /\ k.at = i /\ k.receipt.lines = r.lines /\ k.receipt.paper.shop = r.paper.shop
      /\ k.receipt.paper.wallet = OneOf(r.paper.wallet)
  BY <1>1, OneWalletKeeps
<1>3. row \in ItemRow /\ PriceOn(row) \notin {NULL, 0}
  BY <1>1 DEF Observable
<1>4. PICK price, spent : price = PriceOn(row) /\ spent = IF row.total \in {NULL, 0} THEN PriceOn(row) ELSE row.total
  OBVIOUS
<1>5. price \in Int /\ spent \in Int
  BY <1>3, <1>4, PricedType
<1>6. PICK person, key : person = personOf(human, r.paper.wallet) /\ key = <<r.paper.shop, row.item>>
  OBVIOUS
<1>7. r.paper.wallet \in Wallet
  BY PaperAssumption DEF Receipt, IsPaper
<1>8. personOf(human, OneOf(r.paper.wallet)) = person
  BY <1>6, <1>7, OnePerson
<1>9. l.receipt = r /\ l.at = i
  OBVIOUS
<1>10. Observation(l, human) = [line |-> l, key |-> key, person |-> person, price |-> price,
                           expenditure |-> spent, at |-> row.at]
  BY <1>1, <1>4, <1>6, <1>9 DEF Observation, ObservedAt
<1>11. Observation(k, human) = [line |-> k, key |-> key, person |-> person, price |-> price,
                           expenditure |-> spent, at |-> row.at]
  BY <1>1, <1>2, <1>4, <1>6, <1>8 DEF Observation, ObservedAt
<1>12. Alike(Observation(l, human), Observation(k, human))
  BY <1>5, <1>10, <1>11 DEF Alike
<1>13. Observable(k)
  BY <1>1, <1>2, <1>3 DEF Observable
<1> QED BY <1>1, <1>12, <1>13

LEMMA OneWalletCaps ==
  ASSUME CorpusHolds, NEW country, NEW from, NEW to, NEW P, P = PulledFrom(receipts, country, from, to)
  PROVE  capPerPerson(toObservations(ByOneWallet(P), human)) = capPerPerson(toObservations(P, human))
<1>1. PICK A, B, Q : A = toObservations(P, human) /\ B = toObservations(ByOneWallet(P), human) /\ Q = ByOneWallet(P)
  OBVIOUS
<1>2. IsFiniteSet(receipts) /\ (\A r \in receipts : HasRows(r)) /\ \A r, s \in receipts : r.paper = s.paper => r = s
  BY ReceiptRows DEF CorpusHolds, OnePaperEach
<1>3. IsFiniteSet(P)
  BY <1>2, PulledDistinct DEF Distinct
<1>4. IsFiniteSet(A)
  BY <1>1, <1>3, ObservedFinite
<1>5. ASSUME NEW l \in P
      PROVE  /\ l.receipt \in receipts /\ l.receipt \in Receipt /\ l = [receipt |-> l.receipt, at |-> l.at]
             /\ l.receipt.lines[l.at] \in ItemRow
  BY <1>2, PulledType DEF CorpusHolds
<1>6. \A l : Observation(l, human).line = l
  BY DEF Observation
<1>7. /\ \A o \in A : o.line \in P /\ Observable(o.line) /\ o = Observation(o.line, human)
      /\ \A o \in B : o.line \in Q /\ Observable(o.line) /\ o = Observation(o.line, human)
      /\ \A l \in P : Observable(l) => Observation(l, human) \in A
      /\ \A l \in Q : Observable(l) => Observation(l, human) \in B
  BY <1>1, <1>6, ObservationsAre
<1>8. Q = {OneWallet(l) : l \in P}
  BY <1>1, ByOneWalletIs
<1> HIDE DEF OneWallet
<1>9. \A l \in P : Observable(l) => /\ Observable(OneWallet(l))
                                    /\ Alike(Observation(l, human), Observation(OneWallet(l), human))
  BY <1>5, OneWalletAlike
<1>10. \A l \in P : Observable(OneWallet(l)) => Observable(l)
  BY <1>5, OneWalletKeeps DEF Observable
<1>11. \A l, k \in P : OneWallet(l) = OneWallet(k) => l = k
  <2> SUFFICES ASSUME NEW l \in P, NEW k \in P, OneWallet(l) = OneWallet(k) PROVE l = k
    OBVIOUS
  <2>1. OneWallet(l).at = l.at /\ OneWallet(k).at = k.at
    BY <1>5, OneWalletKeeps
  <2>2. l.receipt.paper.image = OneWallet(l).receipt.paper.image /\ k.receipt.paper.image = OneWallet(k).receipt.paper.image
    BY <1>5, OneWalletKeeps
  <2>3. l.receipt.paper \in Paper /\ k.receipt.paper \in Paper
    BY <1>5 DEF Receipt
  <2>4. l.receipt.paper = k.receipt.paper
    BY <2>2, <2>3, PaperAssumption
  <2>5. l.receipt = k.receipt
    BY <1>2, <1>5, <2>4
  <2> QED BY <1>5, <2>1, <2>5
<1>12. PICK e : e = [o \in A |-> Observation(OneWallet(o.line), human)]
  OBVIOUS
<1>13. \A o \in A : e[o] \in B /\ Alike(o, e[o]) /\ e[o].line = OneWallet(o.line)
  <2> SUFFICES ASSUME NEW o \in A PROVE e[o] \in B /\ Alike(o, e[o]) /\ e[o].line = OneWallet(o.line)
    OBVIOUS
  <2>1. e[o] = Observation(OneWallet(o.line), human) /\ o = Observation(o.line, human)
    BY <1>7, <1>12
  <2>2. OneWallet(o.line) \in Q /\ Observable(OneWallet(o.line)) /\ Alike(Observation(o.line, human), Observation(OneWallet(o.line), human))
    BY <1>7, <1>8, <1>9
  <2> QED BY <1>6, <1>7, <2>1, <2>2
<1>14. \A o, u \in A : e[o] = e[u] => o = u
  <2> SUFFICES ASSUME NEW o \in A, NEW u \in A, e[o] = e[u] PROVE o = u
    OBVIOUS
  <2>1. OneWallet(o.line) = OneWallet(u.line)
    BY <1>13
  <2>2. o.line = u.line
    BY <1>7, <1>11, <2>1
  <2> QED BY <1>7, <2>2
<1>15. \A u \in B : \E o \in A : e[o] = u
  <2> SUFFICES ASSUME NEW u \in B PROVE \E o \in A : e[o] = u
    OBVIOUS
  <2>1. PICK l \in P : u.line = OneWallet(l)
    BY <1>7, <1>8
  <2>2. Observable(l)
    BY <1>7, <1>10, <2>1
  <2>3. PICK o : o = Observation(l, human)
    OBVIOUS
  <2>4. o \in A /\ o.line = l
    BY <1>6, <1>7, <2>2, <2>3
  <2>5. e[o] = Observation(OneWallet(l), human)
    BY <1>12, <2>4
  <2> QED BY <1>7, <2>1, <2>4, <2>5
<1>16. AlikeOneForOne(e, A, B)
  BY <1>13, <1>14, <1>15 DEF AlikeOneForOne
<1> QED BY <1>1, <1>4, <1>16, CapsAgree

LEMMA WalletsDoNotCount == CorpusHolds => AnyWalletOfAHuman
<1> SUFFICES ASSUME CorpusHolds, NEW country, NEW t
             PROVE  IndexOf(ByOneWallet(Previous(country, t)), ByOneWallet(Current(country, t)), human)
                        = computeEpochIndex(country, t)
  BY DEF AnyWalletOfAHuman
<1>1. PICK P, C, P2, C2 : /\ P = Previous(country, t) /\ C = Current(country, t)
                          /\ P2 = ByOneWallet(P) /\ C2 = ByOneWallet(C)
  OBVIOUS
<1>2. /\ P = PulledFrom(receipts, country, t - 2 * WindowDays, t - WindowDays)
      /\ C = PulledFrom(receipts, country, t - WindowDays, t)
  BY <1>1, PullIs DEF Previous, Current
<1>3. /\ capPerPerson(toObservations(P2, human)) = capPerPerson(toObservations(P, human))
      /\ capPerPerson(toObservations(C2, human)) = capPerPerson(toObservations(C, human))
  BY <1>1, <1>2, OneWalletCaps
<1>4. IndexOf(P2, C2, human) = IndexOf(P, C, human)
  BY <1>3, IndexOfCaps
<1> QED BY <1>1, <1>4 DEF computeEpochIndex

-----------------------------------------------------------------------------
(* No direction of prices is favoured.  Ratios are compared without dividing; *)
(* among those of one ratio it is open which are cut, and how many are cut is *)
(* fixed: a choice as TrimmedOff describes exists.                         *)

LEMMA Cancels ==
  ASSUME NEW a \in Nat, NEW b \in Nat, NEW x \in Nat \ {0}
  PROVE  /\ a * x = b * x => a = b
         /\ a * x < b * x <=> a < b
<1>1. ASSUME NEW c \in Nat, NEW d \in Nat, c < d PROVE c * x < d * x
  <2>1. PICK e \in Nat \ {0} : d = c + e
    <3>1. d - c \in Nat \ {0} /\ d = c + (d - c)
      BY <1>1
    <3> QED BY <3>1
  <2>2. d * x = c * x + e * x
    BY <2>1
  <2>3. e * x > 0 /\ c * x \in Nat /\ e * x \in Nat
    BY <2>1
  <2> QED BY <2>2, <2>3
<1>2. a * x \in Nat /\ b * x \in Nat
  OBVIOUS
<1> QED BY <1>1, <1>2

LEMMA Turns == \A a, b, c \in Nat : (a * b) * c = (a * c) * b /\ (a * b) * c = (b * c) * a /\ a * b = b * a
OBVIOUS

Ratio(r) == r.before \in Nat \ {0} /\ r.now \in Nat \ {0}
Same(s, r) == s.now * r.before = r.now * s.before
Below(s, r) == s.now * r.before < r.now * s.before

\* Equal ratios have an equal place among others.
LEMMA SameIsSame ==
  ASSUME NEW s, NEW r, NEW q, Ratio(s), Ratio(r), Ratio(q), Same(r, q)
  PROVE  /\ Same(s, r) <=> Same(s, q)
         /\ Below(s, r) <=> Below(s, q)
         /\ Same(q, r) /\ Same(r, r)
<1>1. PICK sn, sb, rn, rb, qn, qb \in Nat \ {0} : /\ sn = s.now /\ sb = s.before /\ rn = r.now /\ rb = r.before
                                          /\ qn = q.now /\ qb = q.before
  BY DEF Ratio
<1>2. rn * qb = qn * rb
  BY <1>1 DEF Same
<1>3. (sn * rb) * qb = (sn * qb) * rb
  BY Turns
<1>4. (rn * sb) * qb = (qn * sb) * rb
  <2>1. (rn * sb) * qb = (rn * qb) * sb
    BY Turns
  <2>2. (qn * rb) * sb = (qn * sb) * rb
    BY Turns
  <2> QED BY <1>2, <2>1, <2>2
<1>5. PICK x, y, u, v \in Nat : x = sn * rb /\ y = rn * sb /\ u = sn * qb /\ v = qn * sb
  <2>1. sn * rb \in Nat /\ rn * sb \in Nat /\ sn * qb \in Nat /\ qn * sb \in Nat
    OBVIOUS
  <2> QED BY <2>1
<1>6. x * qb = u * rb /\ y * qb = v * rb
  BY <1>3, <1>4, <1>5
<1>7. x = y <=> u = v
  <2>1. x = y => u * rb = v * rb
    BY <1>6
  <2>2. u = v => x * qb = y * qb
    BY <1>6
  <2> QED BY <2>1, <2>2, Cancels
<1>8. x < y <=> u < v
  <2>1. x < y <=> x * qb < y * qb
    BY Cancels
  <2>2. u < v <=> u * rb < v * rb
    BY Cancels
  <2> QED BY <1>6, <2>1, <2>2
<1>9. rn * rb = rn * rb /\ qn * rb = rn * qb
  BY <1>2
<1> QED BY <1>1, <1>5, <1>7, <1>8, <1>9 DEF Same, Below

LEMMA LikewiseIs == \A S, r : Likewise(S, r) = {s \in S : Same(s, r)} /\ Cheaper(S, r) = {s \in S : Below(s, r)}
BY DEF Likewise, Cheaper, Same, Below

\* There are subsets of every size.
LEMMA SomeOfSize ==
  ASSUME NEW S, IsFiniteSet(S), NEW k \in Nat, k <= Cardinality(S)
  PROVE  \E T \in SUBSET S : Cardinality(T) = k
<1>1. PICK n \in Nat : n = Cardinality(S)
  BY FS_CardinalityType
<1>2. PICK f : f \in Bijection(1 .. n, S)
  BY <1>1, FS_CardinalityType DEF ExistsBijection
<1>3. PICK T : T = {f[i] : i \in 1 .. k}
  OBVIOUS
<1>4. \A i \in 1 .. k : i \in 1 .. n
  BY <1>1
<1>5. f \in [1 .. n -> S] /\ \A i, j \in 1 .. n : f[i] = f[j] => i = j
  BY <1>2 DEF Bijection, Injection, IsInjective
<1>6. PICK g : g = [i \in 1 .. k |-> f[i]]
  OBVIOUS
<1>7. g \in Bijection(1 .. k, T)
  BY <1>3, <1>4, <1>5, <1>6 DEF Bijection, Injection, Surjection, IsInjective
<1>8. Cardinality(T) = k
  BY <1>7, FS_CountingElements DEF ExistsBijection
<1>9. T \in SUBSET S
  BY <1>3, <1>4, <1>5
<1> QED BY <1>8, <1>9

Ratios(S) == IsFiniteSet(S) /\ \A r \in S : Ratio(r)
PlacesIn(S, r) ==
    (Cardinality(Cheaper(S, r)) + 1)..(Cardinality(Cheaper(S, r)) + Cardinality(Likewise(S, r)))
LeftIn(S, low, high) == (low + 1)..(Cardinality(S) - high)
Share(S, r, low, high) == Cardinality(PlacesIn(S, r) \cap LeftIn(S, low, high))
Keeps(kept, S, low, high) == \A r \in S : Cardinality(Likewise(kept, r)) = Share(S, r, low, high)

LEMMA TrimmedOffIs == \A S, low, high : TrimmedOff(S, low, high) = CHOOSE kept \in SUBSET S : Keeps(kept, S, low, high)
BY Zenon DEF TrimmedOff, Keeps, Share, PlacesIn, LeftIn

LEMMA SameClass ==
  ASSUME NEW S, Ratios(S), NEW r \in S, NEW q \in S, Same(r, q)
  PROVE  /\ Likewise(S, r) = Likewise(S, q) /\ Cheaper(S, r) = Cheaper(S, q)
         /\ \A low, high : Share(S, r, low, high) = Share(S, q, low, high)
<1>1. Ratio(r) /\ Ratio(q) /\ \A s \in S : Ratio(s)
  BY DEF Ratios
<1>2. \A s \in S : (Same(s, r) <=> Same(s, q)) /\ (Below(s, r) <=> Below(s, q))
  BY <1>1, SameIsSame
<1>3. Likewise(S, r) = Likewise(S, q) /\ Cheaper(S, r) = Cheaper(S, q)
  BY <1>2, LikewiseIs
<1> QED BY <1>3 DEF Share, PlacesIn

LEMMA CountTypes ==
  ASSUME NEW S, Ratios(S), NEW r
  PROVE  /\ Likewise(S, r) \in SUBSET S /\ Cheaper(S, r) \in SUBSET S
         /\ IsFiniteSet(Likewise(S, r)) /\ IsFiniteSet(Cheaper(S, r))
         /\ Cardinality(S) \in Nat /\ Cardinality(Likewise(S, r)) \in Nat /\ Cardinality(Cheaper(S, r)) \in Nat
<1>1. Likewise(S, r) \in SUBSET S /\ Cheaper(S, r) \in SUBSET S
  BY LikewiseIs
<1>2. IsFiniteSet(S) /\ IsFiniteSet(Likewise(S, r)) /\ IsFiniteSet(Cheaper(S, r))
  BY <1>1, FS_Subset DEF Ratios
<1> QED BY <1>1, <1>2, FS_CardinalityType

LEMMA ShareFits ==
  ASSUME NEW S, Ratios(S), NEW r, NEW low, NEW high
  PROVE  Share(S, r, low, high) \in Nat /\ Share(S, r, low, high) <= Cardinality(Likewise(S, r))
<1>1. PICK a, b \in Nat : a = Cardinality(Cheaper(S, r)) /\ b = Cardinality(Likewise(S, r))
  BY CountTypes
<1>2. IsFiniteSet((a + 1) .. (a + b)) /\ Cardinality((a + 1) .. (a + b)) = b
  BY FS_Interval
<1>3. PICK P, T : P = (a + 1) .. (a + b) /\ T = P \cap LeftIn(S, low, high)
  OBVIOUS
<1>4. T \in SUBSET P
  BY <1>3
<1>5. IsFiniteSet(T) /\ Cardinality(T) <= b
  BY <1>2, <1>3, <1>4, FS_Subset
<1>6. Cardinality(T) \in Nat
  BY <1>5, FS_CardinalityType
<1> QED BY <1>1, <1>3, <1>5, <1>6 DEF Share, PlacesIn

\* There is a way to cut the tails.
LEMMA TailsCanBeCut ==
  ASSUME NEW S, Ratios(S), NEW low, NEW high
  PROVE  \E kept : kept \in SUBSET S /\ Keeps(kept, S, low, high)
<1>0. PICK share : share = [r \in S |-> Share(S, r, low, high)]
  OBVIOUS
<1>1. PICK pick : pick = [r \in S |-> CHOOSE T : T \in SUBSET Likewise(S, r) /\ Cardinality(T) = share[r]]
  OBVIOUS
<1>2. ASSUME NEW r \in S PROVE pick[r] \in SUBSET Likewise(S, r) /\ Cardinality(pick[r]) = share[r]
  <2>1. share[r] \in Nat /\ share[r] <= Cardinality(Likewise(S, r)) /\ IsFiniteSet(Likewise(S, r))
    BY <1>0, ShareFits, CountTypes
  <2>2. \E T : T \in SUBSET Likewise(S, r) /\ Cardinality(T) = share[r]
    BY <2>1, SomeOfSize
  <2>3. pick[r] = CHOOSE T : T \in SUBSET Likewise(S, r) /\ Cardinality(T) = share[r]
    BY <1>1
  <2> QED BY <2>2, <2>3, Zenon
<1>3. ASSUME NEW r \in S, NEW q \in S, Same(r, q) PROVE pick[r] = pick[q]
  <2>1. Likewise(S, r) = Likewise(S, q) /\ share[r] = share[q]
    BY <1>0, <1>3, SameClass
  <2>2. pick[r] = CHOOSE T : T \in SUBSET Likewise(S, r) /\ Cardinality(T) = share[r]
    BY <1>1
  <2>3. pick[q] = CHOOSE T : T \in SUBSET Likewise(S, q) /\ Cardinality(T) = share[q]
    BY <1>1
  <2> QED BY <2>1, <2>2, <2>3
<1>4. PICK kept : kept = UNION {pick[r] : r \in S}
  OBVIOUS
<1>5. \A r \in S : \A s : s \in Likewise(S, r) <=> s \in S /\ Same(s, r)
  BY LikewiseIs
<1>6. ASSUME NEW r \in S PROVE Likewise(kept, r) = pick[r]
  <2>1. \A s : s \in Likewise(kept, r) <=> s \in kept /\ Same(s, r)
    BY LikewiseIs
  <2>2. ASSUME NEW s, s \in Likewise(kept, r) PROVE s \in pick[r]
    <3>1. PICK q \in S : s \in pick[q]
      BY <1>4, <2>1, <2>2
    <3>2. s \in S /\ Same(s, q)
      BY <1>2, <1>5, <3>1
    <3>3. pick[s] = pick[q] /\ pick[s] = pick[r]
      BY <1>3, <2>1, <2>2, <3>2
    <3> QED BY <3>1, <3>3
  <2>3. ASSUME NEW s, s \in pick[r] PROVE s \in Likewise(kept, r)
    <3>1. s \in kept
      BY <1>4, <2>3
    <3>2. Same(s, r)
      BY <1>2, <1>5, <2>3
    <3> QED BY <2>1, <3>1, <3>2
  <2> QED BY <2>2, <2>3
<1>7. kept \in SUBSET S
  BY <1>2, <1>4, <1>5
<1>8. Keeps(kept, S, low, high)
  BY <1>0, <1>2, <1>6 DEF Keeps
<1> QED BY <1>7, <1>8

LEMMA TailsAreCut ==
  ASSUME NEW S, Ratios(S), NEW low, NEW high
  PROVE  TrimmedOff(S, low, high) \in SUBSET S /\ Keeps(TrimmedOff(S, low, high), S, low, high)
<1>1. \E kept \in SUBSET S : Keeps(kept, S, low, high)
  BY TailsCanBeCut
<1>2. TrimmedOff(S, low, high) = CHOOSE kept \in SUBSET S : Keeps(kept, S, low, high)
  BY TrimmedOffIs
<1> QED BY <1>1, <1>2, Zenon

-----------------------------------------------------------------------------
(* The ratios of the exchanged windows are the inverse ones.  A ratio's places *)
(* from below are its inverse's places from above, and the cut is the same at *)
(* either end, so as many are kept.                                        *)

Mirrored(g, A, B) ==
    /\ \A r \in A : g[r] \in B /\ g[r].before = r.now /\ g[r].now = r.before
    /\ \A r, q \in A : g[r] = g[q] => r = q
    /\ \A s \in B : \E r \in A : g[r] = s

LEMMA MirrorPart ==
  ASSUME NEW A, NEW B, NEW g, Mirrored(g, A, B), NEW C \in SUBSET A, NEW D \in SUBSET B,
         \A r \in A : r \in C <=> g[r] \in D
  PROVE  Mirrored(g, C, D)
BY DEF Mirrored

LEMMA MirrorCount ==
  ASSUME NEW A, NEW B, NEW g, Mirrored(g, A, B), IsFiniteSet(A)
  PROVE  IsFiniteSet(B) /\ Cardinality(B) = Cardinality(A)
<1>1. PICK e : e = [r \in A |-> g[r]]
  OBVIOUS
<1>2. e \in Bijection(A, B)
  BY <1>1 DEF Mirrored, Bijection, Injection, Surjection, IsInjective
<1> QED BY <1>2, FS_Bijection DEF ExistsBijection

LEMMA MirrorRatios ==
  ASSUME NEW A, NEW B, NEW g, Mirrored(g, A, B), Ratios(A)
  PROVE  Ratios(B)
<1>1. IsFiniteSet(B)
  BY MirrorCount DEF Ratios
<1>2. \A s \in B : Ratio(s)
  <2> SUFFICES ASSUME NEW s \in B PROVE Ratio(s)
    OBVIOUS
  <2>1. PICK r \in A : g[r] = s
    BY DEF Mirrored
  <2> QED BY <2>1 DEF Mirrored, Ratios, Ratio
<1> QED BY <1>1, <1>2 DEF Ratios

LEMMA MirrorOrder ==
  ASSUME NEW s, NEW r, NEW u, NEW v, Ratio(s), Ratio(r),
         u.before = s.now, u.now = s.before, v.before = r.now, v.now = r.before
  PROVE  /\ Same(u, v) <=> Same(s, r)
         /\ Below(u, v) <=> ~ Same(s, r) /\ ~ Below(s, r)
<1>1. PICK a, b \in Nat : a = s.now * r.before /\ b = r.now * s.before
  <2>1. s.now * r.before \in Nat /\ r.now * s.before \in Nat
    BY DEF Ratio
  <2> QED BY <2>1
<1>2. u.now * v.before = b /\ v.now * u.before = a
  BY <1>1, Turns DEF Ratio
<1> QED BY <1>1, <1>2 DEF Same, Below

LEMMA MirrorPlaces ==
  ASSUME NEW A, NEW B, NEW g, Mirrored(g, A, B), Ratios(A), NEW r \in A
  PROVE  /\ Cardinality(Likewise(B, g[r])) = Cardinality(Likewise(A, r))
         /\ Cardinality(Cheaper(B, g[r])) = Cardinality(A) - Cardinality(Cheaper(A, r)) - Cardinality(Likewise(A, r))
<1>1. \A s \in A : /\ Same(g[s], g[r]) <=> Same(s, r)
                   /\ Below(g[s], g[r]) <=> ~ Same(s, r) /\ ~ Below(s, r)
  BY MirrorOrder DEF Mirrored, Ratios
<1>2. PICK L, C, D : L = Likewise(A, r) /\ C = Cheaper(A, r) /\ D = A \ (C \cup L)
  OBVIOUS
<1>3. Mirrored(g, L, Likewise(B, g[r]))
  <2>1. L \in SUBSET A /\ Likewise(B, g[r]) \in SUBSET B
    BY <1>2, LikewiseIs
  <2>2. \A s \in A : s \in L <=> g[s] \in Likewise(B, g[r])
    BY <1>1, <1>2, LikewiseIs DEF Mirrored
  <2> QED BY <2>1, <2>2, MirrorPart
<1>4. Mirrored(g, D, Cheaper(B, g[r]))
  <2>1. D \in SUBSET A /\ Cheaper(B, g[r]) \in SUBSET B
    BY <1>2, LikewiseIs
  <2>2. \A s \in A : s \in D <=> g[s] \in Cheaper(B, g[r])
    BY <1>1, <1>2, LikewiseIs DEF Mirrored
  <2> QED BY <2>1, <2>2, MirrorPart
<1>5. /\ IsFiniteSet(A) /\ IsFiniteSet(L) /\ IsFiniteSet(C) /\ L \in SUBSET A /\ C \in SUBSET A
      /\ Cardinality(L) \in Nat /\ Cardinality(C) \in Nat /\ Cardinality(A) \in Nat
  BY <1>2, CountTypes DEF Ratios
<1>6. C \cap L = {}
  <2>1. \A s \in A : ~ (Same(s, r) /\ Below(s, r))
    <3> SUFFICES ASSUME NEW s \in A PROVE ~ (Same(s, r) /\ Below(s, r))
      OBVIOUS
    <3>1. s.now * r.before \in Nat /\ r.now * s.before \in Nat
      BY DEF Ratios, Ratio
    <3> QED BY <3>1 DEF Same, Below
  <2> QED BY <1>2, <2>1, LikewiseIs
<1>7. IsFiniteSet(C \cup L) /\ Cardinality(C \cup L) = Cardinality(C) + Cardinality(L)
  BY <1>5, <1>6, FS_Union, FS_EmptySet
<1>8. A \cap (C \cup L) = C \cup L
  BY <1>5
<1>9. IsFiniteSet(D) /\ Cardinality(D) = Cardinality(A) - (Cardinality(C) + Cardinality(L))
  <2>1. PICK W : W = C \cup L
    OBVIOUS
  <2>2. IsFiniteSet(A \ W) /\ Cardinality(A \ W) = Cardinality(A) - Cardinality(A \cap W)
    BY <1>5, FS_Difference
  <2> QED BY <1>2, <1>7, <1>8, <2>1, <2>2
<1>10. Cardinality(Likewise(B, g[r])) = Cardinality(L)
  BY <1>3, <1>5, MirrorCount
<1>11. Cardinality(Cheaper(B, g[r])) = Cardinality(D)
  BY <1>4, <1>9, MirrorCount
<1> QED BY <1>2, <1>5, <1>9, <1>10, <1>11

\* Places counted from the other end.
CutOf(c, m, cut, n) == Cardinality(((c + 1) .. (c + m)) \cap ((cut + 1) .. (n - cut)))

LEMMA FromTheOtherEnd ==
  ASSUME NEW n \in Nat, NEW c \in Nat, NEW m \in Nat, NEW cut \in Nat
  PROVE  CutOf(n - c - m, m, cut, n) = CutOf(c, m, cut, n)
<1>1. PICK S, T : /\ S = ((c + 1) .. (c + m)) \cap ((cut + 1) .. (n - cut))
                  /\ T = ((n - c - m + 1) .. (n - c - m + m)) \cap ((cut + 1) .. (n - cut))
  OBVIOUS
<1>2. PICK f : f = [i \in S |-> n + 1 - i]
  OBVIOUS
<1>3. \A i \in S : i \in Int /\ f[i] = n + 1 - i /\ f[i] \in T
  BY <1>1, <1>2
<1>4. \A j \in T : n + 1 - j \in S /\ j \in Int /\ f[n + 1 - j] = j
  BY <1>1, <1>2
<1>5. f \in Bijection(S, T)
  <2>1. f \in [S -> T]
    BY <1>2, <1>3
  <2>2. \A i, j \in S : f[i] = f[j] => i = j
    BY <1>3
  <2> QED BY <1>4, <2>1, <2>2 DEF Bijection, Injection, Surjection, IsInjective
<1>6. IsFiniteSet(S)
  <2>1. IsFiniteSet((c + 1) .. (c + m)) /\ S \in SUBSET ((c + 1) .. (c + m))
    BY <1>1, FS_Interval
  <2> QED BY <2>1, FS_Subset
<1>7. Cardinality(T) = Cardinality(S)
  BY <1>5, <1>6, FS_Bijection DEF ExistsBijection
<1> QED BY <1>1, <1>7 DEF CutOf

LEMMA MirrorShare ==
  ASSUME NEW A, NEW B, NEW g, Mirrored(g, A, B), Ratios(A), NEW r \in A, NEW cut \in Nat
  PROVE  Share(B, g[r], cut, cut) = Share(A, r, cut, cut)
<1>1. PICK n, c, m \in Nat : n = Cardinality(A) /\ c = Cardinality(Cheaper(A, r)) /\ m = Cardinality(Likewise(A, r))
  BY CountTypes
<1>2. /\ Cardinality(B) = n /\ Cardinality(Cheaper(B, g[r])) = n - c - m
      /\ Cardinality(Likewise(B, g[r])) = m
  BY <1>1, MirrorPlaces, MirrorCount DEF Ratios
<1>3. Share(A, r, cut, cut) = CutOf(c, m, cut, n)
  BY <1>1 DEF Share, PlacesIn, LeftIn, CutOf
<1>4. Share(B, g[r], cut, cut) = CutOf(n - c - m, m, cut, n)
  BY <1>2 DEF Share, PlacesIn, LeftIn, CutOf
<1> QED BY <1>3, <1>4, FromTheOtherEnd

AtRatio(S, x, y) == {s \in S : s.now * x = s.before * y}

LEMMA AtRatioOf ==
  ASSUME NEW S, Ratios(S), NEW K \in SUBSET S, NEW q \in S, NEW x \in Nat \ {0}, NEW y \in Nat \ {0},
         q.now * x = q.before * y
  PROVE  AtRatio(K, x, y) = Likewise(K, q)
<1>1. PICK p : p = [before |-> x, now |-> y]
  OBVIOUS
<1>2. \A s \in S : s.now * x = s.before * y <=> Same(s, p)
  <2> SUFFICES ASSUME NEW s \in S PROVE s.now * x = s.before * y <=> Same(s, p)
    OBVIOUS
  <2>1. s.before * y = y * s.before
    BY DEF Ratios, Ratio
  <2> QED BY <1>1, <2>1 DEF Same
<1>3. Ratio(p) /\ Ratio(q) /\ Same(q, p)
  BY <1>1, <1>2 DEF Ratios, Ratio
<1>4. Same(p, q)
  BY <1>3, SameIsSame
<1>5. \A s \in S : Same(s, q) <=> Same(s, p)
  BY <1>3, <1>4, SameIsSame DEF Ratios
<1> QED BY <1>2, <1>5, LikewiseIs DEF AtRatio

LEMMA TrimIsFair ==
  ASSUME NEW A, NEW B, NEW g, Mirrored(g, A, B), Ratios(A), NEW x \in Nat \ {0}, NEW y \in Nat \ {0}
  PROVE  Cardinality(AtRatio(trimTails(A), x, y)) = Cardinality(AtRatio(trimTails(B), y, x))
<1>1. PICK n \in Nat, cut \in Nat : n = Cardinality(A) /\ cut = n \div TrimOneIn
  <2>1. PICK n \in Nat : n = Cardinality(A)
    BY CountTypes
  <2>2. n \div TrimOneIn \in Nat
    BY IndexAssumption
  <2> QED BY <2>1, <2>2
<1>2. Ratios(B) /\ Cardinality(B) = n
  BY <1>1, MirrorRatios, MirrorCount DEF Ratios
<1>3. \A r \in A : g[r] \in B /\ g[r].before = r.now /\ g[r].now = r.before /\ Ratio(r)
  BY DEF Mirrored, Ratios
<1>4. \A r \in A : r.now * x = r.before * y <=> g[r].now * y = g[r].before * x
  <2> SUFFICES ASSUME NEW r \in A PROVE r.now * x = r.before * y <=> r.before * y = r.now * x
    BY <1>3
  <2> QED OBVIOUS
<1>5. CASE n < 3
  <2>1. trimTails(A) = A /\ trimTails(B) = B
    BY <1>1, <1>2, <1>5 DEF trimTails
  <2>2. Mirrored(g, AtRatio(A, x, y), AtRatio(B, y, x))
    <3>1. AtRatio(A, x, y) \in SUBSET A /\ AtRatio(B, y, x) \in SUBSET B
      BY DEF AtRatio
    <3>2. \A r \in A : r \in AtRatio(A, x, y) <=> g[r] \in AtRatio(B, y, x)
      BY <1>3, <1>4 DEF AtRatio
    <3> QED BY <3>1, <3>2, MirrorPart
  <2>3. IsFiniteSet(AtRatio(A, x, y))
    BY FS_Subset DEF AtRatio, Ratios
  <2> QED BY <2>1, <2>2, <2>3, MirrorCount
<1>6. CASE ~ (n < 3)
  <2>1. PICK F, H : F = TrimmedOff(A, cut, cut) /\ H = TrimmedOff(B, cut, cut)
    OBVIOUS
  <2>2. trimTails(A) = F /\ trimTails(B) = H
    BY <1>1, <1>2, <1>6, <2>1 DEF trimTails
  <2>3. F \in SUBSET A /\ Keeps(F, A, cut, cut) /\ H \in SUBSET B /\ Keeps(H, B, cut, cut)
    BY <1>2, <2>1, TailsAreCut
  <2>4. CASE \E q \in A : q.now * x = q.before * y
    <3>1. PICK q \in A : q.now * x = q.before * y
      BY <2>4
    <3>2. AtRatio(F, x, y) = Likewise(F, q)
      BY <2>3, <3>1, AtRatioOf
    <3>3. AtRatio(H, y, x) = Likewise(H, g[q])
      BY <1>2, <1>3, <1>4, <2>3, <3>1, AtRatioOf
    <3>4. Cardinality(Likewise(F, q)) = Share(A, q, cut, cut) /\ Cardinality(Likewise(H, g[q])) = Share(B, g[q], cut, cut)
      BY <1>3, <2>3 DEF Keeps
    <3> QED BY <2>2, <3>2, <3>3, <3>4, MirrorShare
  <2>5. CASE ~ \E q \in A : q.now * x = q.before * y
    <3>1. AtRatio(F, x, y) = {}
      BY <2>3, <2>5 DEF AtRatio
    <3>2. AtRatio(H, y, x) = {}
      <4>1. \A s \in B : ~ (s.now * y = s.before * x)
        BY <1>4, <2>5 DEF Mirrored
      <4> QED BY <2>3, <4>1 DEF AtRatio
    <3> QED BY <2>2, <3>1, <3>2
  <2> QED BY <2>4, <2>5
<1> QED BY <1>5, <1>6

-----------------------------------------------------------------------------
(* The prices of a window are positive, so its ratios invert.              *)

Costs(S) == IsFiniteSet(S) /\ \A o \in S : o.price \in Nat \ {0}

LEMMA MiddleCost ==
  ASSUME NEW S, Costs(S), S # {}
  PROVE  Median2({<<o, o.price>> : o \in S}) \in Nat \ {0}
<1>1. PICK f, R : f = [o \in S |-> o.price] /\ R = {<<o, o.price>> : o \in S}
  OBVIOUS
<1>2. \A o \in S : f[o] = o.price /\ f[o] \in Nat
  BY <1>1 DEF Costs
<1>3. R = {<<o, f[o]>> : o \in S}
  BY <1>1, <1>2
<1>4. Values(R) /\ R # {}
  BY <1>2, <1>3, ReadingsAre DEF Costs
<1>5. \A q \in R : q[2] # 0
  BY <1>1 DEF Costs
<1> QED BY <1>1, <1>4, <1>5, MedianIs

LEMMA CapCosts ==
  ASSUME NEW S, Costs(S)
  PROVE  Costs(capPerPerson(S))
<1>1. capPerPerson(S) = {CappedFor(S, o) : o \in S}
  BY CapIs
<1>2. \A o \in S : CappedFor(S, o).price \in Nat \ {0}
  <2> SUFFICES ASSUME NEW o \in S PROVE CappedFor(S, o).price \in Nat \ {0}
    OBVIOUS
  <2>1. PICK T : T = SameOf(S, o)
    OBVIOUS
  <2>2. T \in SUBSET S /\ o \in T
    BY <2>1 DEF SameOf
  <2>3. Costs(T) /\ T # {}
    BY <2>2, FS_Subset DEF Costs
  <2>4. CappedFor(S, o).price = Median2({<<p, p.price>> : p \in T})
    BY <2>1 DEF CappedFor, PersonPrice
  <2> QED BY <2>3, <2>4, MiddleCost
<1> HIDE DEF CappedFor
<1>3. PICK f : f = [o \in S |-> CappedFor(S, o)]
  OBVIOUS
<1>4. f \in Surjection(S, capPerPerson(S))
  BY <1>1, <1>3 DEF Surjection
<1>5. IsFiniteSet(capPerPerson(S))
  BY <1>4, FS_Surjection DEF Costs
<1> QED BY <1>1, <1>2, <1>5 DEF Costs

PeriodOf(lines, h) == collapseToPeriodPrices(capPerPerson(toObservations(lines, h)))
HasPrices(period) == IsFiniteSet(DOMAIN period) /\ \A key \in DOMAIN period : period[key].price \in Nat \ {0}

LEMMA PeriodIsPriced ==
  ASSUME NEW lines, Distinct(lines), NEW h
  PROVE  HasPrices(PeriodOf(lines, h))
<1>1. PICK S, T : S = toObservations(lines, h) /\ T = capPerPerson(S)
  OBVIOUS
<1>2. Costs(S)
  <2>1. IsFiniteSet(S)
    BY <1>1, ObservedFinite DEF Distinct
  <2>2. \A o \in S : o.price \in Nat \ {0}
    <3> SUFFICES ASSUME NEW o \in S PROVE o.price \in Nat \ {0}
      OBVIOUS
    <3>1. PICK l \in lines : Observable(l) /\ o = Observation(l, h)
      BY <1>1, ObservationsAre
    <3>2. l.receipt.lines[l.at] \in ItemRow
      BY DEF Distinct
    <3>3. o.price = PriceOn(l.receipt.lines[l.at])
      BY <3>1 DEF Observation
    <3> QED BY <3>1, <3>2, <3>3, PricedType DEF Observable
  <2> QED BY <2>1, <2>2 DEF Costs
<1>3. Costs(T)
  BY <1>1, <1>2, CapCosts
<1>4. PeriodOf(lines, h) = [key \in {o.key : o \in T} |-> PeriodPrice(WithKey(T, key))]
  BY <1>1, CollapseIs DEF PeriodOf
<1>5. PICK K : K = {o.key : o \in T}
  OBVIOUS
<1>6. IsFiniteSet(K)
  <2>1. PICK f : f = [o \in T |-> o.key]
    OBVIOUS
  <2>2. f \in Surjection(T, K)
    BY <1>5, <2>1 DEF Surjection
  <2> QED BY <1>3, <2>2, FS_Surjection DEF Costs
<1>7. \A key \in K : PeriodPrice(WithKey(T, key)).price \in Nat \ {0}
  <2> SUFFICES ASSUME NEW key \in K PROVE PeriodPrice(WithKey(T, key)).price \in Nat \ {0}
    OBVIOUS
  <2>1. PICK U : U = WithKey(T, key)
    OBVIOUS
  <2>2. U \in SUBSET T /\ U # {}
    BY <1>5, <2>1 DEF WithKey
  <2>3. Costs(U)
    BY <1>3, <2>2, FS_Subset DEF Costs
  <2>4. PeriodPrice(U).price = Median2({<<o, o.price>> : o \in U})
    BY DEF PeriodPrice
  <2> QED BY <2>1, <2>2, <2>3, <2>4, MiddleCost
<1> HIDE DEF PeriodPrice
<1>8. DOMAIN PeriodOf(lines, h) = K /\ \A key \in K : PeriodOf(lines, h)[key] = PeriodPrice(WithKey(T, key))
  BY <1>4, <1>5
<1> QED BY <1>6, <1>7, <1>8 DEF HasPrices

LEMMA RelativesAre == \A P, C, h :
  IndexOf(P, C, h).relatives = applyIntegrity(priceRelatives(PeriodOf(P, h), PeriodOf(C, h)))
BY DEF IndexOf, PeriodOf

LEMMA RelativesMirror ==
  ASSUME NEW b, NEW n, HasPrices(b), HasPrices(n)
  PROVE  /\ Ratios(priceRelatives(b, n))
         /\ \E g : /\ Mirrored(g, priceRelatives(b, n), priceRelatives(n, b))
                   /\ \A r \in priceRelatives(b, n) : g[r].people = r.people
<1>1. PICK K, A, B : K = DOMAIN n \cap DOMAIN b /\ A = priceRelatives(b, n) /\ B = priceRelatives(n, b)
  OBVIOUS
<1>2. A = {Relative(key, b[key], n[key]) : key \in K} /\ B = {Relative(key, n[key], b[key]) : key \in K}
  BY <1>1 DEF priceRelatives
<1>3. \A key, p, q : /\ Relative(key, p, q).key = key /\ Relative(key, p, q).before = p.price
                     /\ Relative(key, p, q).now = q.price
                     /\ Relative(key, p, q).people = Cardinality(p.people \cup q.people)
  BY DEF Relative
<1> HIDE DEF Relative
<1>4. ASSUME NEW r \in A
      PROVE  /\ r.key \in K /\ r = Relative(r.key, b[r.key], n[r.key])
             /\ r.before = b[r.key].price /\ r.now = n[r.key].price
             /\ r.people = Cardinality(b[r.key].people \cup n[r.key].people)
  BY <1>2, <1>3
<1>5. PICK g : g = [r \in A |-> Relative(r.key, n[r.key], b[r.key])]
  OBVIOUS
<1>6. ASSUME NEW r \in A
      PROVE  /\ g[r] \in B /\ g[r].key = r.key /\ g[r].before = r.now /\ g[r].now = r.before /\ g[r].people = r.people
  <2>1. g[r] = Relative(r.key, n[r.key], b[r.key]) /\ r.key \in K
    BY <1>4, <1>5
  <2>2. g[r] \in B
    BY <1>2, <2>1
  <2>3. n[r.key].people \cup b[r.key].people = b[r.key].people \cup n[r.key].people
    OBVIOUS
  <2>4. g[r].key = r.key
    BY <1>3, <2>1
  <2>5. g[r].before = n[r.key].price /\ g[r].now = b[r.key].price
    BY <1>3, <2>1
  <2>6. r.before = b[r.key].price /\ r.now = n[r.key].price
    BY <1>4
  <2>7. g[r].people = Cardinality(n[r.key].people \cup b[r.key].people)
    BY <1>3, <2>1
  <2>8. r.people = Cardinality(b[r.key].people \cup n[r.key].people)
    BY <1>4
  <2>9. g[r].people = r.people
    BY <2>3, <2>7, <2>8
  <2> QED BY <2>2, <2>4, <2>5, <2>6, <2>9
<1>7. \A r, q \in A : g[r] = g[q] => r = q
  <2> SUFFICES ASSUME NEW r \in A, NEW q \in A, g[r] = g[q] PROVE r = q
    OBVIOUS
  <2>1. g[r].key = r.key /\ g[q].key = q.key
    BY <1>6
  <2>2. r.key = q.key
    BY <2>1
  <2>3. r = Relative(r.key, b[r.key], n[r.key]) /\ q = Relative(q.key, b[q.key], n[q.key])
    BY <1>4
  <2> QED BY <2>2, <2>3
<1>8. \A s \in B : \E r \in A : g[r] = s
  <2> SUFFICES ASSUME NEW s \in B PROVE \E r \in A : g[r] = s
    OBVIOUS
  <2>1. PICK key \in K : s = Relative(key, n[key], b[key])
    BY <1>2
  <2>2. PICK r : r = Relative(key, b[key], n[key])
    OBVIOUS
  <2>3. r \in A /\ r.key = key
    BY <1>2, <1>3, <2>2
  <2> QED BY <1>5, <2>1, <2>3
<1>9. Mirrored(g, A, B)
  BY <1>6, <1>7, <1>8 DEF Mirrored
<1>10. Ratios(A)
  <2>1. IsFiniteSet(K)
    BY <1>1, FS_Intersection DEF HasPrices
  <2>2. PICK f : f = [key \in K |-> Relative(key, b[key], n[key])]
    OBVIOUS
  <2>3. f \in Surjection(K, A)
    BY <1>2, <2>2 DEF Surjection
  <2>4. IsFiniteSet(A)
    BY <2>1, <2>3, FS_Surjection
  <2>5. \A r \in A : r.before \in Nat \ {0} /\ r.now \in Nat \ {0}
    BY <1>1, <1>4 DEF HasPrices
  <2> QED BY <2>4, <2>5 DEF Ratios, Ratio
<1> QED BY <1>1, <1>6, <1>9, <1>10

LEMMA IntegrityIsFair ==
  ASSUME NEW A, NEW B, NEW g, Mirrored(g, A, B), Ratios(A), \A r \in A : g[r].people = r.people,
         NEW x \in Nat \ {0}, NEW y \in Nat \ {0}
  PROVE  Cardinality(AtRatio(applyIntegrity(A), x, y)) = Cardinality(AtRatio(applyIntegrity(B), y, x))
<1>1. PICK C, D : C = requirePeoplePerItem(dropImplausible(A)) /\ D = requirePeoplePerItem(dropImplausible(B))
  OBVIOUS
<1>2. /\ \A r : r \in C <=> r \in A /\ r.before <= 2 * r.now /\ r.now <= 2 * r.before /\ r.people >= MinPeoplePerItem
      /\ \A r : r \in D <=> r \in B /\ r.before <= 2 * r.now /\ r.now <= 2 * r.before /\ r.people >= MinPeoplePerItem
  BY <1>1 DEF requirePeoplePerItem, dropImplausible
<1>3. \A r \in A : r \in C <=> g[r] \in D
  BY <1>2 DEF Mirrored
<1>4. C \in SUBSET A /\ D \in SUBSET B
  BY <1>2
<1>5. Mirrored(g, C, D)
  BY <1>3, <1>4, MirrorPart
<1>6. Ratios(C)
  BY <1>4, FS_Subset DEF Ratios
<1> QED BY <1>1, <1>5, <1>6, TrimIsFair DEF applyIntegrity

LEMMA IntegrityOnlyDrops ==
  ASSUME NEW A, Ratios(A), NEW r \in applyIntegrity(A)
  PROVE  Ratio(r)
<1>1. PICK C : C = requirePeoplePerItem(dropImplausible(A))
  OBVIOUS
<1>2. C \in SUBSET A
  BY <1>1 DEF requirePeoplePerItem, dropImplausible
<1>3. Ratios(C)
  BY <1>2, FS_Subset DEF Ratios
<1>4. trimTails(C) \in SUBSET C
  BY <1>3, TailsAreCut DEF trimTails
<1> QED BY <1>1, <1>3, <1>4 DEF applyIntegrity, Ratios

Undone(forth, back) ==
  \A r \in forth \cup back :
      Cardinality({s \in forth : s.now * r.before = s.before * r.now})
          = Cardinality({s \in back : s.before * r.before = s.now * r.now})

LEMMA ReversalIs ==
  ReversalUndoesTheMove <=>
    \A country \in IndexCountries, t \in Closes :
        Undone(IndexOf(Previous(country, t), Current(country, t), human).relatives,
               IndexOf(Current(country, t), Previous(country, t), human).relatives)
BY Zenon DEF ReversalUndoesTheMove, Undone

LEMMA ReversalUndoes == CorpusHolds => ReversalUndoesTheMove
<1> SUFFICES ASSUME CorpusHolds, NEW country, NEW t,
                    NEW forth, forth = IndexOf(Previous(country, t), Current(country, t), human).relatives,
                    NEW back, back = IndexOf(Current(country, t), Previous(country, t), human).relatives,
                    NEW r \in forth \cup back
             PROVE  Cardinality({s \in forth : s.now * r.before = s.before * r.now})
                        = Cardinality({s \in back : s.before * r.before = s.now * r.now})
  BY ReversalIs DEF Undone
<1>1. PICK P, C, b, n : /\ P = Previous(country, t) /\ C = Current(country, t)
                        /\ b = PeriodOf(P, human) /\ n = PeriodOf(C, human)
  OBVIOUS
<1>2. IsFiniteSet(receipts) /\ (\A q \in receipts : HasRows(q)) /\ \A q, s \in receipts : q.paper = s.paper => q = s
  BY ReceiptRows DEF CorpusHolds, OnePaperEach
<1>3. Distinct(P) /\ Distinct(C)
  BY <1>1, <1>2, PullIs, PulledDistinct DEF Previous, Current
<1>4. HasPrices(b) /\ HasPrices(n)
  BY <1>1, <1>3, PeriodIsPriced
<1>5. PICK A, B : A = priceRelatives(b, n) /\ B = priceRelatives(n, b)
  OBVIOUS
<1>6. forth = applyIntegrity(A) /\ back = applyIntegrity(B)
  BY <1>1, <1>5, RelativesAre
<1>7. PICK g : Mirrored(g, A, B) /\ \A q \in A : g[q].people = q.people
  BY <1>4, <1>5, RelativesMirror
<1>8. Ratios(A) /\ Ratios(B)
  BY <1>4, <1>5, RelativesMirror
<1>9. Ratio(r)
  BY <1>6, <1>8, IntegrityOnlyDrops
<1>10. Cardinality(AtRatio(forth, r.before, r.now)) = Cardinality(AtRatio(back, r.now, r.before))
  BY <1>6, <1>7, <1>8, <1>9, IntegrityIsFair DEF Ratio
<1>11. AtRatio(forth, r.before, r.now) = {s \in forth : s.now * r.before = s.before * r.now}
  BY DEF AtRatio
<1>12. AtRatio(back, r.now, r.before) = {s \in back : s.before * r.before = s.now * r.now}
  BY DEF AtRatio
<1> QED BY <1>10, <1>11, <1>12

LEMMA NoShareIsLarger == CorpusHolds => IndexIsFair
BY ReversalUndoes, WalletsDoNotCount DEF IndexIsFair

(* For any papers, wallets and operators, and at any moment: claims, seeds   *)
(* and the consolation for a rejected receipt move no number anyone is       *)
(* shown; prices that go up and come down again leave the index where it     *)
(* was; and a human's several wallets weigh as one.                          *)
THEOREM PublicPricesStand == CorpusSpec => []PublicPricesAreFair
<1>1. CorpusHolds => PublicPricesAreFair
  BY PricesFollow, NoShareIsLarger DEF PublicPricesAreFair
<1> QED BY <1>1, CorpusIsSound, PTL
=============================================================================
