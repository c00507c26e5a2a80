------------------------------ MODULE ReceiptLists ------------------------------
(***************************************************************************)
(* One wallet's receipts on its phone: GET /receipts of routes/client/     *)
(* receipt.ts, the pages and the list of unclaimed rejections that         *)
(* lib/api/queries.ts keeps of it, and what pages/Receipts.tsx and         *)
(* pages/Ledger.tsx make of them.                                          *)
(*                                                                         *)
(* Pages are asked for by offset, one after another, each by two queries   *)
(* that share no snapshot - the rows, and how many there are - while       *)
(* receipts are uploaded, judged, claimed and removed behind them.  A list *)
(* that is asked for again is asked for page by page and shown when the    *)
(* last one is there.                                                      *)
(*                                                                         *)
(* Times are whole; Hours of them make a day.  A receipt is judged once    *)
(* here (see ReceiptAnalysis); what a purchase came to against the market  *)
(* of a country is a sign, or nothing (see SpendLedger).                   *)
(***************************************************************************)
EXTENDS Integers, FiniteSets, SequencesExt

CONSTANTS
    Photo,              \* receipts that may be uploaded
    Earlier,            \* those of them that were, in order, and were claimed
    FirstUpload,        \* when the first of them was
    RECEIPT_PAGE_SIZE,
    Place,              \* countries
    Printed,            \* [Photo -> time]: when it was issued
    From,               \* [Photo -> Place]
    Came,               \* [Photo -> [Place -> -1..1]]: above, at or below the market there
    Unread,             \* no date, no country, no comparison, no list
    Hours,
    ZoneShift,          \* hours the phone is ahead of UTC
    MaxChanges          \* bound: changes of the table

ASSUME ListAssumption ==
    /\ RECEIPT_PAGE_SIZE \in Nat \ {0} /\ Hours \in Nat \ {0} /\ ZoneShift \in Nat
    /\ Earlier \in Seq(Photo) /\ (\A i, j \in DOMAIN Earlier : Earlier[i] = Earlier[j] => i = j) /\ FirstUpload \in Nat /\ MaxChanges \in Nat
    /\ Printed \in [Photo -> Nat] /\ From \in [Photo -> Place] /\ Came \in [Photo -> [Place -> -1..1]]

VARIABLES
    kept,       \* the wallet's rows of receipts, by paper
    changes,
    shownPages, \* useReceiptPages: pages, in order
    drift,      \* history: changes of the table since the first of them was asked for
    asking,     \* the page that is being asked for, with those before it
    unclaimed,  \* useRejectedReceipts, or Unread
    unclaimedDrift

listVars == <<kept, changes, shownPages, drift, asking, unclaimed, unclaimedDrift>>
screenVars == <<shownPages, drift, asking, unclaimed, unclaimedDrift>>

NotAsking == [goal |-> 0, pages |-> <<>>, rows |-> Unread, total |-> Unread, drift |-> 0]

PaperRow(status, issuedAt, country, uploads) ==
    [status |-> status, issuedAt |-> issuedAt, country |-> country, createdAt |-> FirstUpload + uploads]
ClaimedRow(r) ==
    PaperRow("claimed", Printed[r], From[r], CHOOSE i \in DOMAIN Earlier : Earlier[i] = r)

ListInit ==
    /\ kept = [r \in ToSet(Earlier) |-> ClaimedRow(r)] /\ changes = 0
    /\ shownPages = <<>> /\ drift = 0 /\ asking = NotAsking
    /\ unclaimed = Unread /\ unclaimedDrift = 0

-----------------------------------------------------------------------------
(* The table, and what changes it.                                         *)

Changes ==
    /\ changes < MaxChanges /\ changes' = changes + 1
    /\ drift' = IF shownPages = <<>> THEN 0 ELSE drift + 1
    /\ asking' = IF asking.goal = 0 THEN asking ELSE [asking EXCEPT !.drift = @ + 1]
    /\ unclaimedDrift' = IF unclaimed = Unread THEN 0 ELSE unclaimedDrift + 1
    /\ UNCHANGED <<shownPages, unclaimed>>

(* Later uploads come after every earlier one, and after the purchase.     *)
uploadPaper(r) ==
    LET row == PaperRow("pending", Unread, Unread, Len(Earlier) + 1 + changes)
    IN
    /\ r \notin DOMAIN kept \cup ToSet(Earlier) /\ Printed[r] <= row.createdAt
    /\ kept' = [q \in DOMAIN kept \cup {r} |-> IF q = r THEN row ELSE kept[q]]
    /\ Changes

(* A purchase is accepted with its date, or without when none could be     *)
(* read; a rejected scan has whatever was read of it.                      *)
judge(r) ==
    /\ r \in DOMAIN kept /\ kept[r].status = "pending"
    /\ \E verdict \in {"claimable", "rejected"}, date \in {Unread, Printed[r]} :
          kept' = [kept EXCEPT ![r].status = verdict, ![r].issuedAt = date, ![r].country = From[r]]
    /\ Changes

collect(r) ==
    /\ r \in DOMAIN kept /\ kept[r].status \in {"claimable", "rejected"}
    /\ kept' = [kept EXCEPT ![r].status = IF @ = "claimable" THEN "claimed" ELSE "rejected-claimed"]
    /\ Changes

removeAll ==
    /\ DOMAIN kept # {} /\ kept' = <<>>
    /\ Changes

-----------------------------------------------------------------------------
(* GET /receipts.                                                          *)

LEDGER_STATUSES == {"pending", "claimable", "claimed"}
REJECTED_STATUSES == {"rejected"}

(* Mutant of receiptScope: everything that is unclaimed.                   *)
receiptScopeUnclaimed(kind) ==
    {r \in DOMAIN kept :
        kept[r].status \in IF kind = "rejected" THEN REJECTED_STATUSES \cup {"claimable"} ELSE LEDGER_STATUSES}

receiptScope(kind) ==
    {r \in DOMAIN kept :
        kept[r].status \in IF kind = "rejected" THEN REJECTED_STATUSES ELSE LEDGER_STATUSES}

(* By the purchase, by the upload where its date could not be read.        *)
Shopped(r) == IF kept[r].issuedAt = Unread THEN kept[r].createdAt ELSE kept[r].issuedAt

NewestFirstOf(rs) ==
    SetToSortSeq(rs, LAMBDA q, r : \/ Shopped(q) > Shopped(r)
                                   \/ Shopped(q) = Shopped(r) /\ kept[q].createdAt > kept[r].createdAt)

(* The page has one market: of the first country on it.                    *)
CountryOf(page) ==
    LET known == SelectSeq(page, LAMBDA r : kept[r].country # Unread)
    IN  IF known = <<>> THEN Unread ELSE kept[known[1]].country

(* Mutant of ComparedOn: every receipt on the page against its market.     *)
ComparedAnyway(r, country) == IF country = Unread THEN Unread ELSE Came[r][country]

(* A receipt of another country is left uncompared.                        *)
ComparedOn(r, country) ==
    IF country = Unread \/ kept[r].country # country THEN Unread ELSE Came[r][country]

Listed(page) ==
    [i \in DOMAIN page |->
        [paper |-> page[i], issuedAt |-> kept[page[i]].issuedAt, createdAt |-> kept[page[i]].createdAt,
         comparison |-> ComparedOn(page[i], CountryOf(page))]]

listReceipts(kind, offset, limit) ==
    LET all == NewestFirstOf(receiptScope(kind))
    IN  Listed(SubSeq(all, offset + 1, IF offset + limit < Len(all) THEN offset + limit ELSE Len(all)))

-----------------------------------------------------------------------------
(* lib/api/queries.ts.                                                     *)

RowsOf(pages) == FlattenSeq([i \in DOMAIN pages |-> pages[i].list])

(* Mutant of getNextPageParam: pages are counted, not receipts.            *)
getNextPageByCount(pages) ==
    IF Len(pages) < pages[Len(pages)].totalCount THEN Len(pages) ELSE Unread

getNextPageParam(pages) ==
    LET seen == Len(RowsOf(pages))
    IN  IF seen < pages[Len(pages)].totalCount THEN seen ELSE Unread

Offset == IF asking.pages = <<>> THEN 0 ELSE getNextPageParam(asking.pages)
hasNextPage == shownPages # <<>> /\ getNextPageParam(shownPages) # Unread

Papers(list) == {list[i].paper : i \in DOMAIN list}

(* The screen is opened, the list is stale: as many pages as are shown, or *)
(* the first.                                                              *)
refetchPages ==
    /\ asking' = [NotAsking EXCEPT !.goal = IF shownPages = <<>> THEN 1 ELSE Len(shownPages)]
    /\ UNCHANGED <<kept, changes, shownPages, drift, unclaimed, unclaimedDrift>>

fetchNextPage ==
    /\ hasNextPage
    /\ asking' = [NotAsking EXCEPT !.goal = Len(shownPages) + 1, !.pages = shownPages, !.drift = drift]
    /\ UNCHANGED <<kept, changes, shownPages, drift, unclaimed, unclaimedDrift>>

(* The two queries of a request, in either order.                          *)
readRows ==
    /\ asking.goal > 0 /\ asking.rows = Unread
    /\ asking' = [asking EXCEPT !.rows = listReceipts("ledger", Offset, RECEIPT_PAGE_SIZE)]
    /\ UNCHANGED <<kept, changes, shownPages, drift, unclaimed, unclaimedDrift>>

readCount ==
    /\ asking.goal > 0 /\ asking.total = Unread
    /\ asking' = [asking EXCEPT !.total = Cardinality(receiptScope("ledger"))]
    /\ UNCHANGED <<kept, changes, shownPages, drift, unclaimed, unclaimedDrift>>

(* An answer is a page; the list is shown when there are as many as were   *)
(* wanted, or no more to come.                                             *)
pageArrives ==
    LET pages == Append(asking.pages, [list |-> asking.rows, totalCount |-> asking.total])
    IN
    /\ asking.goal > 0 /\ asking.rows # Unread /\ asking.total # Unread
    /\ IF Len(pages) = asking.goal \/ getNextPageParam(pages) = Unread
       THEN shownPages' = pages /\ drift' = asking.drift /\ asking' = NotAsking
       ELSE /\ asking' = [asking EXCEPT !.pages = pages, !.rows = Unread, !.total = Unread]
            /\ UNCHANGED <<shownPages, drift>>
    /\ UNCHANGED <<kept, changes, unclaimed, unclaimedDrift>>

pageFails ==
    /\ asking.goal > 0 /\ asking' = NotAsking
    /\ UNCHANGED <<kept, changes, shownPages, drift, unclaimed, unclaimedDrift>>

fetchRejected ==
    /\ unclaimed' = Papers(listReceipts("rejected", 0, 200)) /\ unclaimedDrift' = 0
    /\ UNCHANGED <<kept, changes, shownPages, drift, asking>>

-----------------------------------------------------------------------------
(* pages/Receipts.tsx and pages/Ledger.tsx.                                *)

all == RowsOf(shownPages)
matches(row, filter) ==
    CASE filter = "all" -> TRUE
      [] filter = "saved" -> row.comparison # Unread /\ row.comparison > 0
      [] filter = "over" -> row.comparison # Unread /\ row.comparison < 0

(* lib/receipt-days.ts: by the date on the paper, in UTC; by the upload,   *)
(* as the phone's clock has it, where there is none.                       *)
dayKey(row) == (IF row.issuedAt = Unread THEN row.createdAt + ZoneShift ELSE row.issuedAt) \div Hours

(* The days of a list in the order they come up in it, each once.          *)
DaysOf(list) ==
    FoldLeft(LAMBDA days, row : IF dayKey(row) \in ToSet(days) THEN days ELSE Append(days, dayKey(row)),
             <<>>, list)

(* Mutant of groupByDay: the order of the list is trusted.                 *)
groupAsListed(list) == DaysOf(list)

(* The headings, newest first: dates of both kinds may interleave.         *)
groupByDay(list) == SortSeq(DaysOf(list), LAMBDA c, d : c > d)

ListNext ==
    \/ \E r \in Photo : uploadPaper(r) \/ judge(r) \/ collect(r)
    \/ removeAll
    \/ refetchPages \/ fetchNextPage \/ readRows \/ readCount \/ pageArrives \/ pageFails
    \/ fetchRejected

ListSpec == ListInit /\ [][ListNext]_listVars

-----------------------------------------------------------------------------
(* Properties.                                                             *)

(* As long as the table stands, the pages are the top of the ledger: every *)
(* receipt once, in the order it was bought in, and all of it when no      *)
(* older ones are offered.                                                 *)
PagesAreTheLedger ==
    drift = 0 /\ shownPages # <<>> =>
        LET ledger == NewestFirstOf(receiptScope("ledger"))
            shown == [i \in DOMAIN all |-> all[i].paper]
        IN  /\ IsPrefix(shown, ledger)
            /\ ~hasNextPage => Len(shown) = Len(ledger)

(* When it does not stand, pages slide under one another: a receipt may be *)
(* shown twice, but no more of them than there were changes.               *)
RepeatsAreChanges == Len(all) - Cardinality(Papers(all)) <= drift

(* lib/receipt-lists.ts 18-21: a shop is not on the screen twice, among    *)
(* the purchases and among what waits to be claimed, unless it was still   *)
(* being read, or taken, when one of the two was asked for.                *)
OnOneList ==
    unclaimed # Unread /\ drift = 0 /\ unclaimedDrift = 0 => Papers(all) \cap unclaimed = {}

(* Receipts.tsx 137-144: what is listed as cheaper or dearer is so by its  *)
(* own country's market, as its detail page says.                          *)
FilterTellsTheDetail ==
    \A i \in DOMAIN all :
        /\ matches(all[i], "saved") => Came[all[i].paper][From[all[i].paper]] > 0
        /\ matches(all[i], "over") => Came[all[i].paper][From[all[i].paper]] < 0

(* Receipts.tsx 109-128: one heading for a day, later days first.          *)
DaysDescend ==
    LET days == groupByDay(all) IN \A i, j \in DOMAIN days : i < j => days[i] > days[j]

ListsAreTrue ==
    PagesAreTheLedger /\ RepeatsAreChanges /\ OnOneList /\ FilterTellsTheDetail /\ DaysDescend
=============================================================================
