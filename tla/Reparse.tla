--------------------------------- MODULE Reparse ---------------------------------
(***************************************************************************)
(* apps/api, routes/admin/reparse.ts and lib/receipt-grade.ts: an operator *)
(* has receipts of the bucket read again with the prompt as it stands, and *)
(* gets each reading beside what is on file, with the verdict it would     *)
(* have today.  The receipts are chosen by one query, their images and     *)
(* lines are read by two more, and a few workers then take the receipts    *)
(* from one cursor, each waiting for its downloads and for the model.      *)
(* Nothing is written, so requests share nothing, and this is about one;   *)
(* analyses, backfills and removals write meanwhile.                       *)
(*                                                                         *)
(* The age of a reading is in days before the request.  Currency, wording  *)
(* and the labels of the lines are left out, and so is the filter by       *)
(* status, which is like the one by country.                               *)
(***************************************************************************)
EXTENDS Integers, Sequences, FiniteSets

CONSTANTS
    Filed,          \* ids of receipts
    OnFile,         \* [Filed -> File]: what is on file at first
    Row,            \* what their rows may say: [merchant, total, country, date]
    Count,          \* how many lines or images a receipt may have
    Reading,        \* what the model may read: [merchant, total, country, age, lines, isReceipt, quality]
    NULL,
    CONCURRENCY, MAX_SAMPLE,
    RECEIPT_QUALITY_THRESHOLD, MAX_RECEIPT_AGE_DAYS, MAX_TOTAL_AMOUNT,
    MaxWrites       \* bound: what others write during one request

File == [row: Row, images: Count, lines: Count]

ASSUME ReparseAssumption ==
    /\ IsFiniteSet(Filed) /\ OnFile \in [Filed -> File]
    /\ Count \subseteq Nat /\ CONCURRENCY \in Nat \ {0} /\ MAX_SAMPLE \in Nat
    /\ MAX_RECEIPT_AGE_DAYS \in Nat /\ \A d \in Reading : d.age = NULL \/ d.age \in Nat
    /\ NULL \notin Int

VARIABLES
    filed,      \* [Filed -> File]
    phase,      \* of the request: idle, files, runs; answered or broken
    ignoreAge,
    chosen,     \* the receipts it is about, with their rows as they were read
    images, lines,  \* [Filed -> how many], once they are read
    cursor,     \* how many receipts were taken
    hand,       \* [worker -> the place of the receipt it waits for, or 0]
    results,    \* the answer under construction: [place -> entry]
    runs,       \* history: how often the receipt at a place was taken
    writes      \* history: what others wrote since the request began

probeVars == <<filed, phase, ignoreAge, chosen, images, lines, cursor, hand, results, runs, writes>>

Workers == 1..CONCURRENCY
Places == 1..Len(chosen)
Unread == [r \in Filed |-> NULL]

ProbeInit ==
    /\ filed = OnFile /\ phase = "idle" /\ ignoreAge = FALSE
    /\ chosen = <<>> /\ images = Unread /\ lines = Unread
    /\ cursor = 0 /\ hand = [w \in Workers |-> 0]
    /\ results = <<>> /\ runs = <<>> /\ writes = 0

-----------------------------------------------------------------------------
(* The verdict.                                                            *)

notAReceipt(d) == ~d.isReceipt \/ (d.quality = 0 /\ d.merchant = "UNKNOWN")
Storable(amount) == amount # NULL /\ amount <= MAX_TOTAL_AMOUNT /\ -amount <= MAX_TOTAL_AMOUNT

(* Each test presumes the ones before it; age is when the paper is judged. *)
gradeReceiptFields(d, age) ==
    IF notAReceipt(d) THEN "not-a-receipt"
    ELSE IF d.quality < RECEIPT_QUALITY_THRESHOLD THEN "unreadable"
    ELSE IF d.merchant \in {NULL, ""} THEN "no-merchant"
    ELSE IF ~Storable(d.total) THEN "no-total"
    ELSE IF d.age = NULL THEN "no-date"
    ELSE IF age > MAX_RECEIPT_AGE_DAYS THEN "too-old"
    ELSE NULL

(* ignoreAge judges a paper a second after it was printed.                 *)
asOf(d, ignoring) == IF ignoring /\ d.age # NULL THEN 0 ELSE d.age

Verdict(d, ignoring) == gradeReceiptFields(d, asOf(d, ignoring))

-----------------------------------------------------------------------------
(* Reading and file side by side.                                          *)

OrEmpty(text) == IF text = NULL THEN "" ELSE text

(* A total that is missing is NaN, and NaN differs from itself.            *)
SameTotal(a, b) == a # NULL /\ b # NULL /\ a = b

differences(row, count, d) ==
    {f \in {"merchantName", "totalAmount", "countryCode", "lineCount"} :
        CASE f = "merchantName" -> OrEmpty(row.merchant) # OrEmpty(d.merchant)
          [] f = "totalAmount" -> ~SameTotal(row.total, d.total)
          [] f = "countryCode" -> OrEmpty(row.country) # d.country
          [] f = "lineCount" -> count # d.lines}

(* A date that was stored may be one toISOString cannot print.             *)
usableIfAny(date) == date # NULL \* the mistake: any date that is there
usable(date) == date \notin {NULL, "unprintable"}
RangeError(date) == usable(date) /\ date = "unprintable"

Entry(i, error, reading, verdict, changed) ==
    [id |-> chosen[i].id, row |-> chosen[i].row, lines |-> lines[chosen[i].id],
     error |-> error, reading |-> reading, verdict |-> verdict, changed |-> changed]

Read(i, d) ==
    Entry(i, NULL, d, Verdict(d, ignoreAge), differences(chosen[i].row, lines[chosen[i].id], d))
Failed(i, error) == Entry(i, error, NULL, NULL, {})

Put(i, entry) == [j \in DOMAIN results \cup {i} |-> IF j = i THEN entry ELSE results[j]]

-----------------------------------------------------------------------------
(* The request.                                                            *)

(* The rows of some ids, or some at random of those that qualify.          *)
Named == {ids \in SUBSET Filed : Cardinality(ids) <= MAX_SAMPLE}
Eligible(country, withLines) ==
    {r \in Filed : /\ filed[r].row.country # NULL
                   /\ country # NULL => filed[r].row.country = country
                   /\ withLines => filed[r].lines > 0}
Drawn(sample, country, withLines) ==
    {ids \in Named : /\ ids \subseteq Eligible(country, withLines)
                     /\ Cardinality(ids) <= sample
                     /\ Cardinality(ids) < sample => ids = Eligible(country, withLines)}

(* In whatever order the database returns them.                            *)
Orders(ids) ==
    {s \in [1..Cardinality(ids) -> ids] : \A i, j \in DOMAIN s : s[i] = s[j] => i = j}

Ask ==
    /\ phase = "idle" /\ ignoreAge' \in BOOLEAN
    /\ \E ids \in Named :
          /\ \/ ids # {}
             \/ \E sample \in 1..MAX_SAMPLE, country \in {r.country : r \in Row}, withLines \in BOOLEAN :
                   ids \in Drawn(sample, country, withLines)
          /\ \E order \in Orders(ids) :
                /\ chosen' = [i \in DOMAIN order |-> [id |-> order[i], row |-> filed[order[i]].row]]
                /\ runs' = [i \in DOMAIN order |-> 0]
          /\ phase' = IF ids = {} THEN "answered" ELSE "files"
    /\ UNCHANGED <<filed, images, lines, cursor, hand, results, writes>>

(* Two queries, in either order.                                           *)
ReadImages ==
    /\ phase = "files" /\ images = Unread
    /\ images' = [r \in Filed |-> filed[r].images]
    /\ UNCHANGED <<filed, phase, ignoreAge, chosen, lines, cursor, hand, results, runs, writes>>

ReadLines ==
    /\ phase = "files" /\ lines = Unread
    /\ lines' = [r \in Filed |-> filed[r].lines]
    /\ UNCHANGED <<filed, phase, ignoreAge, chosen, images, cursor, hand, results, runs, writes>>

Begin ==
    /\ phase = "files" /\ images # Unread /\ lines # Unread /\ phase' = "runs"
    /\ UNCHANGED <<filed, ignoreAge, chosen, images, lines, cursor, hand, results, runs, writes>>

(* A worker takes the next receipt.  One without an image is answered at   *)
(* once; a row that cannot be printed would end the whole request.         *)
Takes(w) ==
    /\ phase = "runs" /\ hand[w] = 0 /\ cursor < Len(chosen)
    /\ LET i == cursor + 1 IN
          /\ cursor' = i /\ runs' = [runs EXCEPT ![i] = @ + 1]
          /\ \/ /\ RangeError(chosen[i].row.date) /\ phase' = "broken"
                /\ UNCHANGED <<hand, results>>
             \/ /\ ~RangeError(chosen[i].row.date) /\ images[chosen[i].id] = 0
                /\ results' = Put(i, Failed(i, "No stored image"))
                /\ UNCHANGED <<phase, hand>>
             \/ /\ ~RangeError(chosen[i].row.date) /\ images[chosen[i].id] # 0
                /\ hand' = [hand EXCEPT ![w] = i]
                /\ UNCHANGED <<phase, results>>
    /\ UNCHANGED <<filed, ignoreAge, chosen, images, lines, writes>>

(* Its downloads and the model answer, or one of them fails.               *)
WorkerEnds(w) ==
    /\ phase = "runs" /\ hand[w] # 0
    /\ \/ \E d \in Reading : results' = Put(hand[w], Read(hand[w], d))
       \/ results' = Put(hand[w], Failed(hand[w], "error"))
    /\ hand' = [hand EXCEPT ![w] = 0]
    /\ UNCHANGED <<filed, phase, ignoreAge, chosen, images, lines, cursor, runs, writes>>

(* Every worker found the cursor at the end.                               *)
Answer ==
    /\ phase = "runs" /\ cursor = Len(chosen) /\ \A w \in Workers : hand[w] = 0
    /\ phase' = "answered"
    /\ UNCHANGED <<filed, ignoreAge, chosen, images, lines, cursor, hand, results, runs, writes>>

(* Analyses, backfills, seedings and removals.                             *)
Refile ==
    /\ phase \notin {"idle", "answered", "broken"} /\ writes < MaxWrites /\ writes' = writes + 1
    /\ \E r \in Filed, f \in File : filed' = [filed EXCEPT ![r] = f]
    /\ UNCHANGED <<phase, ignoreAge, chosen, images, lines, cursor, hand, results, runs>>

ProbeNext ==
    \/ Ask \/ ReadImages \/ ReadLines \/ Begin \/ Answer \/ Refile
    \/ \E w \in Workers : Takes(w) \/ WorkerEnds(w)

ProbeSpec == ProbeInit /\ [][ProbeNext]_probeVars

-----------------------------------------------------------------------------
(* Properties.                                                             *)

ProbeTypeOK ==
    /\ filed \in [Filed -> File]
    /\ phase \in {"idle", "files", "runs", "answered", "broken"} /\ ignoreAge \in BOOLEAN
    /\ chosen \in Seq([id: Filed, row: Row])
    /\ images \in [Filed -> Count] \cup {Unread} /\ lines \in [Filed -> Count] \cup {Unread}
    /\ cursor \in 0..Len(chosen) /\ hand \in [Workers -> 0..Len(chosen)]
    /\ DOMAIN results \subseteq Places /\ runs \in [Places -> Nat]
    /\ writes \in Nat

(* reparse.ts 400-418: whatever order downloads and the model answer in,   *)
(* and whichever of them fail, the answer has one entry for every receipt  *)
(* that was chosen, in their order, from one reading of each.              *)
EveryReceiptOnce ==
    phase = "answered" =>
        /\ DOMAIN results = Places
        /\ \A i \in Places : results[i].id = chosen[i].id /\ runs[i] = 1

(* reparse.ts 374-388: a receipt that cannot be shown, has no image or     *)
(* cannot be read costs its own entry, never the request.                  *)
NoBatchIsLost == phase # "broken"

(* Rows and lines are from different queries: they belong together, and to *)
(* the receipt they are put beside, if nobody wrote meanwhile.             *)
ShownAsFiled ==
    writes = 0 =>
        \A i \in DOMAIN results :
            /\ results[i].row = filed[results[i].id].row
            /\ results[i].lines = filed[results[i].id].lines

(* reparse.ts 343-364: no difference is kept back.  (Totals that are both  *)
(* missing are shown as one.)                                              *)
NoDifferenceUnseen ==
    \A i \in DOMAIN results : \A d \in {results[i].reading} \ {NULL} :
        results[i].changed = {} =>
            /\ OrEmpty(results[i].row.merchant) = OrEmpty(d.merchant)
            /\ results[i].row.total = d.total
            /\ OrEmpty(results[i].row.country) = d.country
            /\ results[i].lines = d.lines

(* receipt-grade.ts 18-54: age is the last thing asked, so that leaving it *)
(* out brings no other reason to light, and hides none.                    *)
AgeHidesNothing ==
    \A d \in Reading :
        Verdict(d, TRUE) = IF Verdict(d, FALSE) = "too-old" THEN NULL ELSE Verdict(d, FALSE)

ProbesHold ==
    EveryReceiptOnce /\ NoBatchIsLost /\ ShownAsFiled /\ NoDifferenceUnseen /\ AgeHidesNothing
=============================================================================
