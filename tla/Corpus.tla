-------------------------------- MODULE Corpus --------------------------------
(***************************************************************************)
(* apps/api: the receipts that have been read, with their lines, as every  *)
(* reader of them sees the two tables, and the writers that change them    *)
(* after a receipt was uploaded: the analysis that settles it, the claim   *)
(* of its points, the operator's backfill of lines (admin/backfill-lines), *)
(* the script that invents lines (scripts/seed-line-items.mjs), and the    *)
(* World ID proofs of the wallets (point_claims).                          *)
(*                                                                         *)
(* A backfill picks receipts without lines, asks the model for seconds     *)
(* each, and looks again in the transaction that writes.  That look takes  *)
(* no lock: two backfills may both find the receipt empty.                 *)
(***************************************************************************)
EXTENDS Basket

CONSTANTS
    Wallet, Human,
    Paper,       \* receipts that may be uploaded, each its own image: who, where,
                 \* when, how much, and their lines as the model would read them
    Backfill,    \* operators filling lines in at the same time
    MaxReceipts, \* bound of this model: receipts in the table
    MaxUnread,   \* bound of this model: receipts settled before lines were read
    MaxDay       \* bound of this model: days that pass

(* What the model answers for a line, and what a paper is settled as.      *)
LineItem == [item : DOMAIN Wording, label : ITEM_CATEGORIES \cup {"other"}, quantity : Int \cup {NULL},
             unit : DOMAIN PLAUSIBLE_QUANTITY \cup {NULL}, total : Int \cup {NULL}]

IsPaper(paper) ==
    /\ paper = [image |-> paper.image, wallet |-> paper.wallet, shop |-> paper.shop, country |-> paper.country,
                currency |-> paper.currency, total |-> paper.total, age |-> paper.age,
                verdict |-> paper.verdict, lines |-> paper.lines]
    /\ paper.wallet \in Wallet /\ paper.total \in Int \cup {NULL} /\ paper.age \in Nat
    /\ paper.verdict \in {"claimable", "rejected"} /\ paper.lines \in Seq(LineItem)

ASSUME PaperAssumption ==
    /\ NULL \notin Int
    /\ \A paper \in Paper : IsPaper(paper)
    /\ \A p, q \in Paper : p.image = q.image => p = q

VARIABLES
    receipts,    \* receipts, each with its receipt_line_items in order
    today,       \* the day it is
    human,       \* point_claims: the human each wallet proved to be, or NULL
    filling      \* what each backfill has under way

corpusVars == <<receipts, today, human, filling>>

Idle == [pc |-> "idle", receipt |-> NULL]

(* Mutant of SETTLED: whatever points were paid for.                       *)
SETTLEDByPoints == {"claimable", "claimed", "rejected-claimed"}

SETTLED == {"claimable", "claimed"}
Settled(r) == r.status \in SETTLED

CorpusInit ==
    /\ receipts = {} /\ today = 0
    /\ human = [w \in Wallet |-> NULL]
    /\ filling = [b \in Backfill |-> Idle]

(* analyzeReceipt settles an upload.  Lines may not have been read yet     *)
(* when it did: such receipts are what the backfill is for.  A paper is    *)
(* settled once: a second copy is the duplicate of ReceiptAnalysis.        *)
analyzeReceipt(paper, withLines) ==
    /\ Cardinality(receipts) < MaxReceipts /\ paper.age <= today
    /\ \A r \in receipts : r.paper # paper
    /\ withLines \/ Cardinality({r \in receipts : r.lines = <<>>}) < MaxUnread
    /\ receipts' = receipts \cup
          {[paper |-> paper, issued |-> today - paper.age, status |-> paper.verdict,
            lines |-> IF withLines THEN toLineItemRows(paper.lines, today) ELSE <<>>]}
    /\ UNCHANGED <<today, human, filling>>

Rewrite(r, new) == receipts' = (receipts \ {r}) \cup {new}

(* A claim settles receipts of one wallet: all that wait for it, with the  *)
(* proof of a human (POST /point/claim on World) or without one, or a      *)
(* single one (POST /point/claim-single-celo).  rejected-claimed is what   *)
(* the consolation for a rejected receipt leaves behind.  The first proof  *)
(* of a wallet is the one that is read.                                    *)
Unclaimed(w) == {r \in receipts : r.paper.wallet = w /\ r.status \in {"claimable", "rejected"}}
Claimed(r) == [r EXCEPT !.status = IF @ = "claimable" THEN "claimed" ELSE "rejected-claimed"]

claim(w, settled, nullifier) ==
    /\ settled \subseteq Unclaimed(w) /\ settled # {}
    /\ settled = Unclaimed(w) \/ (Cardinality(settled) = 1 /\ nullifier = NULL)
    /\ receipts' = (receipts \ settled) \cup {Claimed(r) : r \in settled}
    /\ human' = [human EXCEPT ![w] = IF @ = NULL THEN nullifier ELSE @]
    /\ UNCHANGED <<today, filling>>

(* The selection: settled receipts nobody has read, or any with            *)
(* includeRejected.                                                        *)
backfillPick(b, r) ==
    /\ filling[b] = Idle
    /\ r.lines = <<>> /\ r.paper.country # NULL
    /\ filling' = [filling EXCEPT ![b] = [pc |-> "read", receipt |-> r.paper]]
    /\ UNCHANGED <<receipts, today, human>>

(* The look inside the transaction.                                        *)
backfillCheck(b) ==
    /\ filling[b].pc = "read"
    /\ \E r \in receipts :
          /\ r.paper = filling[b].receipt
          /\ filling' = [filling EXCEPT ![b] = IF r.lines # <<>> THEN Idle ELSE [@ EXCEPT !.pc = "empty"]]
    /\ UNCHANGED <<receipts, today, human>>

backfillWrite(b) ==
    /\ filling[b].pc = "empty"
    /\ \E r \in receipts :
          /\ r.paper = filling[b].receipt
          /\ Rewrite(r, [r EXCEPT !.lines = @ \o toLineItemRows(r.paper.lines, today)])
    /\ filling' = [filling EXCEPT ![b] = Idle]
    /\ UNCHANGED <<today, human>>

(* The model call fails, or the request dies.                              *)
backfillFails(b) ==
    /\ filling[b] # Idle
    /\ filling' = [filling EXCEPT ![b] = Idle]
    /\ UNCHANGED <<receipts, today, human>>

(* buildLines: invented lines that sum to the total that was printed, in   *)
(* the basket of the paper, for a receipt without any.                     *)
Invented(r) == [i \in DOMAIN r.paper.lines |-> [Row(r.paper.lines[i], today) EXCEPT !.source = "seed"]]
seedLines(r) ==
    /\ r.lines = <<>> /\ r.paper.total # NULL /\ r.paper.country # NULL
    /\ Rewrite(r, [r EXCEPT !.lines = Invented(r)])
    /\ UNCHANGED <<today, human, filling>>

DayPasses ==
    /\ today < MaxDay
    /\ today' = today + 1
    /\ UNCHANGED <<receipts, human, filling>>

CorpusNext ==
    \/ \E paper \in Paper, withLines \in BOOLEAN : analyzeReceipt(paper, withLines)
    \/ \E w \in Wallet, settled \in SUBSET receipts, nullifier \in Human \cup {NULL} :
          claim(w, settled, nullifier)
    \/ \E r \in receipts : seedLines(r)
    \/ \E b \in Backfill : \/ \E r \in receipts : backfillPick(b, r)
                           \/ backfillCheck(b) \/ backfillWrite(b) \/ backfillFails(b)
    \/ DayPasses

CorpusSpec == CorpusInit /\ [][CorpusNext]_corpusVars

=============================================================================
